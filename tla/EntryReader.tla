----------------------------- MODULE EntryReader -----------------------------
(***************************************************************************)
(* Reading the data of one stored entry: get_entry of ZipSliceArchive and  *)
(* of ZipArchive, RangeReader, and ZipVerifier on top of it (archive.rs,   *)
(* archive/reader.rs, reader_at.rs).  An encoder between the two would be  *)
(* another source of bytes and change nothing in them.                     *)
(*                                                                         *)
(* The caller chooses every buffer, may go on after an error and after the *)
(* end; the file may be cut, its data or the claims of the directory       *)
(* wrong.  A CRC is modelled by the bytes it covers: two different         *)
(* sequences of bytes have different CRCs.                                 *)
(***************************************************************************)
EXTENDS Integers, Sequences

CONSTANTS
  HeaderSize,  (* ZipLocalFileHeaderFixed::SIZE: 30                        *)
  U64MAX,      (* greatest offset                                          *)
  Files,       (* bytes, and the variable lengths of the local headers     *)
               (* by position                                              *)
  Entries,     (* what the central directory says: a wayfinder             *)
  MaxRead,     (* bound: length of the caller's buffers                    *)
  IoFaults     (* may a read of the file fail?                             *)

Wayfinder(Byte) ==
  [local_header_offset : Nat, compressed_size : Nat, uncompressed_size : Nat,
   crc : Seq(Byte)]

ASSUME EntryAssumption ==
  /\ HeaderSize \in Nat /\ U64MAX \in Nat /\ MaxRead \in Nat \ {0}
  /\ IoFaults \in BOOLEAN
  /\ \A f \in Files :
       /\ f.bytes \in Seq(Nat) /\ DOMAIN f.headers \subseteq Nat
       /\ \A p \in DOMAIN f.headers : f.headers[p] \in Nat
  /\ Entries \subseteq Wayfinder(Nat)

VARIABLES
  file, entry,
  archive,     (* "slice" or "reader"                                      *)
  state,       (* "closed", "open", or "refused" by get_entry              *)
  offset,      (* RangeReader.offset, or where the slice is read           *)
  end_offset,  (* RangeReader.end_offset, or the end of the slice          *)
  crc, size,   (* ZipVerifier.crc and .size                                *)
  answer,      (* of the last call                                         *)
  got,         (* history: the bytes the caller was given                  *)
  rejected     (* history: has the verifier answered an error?             *)

given == <<file, entry, archive>>
vars == <<given, state, offset, end_offset, crc, size, answer, got, rejected>>

FileSize == Len(file.bytes)

Smaller(a, b) == IF a <= b THEN a ELSE b

Init ==
  /\ file \in Files /\ entry \in Entries /\ archive \in {"slice", "reader"}
  /\ state = "closed" /\ offset = 0 /\ end_offset = 0
  /\ crc = <<>> /\ size = 0
  /\ answer = "none" /\ got = <<>> /\ rejected = FALSE

-----------------------------------------------------------------------------
(* get_entry.                                                              *)

HeaderAt(p) == p \in DOMAIN file.headers /\ p + HeaderSize <= FileSize

BodyOffset ==
  entry.local_header_offset + HeaderSize + file.headers[entry.local_header_offset]

BodyEnd == BodyOffset + entry.compressed_size

\* Mutant: sums of offsets wrap unnoticed.
FitsUnchecked == archive = "slice" => BodyEnd <= FileSize

\* The slice wants all data to be there; the reader only that offsets do
\* not overflow.
Fits ==
  /\ BodyEnd <= U64MAX
  /\ archive = "slice" => BodyEnd <= FileSize

GetEntry ==
  /\ state = "closed"
  /\ IF HeaderAt(entry.local_header_offset) /\ Fits
     THEN state' = "open" /\ offset' = BodyOffset /\ end_offset' = BodyEnd
     ELSE state' = "refused" /\ UNCHANGED <<offset, end_offset>>
  /\ UNCHANGED <<given, crc, size, answer, got, rejected>>

-----------------------------------------------------------------------------
(* RangeReader::read with a buffer of n bytes.                             *)

Remaining == end_offset - offset

\* Mutant: the end of the range is no bound.
WholeBuffer(n) == n

ReadSize(n) == Smaller(n, Remaining)

\* Bytes read_at can deliver at most.
AtHand(n) ==
  IF offset >= FileSize THEN 0 ELSE Smaller(ReadSize(n), FileSize - offset)

\* A slice delivers all of them, a reader maybe fewer, but none only if
\* there are none.
Delivered(n) ==
  IF archive = "slice" \/ AtHand(n) = 0 THEN {AtHand(n)} ELSE 1..AtHand(n)

Piece(k) == SubSeq(file.bytes, offset + 1, offset + k)

-----------------------------------------------------------------------------
(* ZipVerifier::read                                                       *)

\* ZipVerification::valid
Holds(total, covered) ==
  total = entry.uncompressed_size /\ covered = entry.crc

\* Mutants: only the end is a time to look at the claims; or only the end
\* and the read that reaches the stated size.
DueAtEnd(k) == k = 0
DueOnce(k) ==
  \/ k = 0
  \/ size < entry.uncompressed_size /\ size + k >= entry.uncompressed_size

\* Is it time to look at the claims, after k more bytes?
Due(k) == k = 0 \/ size + k >= entry.uncompressed_size

Take(k) ==
  /\ offset' = offset + k
  /\ crc' = crc \o Piece(k)
  /\ size' = size + k
  /\ IF Due(k) /\ ~Holds(size', crc')
     THEN answer' = "rejected" /\ rejected' = TRUE /\ UNCHANGED got
     ELSE /\ answer' = IF k = 0 THEN "end" ELSE "data"
          /\ got' = got \o Piece(k)
          /\ UNCHANGED rejected

\* Mutant: the range is read with read_exact_at.
ReadWhole(n) ==
  /\ state = "open" /\ n > 0
  /\ IF AtHand(n) = ReadSize(n)
     THEN Take(AtHand(n))
     ELSE answer' = "io" /\ UNCHANGED <<offset, crc, size, got, rejected>>
  /\ UNCHANGED <<given, state, end_offset>>

Read(n) ==
  /\ state = "open" /\ n > 0
  /\ \E k \in Delivered(n) : Take(k)
  /\ UNCHANGED <<given, state, end_offset>>

\* Mutant: an empty buffer is read into like any other.
ReadIntoNothing ==
  /\ state = "open" /\ Take(0)
  /\ UNCHANGED <<given, state, end_offset>>

\* A buffer of length 0.
ReadEmpty ==
  /\ state = "open"
  /\ answer' = "empty"
  /\ UNCHANGED <<given, state, offset, end_offset, crc, size, got, rejected>>

\* The file cannot be read just now, by get_entry or by read_at.
ReadFails ==
  /\ IoFaults /\ archive = "reader" /\ state \in {"closed", "open"}
  /\ answer' = "io"
  /\ UNCHANGED <<given, state, offset, end_offset, crc, size, got, rejected>>

ReadOn == GetEntry \/ \E n \in 1..MaxRead : Read(n)

Next == ReadOn \/ ReadEmpty \/ ReadFails

Spec == Init /\ [][Next]_vars

\* A caller that reads on, whatever the answers; the file can be read again
\* and again.
FairSpec == Spec /\ WF_vars(ReadOn)

-----------------------------------------------------------------------------
(* Properties.                                                             *)

TypeOK ==
  /\ file \in Files /\ entry \in Entries /\ archive \in {"slice", "reader"}
  /\ state \in {"closed", "open", "refused"}
  /\ offset \in 0..U64MAX /\ end_offset \in 0..U64MAX
  /\ crc \in Seq(Nat) /\ size \in Nat
  /\ answer \in {"none", "data", "empty", "end", "io", "rejected"}
  /\ got \in Seq(Nat) /\ rejected \in BOOLEAN

(***************************************************************************)
(* ZipVerifier::read: the caller sees the end of the data only after       *)
(* exactly the claimed bytes, and has the last of them only if they are    *)
(* right: neither a caller who reads to the end nor one who stops at the   *)
(* stated size is given anything else, however the data was cut into       *)
(* pieces and however often a read failed or had no room.                  *)
(***************************************************************************)
OnlyVerified ==
  /\ answer = "end" => Len(got) = entry.uncompressed_size /\ got = entry.crc
  /\ got # <<>> /\ Len(got) >= entry.uncompressed_size => got = entry.crc

Sound ==
  /\ HeaderAt(entry.local_header_offset)
  /\ BodyEnd <= FileSize /\ BodyEnd <= U64MAX
  /\ entry.uncompressed_size = entry.compressed_size
  /\ entry.crc = SubSeq(file.bytes, BodyOffset + 1, BodyEnd)

(***************************************************************************)
(* get_entry and ZipVerifier: an entry whose claims are right is never     *)
(* refused or rejected.                                                    *)
(***************************************************************************)
SoundIsRead == Sound => state # "refused" /\ ~rejected

(***************************************************************************)
(* ZipVerifier::read: what was rejected stays rejected; reading on after   *)
(* the error gives no more data and no end.                                *)
(***************************************************************************)
RejectionStands ==
  [][rejected => got' = got /\ answer' \notin {"data", "end"}]_vars

(***************************************************************************)
(* RangeReader: the bytes are those of the entry, in order and each once,  *)
(* and never those behind it, even if the verifier was told a larger size. *)
(***************************************************************************)
OwnBytes ==
  state = "open" =>
    /\ offset <= end_offset /\ end_offset = BodyEnd
    /\ ~rejected => got = SubSeq(file.bytes, BodyOffset + 1, offset)

(***************************************************************************)
(* That, and the types: no offset leaves 64 bits.                          *)
(***************************************************************************)
RangeSound == TypeOK /\ OwnBytes

(***************************************************************************)
(* RangeReader and ZipVerifier: reading on comes to the end or to an       *)
(* error, also when the entry reaches beyond the end of the file.          *)
(***************************************************************************)
ReadingEnds == <>(state = "refused" \/ rejected \/ answer = "end")

=============================================================================
