--------------------------- MODULE ArchiveLocation ---------------------------
(***************************************************************************)
(* Where an archive is in a file, given where the signature of its end of  *)
(* central directory was found: the part of locator.rs that the slice and  *)
(* the reader share, and what the slice makes of it.                       *)
(*                                                                         *)
(* A file is its length and the records whose signature stands in it, by   *)
(* position: ends of central directory, zip64 locators, zip64 ends and     *)
(* headers of the central directory.  A signature may stand so near the    *)
(* end of the file that its record is cut.                                 *)
(***************************************************************************)
EXTENDS Integers

CONSTANTS
  EocdSize,      (* EndOfCentralDirectoryRecordFixed::SIZE: 22             *)
  LocatorSize,   (* Zip64EndOfCentralDirectoryLocatorRecord::SIZE: 20      *)
  Eocd64Size,    (* Zip64EndOfCentralDirectoryRecord::SIZE: 56             *)
  CentralSize,   (* ZipFileHeaderFixed::SIZE: 46                           *)
  Archives       (* the files                                              *)

\* sentinel: does a field of the record announce zip64?
End == [cd_offset : Nat, cd_size : Nat, comment_len : Nat, sentinel : BOOLEAN]

End64 == [cd_offset : Nat, cd_size : Nat]

ASSUME LocationAssumption ==
  /\ LocatorSize \in Nat \ {0} /\ EocdSize \in Nat /\ LocatorSize <= EocdSize
  /\ Eocd64Size \in Nat /\ EocdSize <= Eocd64Size /\ CentralSize \in Nat
  /\ \A f \in Archives :
       /\ f.size \in Nat
       /\ DOMAIN f.ends \subseteq Nat
       /\ \A p \in DOMAIN f.ends : f.ends[p] \in End
       /\ DOMAIN f.locators \subseteq Nat
       /\ \A p \in DOMAIN f.locators : f.locators[p] \in Nat
       /\ DOMAIN f.records64 \subseteq Nat
       /\ \A p \in DOMAIN f.records64 : f.records64[p] \in End64
       /\ f.centrals \subseteq Nat

(***************************************************************************)
(* EndOfCentralDirectory.  head is where no more headers are expected;     *)
(* zip64 is what is_zip64 tells: zip64_eocd_offset is a NonZeroU64, so a   *)
(* record at offset 0 looks like none.                                     *)
(***************************************************************************)
Plain(at, e) ==
  [offset |-> e.cd_offset, size |-> e.cd_size, head |-> at, tail |-> at,
   base |-> 0, zip64 |-> FALSE]

WithZip64(at, at64, e64) ==
  [offset |-> e64.cd_offset, size |-> e64.cd_size,
   head |-> IF at64 = 0 THEN at ELSE at64, tail |-> at,
   base |-> 0, zip64 |-> at64 # 0]

\* EndOfCentralDirectory::validate
Valid(a) == a.offset <= a.head

HasCentral(f, p) == p \in f.centrals /\ p + CentralSize <= f.size

GuessedOffset(a) == IF a.size > a.tail THEN 0 ELSE a.tail - a.size

\* The archive with its directory directly in front of the end record.
Corrected(a) ==
  [a EXCEPT !.offset = GuessedOffset(a),
            !.base = IF GuessedOffset(a) > a.offset
                       THEN GuessedOffset(a) - a.offset ELSE 0]

\* The correction that the first header decides on.
Checked(f, a) ==
  IF ~HasCentral(f, a.offset) /\ ~a.zip64 /\ HasCentral(f, GuessedOffset(a))
  THEN Corrected(a) ELSE a

-----------------------------------------------------------------------------
(* locate_in_byte_slice, when the signature was found at position at.      *)

EndComplete(f, at) ==
  /\ at + EocdSize <= f.size
  /\ at + EocdSize + f.ends[at].comment_len <= f.size

HasLocator(f, at) ==
  f.ends[at].sentinel /\ LocatorSize <= at /\ at - LocatorSize \in DOMAIN f.locators

Announced(f, at) == f.locators[at - LocatorSize]

HasRecord64(f, p) == p \in DOMAIN f.records64 /\ p + Eocd64Size <= f.size

\* The archive before the first header is looked at.
Stated(f, at) ==
  IF HasLocator(f, at)
  THEN WithZip64(at, Announced(f, at), f.records64[Announced(f, at)])
  ELSE Plain(at, f.ends[at])

\* Is there an archive, and which?  Otherwise the slice answers an error.
SliceFinds(f, at) ==
  /\ EndComplete(f, at)
  /\ HasLocator(f, at) => HasRecord64(f, Announced(f, at))
  /\ Valid(Stated(f, at))

SliceArchive(f, at) == Checked(f, Stated(f, at))

=============================================================================
