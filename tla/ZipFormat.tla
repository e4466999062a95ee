------------------------------ MODULE ZipFormat ------------------------------
(***************************************************************************)
(* The parts of the ZIP layout on which the writer (writer.rs) and the     *)
(* reader (archive.rs, locator.rs) have to agree: the sizes of the fixed   *)
(* records, the 16 and 32 bit fields that saturate, the zip64 words that   *)
(* then carry the full value, and the width of the data descriptor.        *)
(*                                                                         *)
(* The sizes and the two limits are constants, so that a model of a few    *)
(* bytes crosses the thresholds the real format has at 2^16-1 and 2^32-1.  *)
(***************************************************************************)
EXTENDS Integers, Sequences

CONSTANTS
  U16MAX,         (* largest 16-bit value: u16::MAX                        *)
  U32MAX,         (* largest 32-bit value: u32::MAX                        *)
  LocalSize,      (* fixed part of a local file header (30 bytes)          *)
  CentralSize,    (* fixed part of a central directory record (46)         *)
  EocdSize,       (* fixed part of the end of central directory (22)       *)
  Eocd64Size,     (* zip64 end of central directory record (56)            *)
  Locator64Size,  (* zip64 end of central directory locator (20)           *)
  Desc32,         (* data descriptor with 4-byte sizes (16)                *)
  Desc64,         (* data descriptor with 8-byte sizes (24)                *)
  FieldHead,      (* id and length of an extra field (4)                   *)
  Word64,         (* a 64-bit value of the zip64 extra field (8)           *)
  TimeField       (* data of the extended timestamp extra field (5)        *)

ASSUME FormatAssumption ==
  /\ U16MAX \in Nat \ {0} /\ U32MAX \in Nat \ {0}
  /\ LocalSize \in Nat \ {0} /\ CentralSize \in Nat \ {0}
  /\ EocdSize \in Nat \ {0} /\ Eocd64Size \in Nat \ {0}
  /\ Locator64Size \in Nat \ {0}
  /\ Desc32 \in Nat \ {0} /\ Desc64 \in Nat \ {0}
  /\ FieldHead \in Nat /\ Word64 \in Nat /\ TimeField \in Nat

Sat16(n) == IF n >= U16MAX THEN U16MAX ELSE n
Sat32(n) == IF n >= U32MAX THEN U32MAX ELSE n

-----------------------------------------------------------------------------
(* Writing.                                                                *)

Large(n) == n >= U32MAX

\* FileHeader::needs_zip64
NeedsZip64(f) ==
  \/ Large(f.compressed_size)
  \/ Large(f.uncompressed_size)
  \/ Large(f.local_header_offset)

Word(n) == IF Large(n) THEN <<n>> ELSE <<>>

\* The 64-bit words of the zip64 extra field, in the order of the format.
Zip64Words(f) ==
  Word(f.uncompressed_size) \o Word(f.compressed_size)
    \o Word(f.local_header_offset)

\* What the zip64 extra field adds to the extra fields of a record.
Zip64FieldSize(f) ==
  IF NeedsZip64(f) THEN FieldHead + Word64 * Len(Zip64Words(f)) ELSE 0

\* Mutant: sizes of exactly 2^32-1 are taken to fit.
WideDescriptorAbove(compressed, uncompressed) ==
  compressed > U32MAX \/ uncompressed > U32MAX

\* ZipEntryWriter::finish: does the descriptor carry 8-byte sizes?
WideDescriptor(compressed, uncompressed) ==
  Large(compressed) \/ Large(uncompressed)

DescriptorSize(wide) == IF wide THEN Desc64 ELSE Desc32

-----------------------------------------------------------------------------
(* Reading.                                                                *)

\* ZipFileHeaderRecord::from_parts: a saturated inline field takes the next
\* word of the zip64 extra field, if there is one.
Resolve(rec) ==
  LET Saturated(n) == IF n = U32MAX THEN 1 ELSE 0
      WordOr(i, inline) ==
        IF inline = U32MAX /\ i <= Len(rec.zip64) THEN rec.zip64[i] ELSE inline
      afterU == Saturated(rec.uncompressed_size)
      afterC == afterU + Saturated(rec.compressed_size)
  IN  [uncompressed_size   |-> WordOr(1, rec.uncompressed_size),
       compressed_size     |-> WordOr(afterU + 1, rec.compressed_size),
       local_header_offset |-> WordOr(afterC + 1, rec.local_header_offset)]

\* data_descriptor_uses_zip64_sizes, from the inline sizes alone.
ExpectsWideDescriptor(rec) ==
  rec.uncompressed_size = U32MAX \/ rec.compressed_size = U32MAX

\* Mutant: only the offset is looked at.
HasOffsetSentinel(eocd) == eocd.cd_offset = U32MAX

\* EndOfCentralDirectoryRecordFixed::has_zip64_sentinel
HasZip64Sentinel(eocd) ==
  \/ eocd.entries = U16MAX
  \/ eocd.cd_size = U32MAX
  \/ eocd.cd_offset = U32MAX

=============================================================================
