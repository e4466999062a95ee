------------------------------- MODULE Records -------------------------------
(***************************************************************************)
(* The records of an archive, byte by byte: what writer.rs puts where, and *)
(* what the parsers of archive.rs and locator.rs take from where; then the *)
(* two views of one entry, that of a slice and that of a reader.           *)
(*                                                                         *)
(* A number of a record is the sequence of its bytes, least significant    *)
(* first (le_u16, le_u32, le_u64, to_le_bytes), at its full width.  A      *)
(* layout gives each field its bytes, from the first to behind the last,   *)
(* counted from 0.                                                         *)
(***************************************************************************)
EXTENDS ExtraFields, FiniteSets

CONSTANTS
  Described,     (* entries: what a writer knows of one at its end         *)
  Buffers        (* lengths of the caller's buffer for a local header      *)

VARIABLES
  bytes,         (* the file: header, data, descriptor, what follows       *)
  wayfinder,     (* ZipArchiveEntryWayfinder                               *)
  entry,         (* history: the entry that was written                    *)
  whole          (* history: is the file as it was written?                *)

recordVars == <<bytes, wayfinder, entry, whole>>

U32 == <<255, 255, 255, 255>>        \* u32::MAX
U16 == <<255, 255>>                  \* u16::MAX
Zeros(n) == [i \in 1..n |-> 0]
Widen(word) == word \o Zeros(8 - Len(word))

\* A number below 2^24 as n bytes.
Le(number, n) ==
  [i \in 1..n |-> CASE i = 1 -> number % 256
                    [] i = 2 -> (number \div 256) % 256
                    [] i = 3 -> (number \div 65536) % 256
                    [] OTHER -> 0]

\* The number of eight bytes.  One from 2^24 on is never asked for itself, only
\* whether it is at most n.
TwoTo24 == 16777216
Value(w) ==
  w[1] + 256 * (w[2] + 256 * (w[3] + 256 * (w[4] + 256 * (w[5] + 256 * (w[6]
       + 256 * (w[7] + 256 * w[8]))))))
IsSmall(word) == \A i \in 4..8 : word[i] = 0
AtMost(word, n) == (n >= TwoTo24 \/ IsSmall(word)) /\ Value(word) <= n

\* The bytes of s from first to behind last, counted from 0.
Cut(s, first, last) == SubSeq(s, first + 1, last)
From(s, first) == SubSeq(s, first + 1, Len(s))

SizeOf(layout) ==
  CHOOSE n \in 0..64 : /\ \E f \in DOMAIN layout : layout[f][2] = n
                       /\ \A f \in DOMAIN layout : layout[f][2] <= n

\* A buffer of zeros with the fields copied to their places.
Put(layout, header) ==
  LET field(i) == CHOOSE f \in DOMAIN layout : layout[f][1] < i /\ i <= layout[f][2]
  IN  [i \in 1..SizeOf(layout) |-> header[field(i)][i - layout[field(i)][1]]]

Get(layout, s) ==
  [f \in DOMAIN layout |-> Cut(s, layout[f][1], layout[f][2])]

\* parse: enough bytes, and the signature.
Readable(layout, signature, s) ==
  Len(s) >= SizeOf(layout) /\ Cut(s, 0, 4) = signature

-----------------------------------------------------------------------------
(* Layouts.                                                                *)

LocalSignature == <<80, 75, 3, 4>>
CentralSignature == <<80, 75, 1, 2>>
EocdSignature == <<80, 75, 5, 6>>
Eocd64Signature == <<80, 75, 6, 6>>
LocatorSignature == <<80, 75, 6, 7>>
DescriptorSignature == <<80, 75, 7, 8>>

\* ZipLocalFileHeaderFixed::write
LocalWritten ==
  [signature |-> <<0, 4>>, version_needed |-> <<4, 6>>, flags |-> <<6, 8>>,
   compression_method |-> <<8, 10>>, last_mod_time |-> <<10, 12>>,
   last_mod_date |-> <<12, 14>>, crc32 |-> <<14, 18>>,
   compressed_size |-> <<18, 22>>, uncompressed_size |-> <<22, 26>>,
   file_name_len |-> <<26, 28>>, extra_field_len |-> <<28, 30>>]

\* ZipLocalFileHeaderFixed::parse
LocalParsed ==
  [signature |-> <<0, 4>>, version_needed |-> <<4, 6>>, flags |-> <<6, 8>>,
   compression_method |-> <<8, 10>>, last_mod_time |-> <<10, 12>>,
   last_mod_date |-> <<12, 14>>, crc32 |-> <<14, 18>>,
   compressed_size |-> <<18, 22>>, uncompressed_size |-> <<22, 26>>,
   file_name_len |-> <<26, 28>>, extra_field_len |-> <<28, 30>>]

\* ZipFileHeaderFixed::write
CentralWritten ==
  [signature |-> <<0, 4>>, version_made_by |-> <<4, 6>>,
   version_needed |-> <<6, 8>>, flags |-> <<8, 10>>,
   compression_method |-> <<10, 12>>, last_mod_time |-> <<12, 14>>,
   last_mod_date |-> <<14, 16>>, crc32 |-> <<16, 20>>,
   compressed_size |-> <<20, 24>>, uncompressed_size |-> <<24, 28>>,
   file_name_len |-> <<28, 30>>, extra_field_len |-> <<30, 32>>,
   file_comment_len |-> <<32, 34>>, disk_number_start |-> <<34, 36>>,
   internal_file_attrs |-> <<36, 38>>, external_file_attrs |-> <<38, 42>>,
   local_header_offset |-> <<42, 46>>]

\* Mutant: the two sizes taken for each other.
CentralParsedSwapped ==
  [CentralWritten EXCEPT !.compressed_size = <<24, 28>>,
                         !.uncompressed_size = <<20, 24>>]

\* ZipFileHeaderFixed::parse
CentralParsed ==
  [signature |-> <<0, 4>>, version_made_by |-> <<4, 6>>,
   version_needed |-> <<6, 8>>, flags |-> <<8, 10>>,
   compression_method |-> <<10, 12>>, last_mod_time |-> <<12, 14>>,
   last_mod_date |-> <<14, 16>>, crc32 |-> <<16, 20>>,
   compressed_size |-> <<20, 24>>, uncompressed_size |-> <<24, 28>>,
   file_name_len |-> <<28, 30>>, extra_field_len |-> <<30, 32>>,
   file_comment_len |-> <<32, 34>>, disk_number_start |-> <<34, 36>>,
   internal_file_attrs |-> <<36, 38>>, external_file_attrs |-> <<38, 42>>,
   local_header_offset |-> <<42, 46>>]

\* EndOfCentralDirectoryRecordFixed::parse
EocdParsed ==
  [signature |-> <<0, 4>>, disk_number |-> <<4, 6>>, eocd_disk |-> <<6, 8>>,
   num_entries |-> <<8, 10>>, total_entries |-> <<10, 12>>,
   central_dir_size |-> <<12, 16>>, central_dir_offset |-> <<16, 20>>,
   comment_len |-> <<20, 22>>]

\* Zip64EndOfCentralDirectoryRecord::parse
Eocd64Parsed ==
  [signature |-> <<0, 4>>, size |-> <<4, 12>>, version_made_by |-> <<12, 14>>,
   version_needed |-> <<14, 16>>, disk_number |-> <<16, 20>>,
   cd_disk |-> <<20, 24>>, num_entries |-> <<24, 32>>,
   total_entries |-> <<32, 40>>, central_dir_size |-> <<40, 48>>,
   central_dir_offset |-> <<48, 56>>]

\* Zip64EndOfCentralDirectoryLocatorRecord::parse
LocatorParsed ==
  [signature |-> <<0, 4>>, eocd_disk |-> <<4, 8>>,
   directory_offset |-> <<8, 16>>, total_disks |-> <<16, 20>>]

-----------------------------------------------------------------------------
(* Writing.                                                                *)

\* Numbers of n bytes.
Words(n) == [1..n -> 0..255]

\* What is known of an entry when it is complete.  Besides rawzip, which has
\* a signature in front of its descriptors, there are producers that have
\* none ("unsigned"), and such that put everything into a zip64 field and the
\* sizes also into the local header ("forced").
Description ==
  [producer : {"rawzip", "unsigned", "forced"}, name : Seq(0..255),
   local_extra : Seq(0..255), extra : Seq(0..255), comment : Seq(0..255),
   flags : Words(2), compression_method : Words(2), dos : Words(4),
   unix_permissions : {<<>>} \cup Words(2), crc : Words(4), data : Seq(0..255),
   compressed_size : Words(8), uncompressed_size : Words(8),
   local_header_offset : Words(8), disk : Nat,
   entries : Words(8), directory_size : Words(8), directory_offset : Words(8)]

\* At least 2^32 - 1, the thresholds of the writer.
ReachesU32(word) == SubSeq(word, 1, 4) = U32 \/ ~ SubSeq(word, 5, 8) = Zeros(4)
ReachesU16(word) == SubSeq(word, 1, 2) = U16 \/ ~ SubSeq(word, 3, 8) = Zeros(6)

\* min with the threshold, as u32 or u16.
Min32(word) == IF ReachesU32(word) THEN U32 ELSE SubSeq(word, 1, 4)
Min16(word) == IF ReachesU16(word) THEN U16 ELSE SubSeq(word, 1, 2)

Forced(e) == e.producer = "forced"
Goes64(e, word) == Forced(e) \/ ReachesU32(word)
Inline(e, word) == IF Forced(e) THEN U32 ELSE Min32(word)
Word64(e, word) == IF Goes64(e, word) THEN word ELSE <<>>

Field64(body) ==
  IF body = <<>> THEN <<>> ELSE <<ZIP64, 0>> \o Le(Len(body), 2) \o body

Sizes64(e) == Word64(e, e.uncompressed_size) \o Word64(e, e.compressed_size)

\* FileHeader::finalize_extra_fields
CentralExtra(e) ==
  e.extra \o Field64(Sizes64(e) \o Word64(e, e.local_header_offset)
                       \o (IF Forced(e) THEN Le(e.disk, 4) ELSE <<>>))

LocalExtra(e) == e.local_extra \o (IF Forced(e) THEN Field64(Sizes64(e)) ELSE <<>>)

\* write_local_header, and the data after it.
LocalHeader(e) ==
  [signature |-> LocalSignature, version_needed |-> Le(20, 2), flags |-> e.flags,
   compression_method |-> e.compression_method,
   last_mod_time |-> SubSeq(e.dos, 1, 2), last_mod_date |-> SubSeq(e.dos, 3, 4),
   crc32 |-> Zeros(4),
   compressed_size |-> IF Forced(e) THEN U32 ELSE Zeros(4),
   uncompressed_size |-> IF Forced(e) THEN U32 ELSE Zeros(4),
   file_name_len |-> Le(Len(e.name), 2), extra_field_len |-> Le(Len(LocalExtra(e)), 2)]

\* ZipEntryWriter::finish
WideWritten(e) == Goes64(e, e.compressed_size) \/ Goes64(e, e.uncompressed_size)

Descriptor(e) ==
  LET sized(word) == IF WideWritten(e) THEN word ELSE SubSeq(word, 1, 4)
  IN  (IF e.producer = "rawzip" THEN DescriptorSignature ELSE <<>>)
        \o e.crc \o sized(e.compressed_size) \o sized(e.uncompressed_size)

\* ZipArchiveWriter::finish: one record of the central directory.
CentralHeader(e) ==
  LET needs_zip64 == WideWritten(e) \/ Goes64(e, e.local_header_offset)
      version == IF needs_zip64 THEN 45 ELSE 20
  IN  [signature |-> CentralSignature,
       version_made_by |-> <<version, IF e.unix_permissions = <<>> THEN 0 ELSE 3>>,
       version_needed |-> <<version, 0>>, flags |-> e.flags,
       compression_method |-> e.compression_method,
       last_mod_time |-> SubSeq(e.dos, 1, 2), last_mod_date |-> SubSeq(e.dos, 3, 4),
       crc32 |-> e.crc,
       compressed_size |-> Inline(e, e.compressed_size),
       uncompressed_size |-> Inline(e, e.uncompressed_size),
       file_name_len |-> Le(Len(e.name), 2),
       extra_field_len |-> Le(Len(CentralExtra(e)), 2),
       file_comment_len |-> Le(Len(e.comment), 2),
       disk_number_start |-> IF Forced(e) THEN U16 ELSE Zeros(2),
       internal_file_attrs |-> Zeros(2),
       external_file_attrs |->
         Zeros(2) \o (IF e.unix_permissions = <<>> THEN Zeros(2) ELSE e.unix_permissions),
       local_header_offset |-> Inline(e, e.local_header_offset)]

CentralRecord(e) ==
  Put(CentralWritten, CentralHeader(e)) \o e.name \o CentralExtra(e) \o e.comment

\* The end of the directory: its last record, and the two for zip64.
Eocd(e) ==
  EocdSignature \o Zeros(4) \o Min16(e.entries) \o Min16(e.entries)
    \o Min32(e.directory_size) \o Min32(e.directory_offset) \o Le(Len(e.comment), 2)

Eocd64(e) ==
  Eocd64Signature \o Le(44, 8) \o Le(45, 2) \o Le(45, 2) \o Zeros(4) \o Zeros(4)
    \o e.entries \o e.entries \o e.directory_size \o e.directory_offset

Locator64(position) == LocatorSignature \o Zeros(4) \o position \o Le(1, 4)

\* An entry as it is in the file; one too far out is not looked at.
File(e) ==
  IF ~IsSmall(e.local_header_offset) THEN <<>>
  ELSE Zeros(Value(e.local_header_offset))
         \o Put(LocalWritten, LocalHeader(e)) \o e.name \o LocalExtra(e)
         \o e.data \o Descriptor(e) \o Zeros(2)

\* What the writer has made sure of by then: whole fields, and lengths that
\* fit.  (The data's length is bounded to have a file that is no longer than
\* its numbers can say.)
Writable(e) ==
  /\ Len(e.name) <= 65535 /\ Len(e.comment) <= 65535
  /\ Parse(e.local_extra).rest = <<>> /\ Len(LocalExtra(e)) <= 65535
  /\ Parse(e.extra).rest = <<>> /\ Len(CentralExtra(e)) <= 65535
  /\ Len(e.data) < TwoTo24

ASSUME RecordsAssumption ==
  /\ Described \subseteq Description /\ \A e \in Described : Writable(e)
  /\ Buffers \subseteq Nat

-----------------------------------------------------------------------------
(* Reading the central directory.                                          *)

\* parse_variable_length
VariableFields(h, s) ==
  LET name == LeU16(h.file_name_len, 1)
      extra == name + LeU16(h.extra_field_len, 1)
      comment == extra + LeU16(h.file_comment_len, 1)
  IN  [file_name |-> Cut(s, 0, name), extra_field |-> Cut(s, name, extra),
       file_comment |-> Cut(s, extra, comment), whole |-> comment <= Len(s)]

\* Which of the fields are zip64 fields, and the body of the first of them.
Fields64(extra) ==
  {i \in DOMAIN Parse(extra).fields : LeU16(Parse(extra).fields[i], 1) = ZIP64}

FirstField64(extra) ==
  LET found == Fields64(extra)
      first == CHOOSE i \in found : \A j \in found : i <= j
  IN  IF found = {} THEN <<>> ELSE From(Parse(extra).fields[first], 4)

\* The words of that field go to the saturated fields, in this order.
Order == <<"uncompressed_size", "compressed_size", "local_header_offset">>

WordAt(h, k) == 8 * Cardinality({i \in 1..(k - 1) : h[Order[i]] = U32})

Resolved(h, k, body) ==
  IF h[Order[k]] = U32 /\ WordAt(h, k) + 8 <= Len(body)
  THEN Cut(body, WordAt(h, k), WordAt(h, k) + 8) ELSE Widen(h[Order[k]])

HasU32Size(h) == h.uncompressed_size = U32 \/ h.compressed_size = U32

\* ZipFileHeaderRecord::from_parts
FromParts(h, variable) ==
  LET announced == HasU32Size(h) \/ h.local_header_offset = U32
                     \/ h.disk_number_start = U16
      body == IF announced THEN FirstField64(variable.extra_field) ELSE <<>>
  IN  [header |-> h, variable |-> variable,
       uncompressed_size |-> Resolved(h, 1, body),
       compressed_size |-> Resolved(h, 2, body),
       local_header_offset |-> Resolved(h, 3, body),
       disk_number_start |->
         IF h.disk_number_start = U16 /\ WordAt(h, 4) + 4 <= Len(body)
         THEN Cut(body, WordAt(h, 4), WordAt(h, 4) + 4)
         ELSE h.disk_number_start \o Zeros(2),
       data_descriptor_uses_zip64_sizes |-> HasU32Size(h)]

\* ZipFileHeaderFixed::parse and next_entry: the record at the front of s.
CentralEntry(s) ==
  LET h == Get(CentralParsed, s)
      variable == VariableFields(h, From(s, SizeOf(CentralParsed)))
  IN  IF Readable(CentralParsed, CentralSignature, s) /\ variable.whole
      THEN {FromParts(h, variable)} ELSE {}

\* EntryFlags::has_data_descriptor
HasDataDescriptor(flags) == (flags[1] \div 8) % 2 = 1

\* ZipFileHeaderRecord::wayfinder
WayfinderOf(r) ==
  [uncompressed_size |-> r.uncompressed_size, compressed_size |-> r.compressed_size,
   local_header_offset |-> r.local_header_offset, crc |-> r.header.crc32,
   has_data_descriptor |-> HasDataDescriptor(r.header.flags),
   data_descriptor_uses_zip64_sizes |-> r.data_descriptor_uses_zip64_sizes]

-----------------------------------------------------------------------------
(* Two views of one entry.                                                 *)

\* local_header_size_hints
Hints(h, extra) ==
  LET body == IF HasU32Size(h) THEN FirstField64(extra) ELSE <<>>
  IN  [uncompressed_size |-> Resolved(h, 1, body),
       compressed_size |-> Resolved(h, 2, body)]

\* ZipLocalFileHeader, from the fixed part and what follows it.
LocalView(h, variable) ==
  LET name == LeU16(h.file_name_len, 1)
  IN  [header |-> h, file_path |-> Cut(variable, 0, name),
       extra_field |-> From(variable, name), hints |-> Hints(h, From(variable, name))]

VariableLength(h) == LeU16(h.file_name_len, 1) + LeU16(h.extra_field_len, 1)

LocalReadable(s) == Readable(LocalParsed, LocalSignature, s)

\* DataDescriptor::parse: with or without the signature; none if too short.
ParseDescriptor(s, wide) ==
  LET signed == Len(s) >= 4 /\ Cut(s, 0, 4) = DescriptorSignature
      body == IF signed THEN From(s, 4) ELSE s
      width == IF wide THEN 8 ELSE 4
  IN  IF Len(body) < 4 + 2 * width THEN {}
      ELSE {[crc |-> Cut(body, 0, 4),
             compressed_size |-> Widen(Cut(body, 4, 4 + width)),
             uncompressed_size |-> Widen(Cut(body, 4 + width, 4 + 2 * width))]}

\* An entry that has none; to be told from one whose descriptor is cut.
NoDescriptor == {<<>>}

\* So many bytes behind position n, as far as the file goes; min(data.len()).
Behind(n, word) ==
  IF AtMost(word, Len(bytes) - n) THEN n + Value(word) ELSE Len(bytes)

\* ZipSliceArchive::get_entry, with local_header, compressed_data_range and
\* data_descriptor of the entry.
SliceView ==
  LET start == Behind(0, wayfinder.local_header_offset)
      header == From(bytes, start)
      h == Get(LocalParsed, header)
      data == SizeOf(LocalParsed) + VariableLength(h)
      total == data + Value(wayfinder.compressed_size)
  IN  IF LocalReadable(header) /\ AtMost(wayfinder.compressed_size, Len(header) - data)
      THEN {[local |-> LocalView(h, Cut(header, SizeOf(LocalParsed), data)),
             range |-> <<start + data, start + total>>,
             descriptor |->
               IF wayfinder.has_data_descriptor
               THEN ParseDescriptor(From(header, total),
                                    wayfinder.data_descriptor_uses_zip64_sizes)
               ELSE NoDescriptor]}
      ELSE {}

\* word + n overflows 64 bits: n is larger than what the word lacks of 2^64 - 1.
Overflows(word, n) == AtMost([i \in 1..8 |-> 255 - word[i]], n - 1)

\* read_exact_at: all n bytes, or none.
ReadExactAt(position, n) ==
  IF position + n <= Len(bytes) THEN {Cut(bytes, position, position + n)} ELSE {}

\* Mutant: a read that fails if it cannot fill the whole buffer.
DescriptorExactAt(end) ==
  UNION {ParseDescriptor(s, wayfinder.data_descriptor_uses_zip64_sizes) :
           s \in ReadExactAt(end, 24)}

\* DataDescriptor::read_at: up to 24 bytes, fewer at the end of the file.
DescriptorAt(end) ==
  LET upTo == IF end + 24 <= Len(bytes) THEN end + 24 ELSE Len(bytes)
  IN  ParseDescriptor(Cut(bytes, end, upTo), wayfinder.data_descriptor_uses_zip64_sizes)

\* ZipArchive::get_entry: where the data starts, if the header is there.
ReaderBody ==
  LET start == Behind(0, wayfinder.local_header_offset)
  IN  {start + SizeOf(LocalParsed) + VariableLength(Get(LocalParsed, s)) :
         s \in {t \in ReadExactAt(start, SizeOf(LocalParsed)) : LocalReadable(t)}}

ReaderOpens ==
  \E body \in ReaderBody : ~Overflows(wayfinder.compressed_size, body)

\* ZipEntry::local_header with a buffer of that length; none is an error.
ReaderLocal(buffer) ==
  LET start == Behind(0, wayfinder.local_header_offset)
      size == SizeOf(LocalParsed)
      h == Get(LocalParsed, Cut(bytes, start, start + size))
  IN  IF buffer < VariableLength(h) THEN {}
      ELSE {LocalView(h, s) : s \in ReadExactAt(start + size, VariableLength(h))}

\* ZipReader::data_descriptor
ReaderDescriptor ==
  IF ~wayfinder.has_data_descriptor THEN NoDescriptor ELSE
  UNION {DescriptorAt(Behind(body, wayfinder.compressed_size)) : body \in ReaderBody}

-----------------------------------------------------------------------------
(* The file, cut off byte by byte at its end.                              *)

RecordsInit ==
  /\ entry \in Described
  /\ bytes = File(entry)
  /\ \E r \in CentralEntry(CentralRecord(entry)) : wayfinder = WayfinderOf(r)
  /\ whole = TRUE

CutOff ==
  /\ bytes # <<>>
  /\ bytes' = SubSeq(bytes, 1, Len(bytes) - 1)
  /\ whole' = FALSE
  /\ UNCHANGED <<entry, wayfinder>>

RecordsSpec == RecordsInit /\ [][CutOff]_recordVars

-----------------------------------------------------------------------------
(* Properties.                                                             *)

\* A field of the caller's own with the id of zip64 counts, being the first.
OwnField64 == Fields64(entry.extra) # {}

\* A descriptor without signature that looks like one with it.
Ambiguous == entry.producer # "rawzip" /\ entry.crc = DescriptorSignature

CentralAsWritten ==
  \E r \in CentralEntry(CentralRecord(entry)) :
    /\ r.header = CentralHeader(entry)
    /\ r.variable.file_name = entry.name
    /\ r.variable.extra_field = CentralExtra(entry)
    /\ r.variable.file_comment = entry.comment
    /\ ~OwnField64 =>
         /\ r.uncompressed_size = entry.uncompressed_size
         /\ r.compressed_size = entry.compressed_size
         /\ r.local_header_offset = entry.local_header_offset
         /\ Forced(entry) => r.disk_number_start = Le(entry.disk, 4)
    /\ ~Ambiguous =>
         ParseDescriptor(Descriptor(entry), r.data_descriptor_uses_zip64_sizes)
           = {[crc |-> entry.crc, compressed_size |-> entry.compressed_size,
               uncompressed_size |-> entry.uncompressed_size]}

\* Is all of the entry held in the file, and where the directory says?
Held == /\ IsSmall(entry.local_header_offset)
        /\ entry.compressed_size = Le(Len(entry.data), 8)
        /\ wayfinder.local_header_offset = entry.local_header_offset
        /\ wayfinder.compressed_size = entry.compressed_size

LocalAsWritten ==
  Held => \E v \in SliceView :
    /\ v.local.header = LocalHeader(entry)
    /\ v.local.file_path = entry.name
    /\ v.local.extra_field = LocalExtra(entry)
    /\ Forced(entry) /\ Fields64(entry.local_extra) = {} =>
         v.local.hints = [uncompressed_size |-> entry.uncompressed_size,
                          compressed_size |-> entry.compressed_size]
    /\ Cut(bytes, v.range[1], v.range[2]) = entry.data

EndAsWritten ==
  LET end == Get(EocdParsed, Eocd(entry))
      end64 == Get(Eocd64Parsed, Eocd64(entry))
      sentinel == \/ end.num_entries = U16 \/ end.total_entries = U16
                  \/ end.central_dir_size = U32 \/ end.central_dir_offset = U32
      numbers == <<entry.entries, entry.directory_size, entry.directory_offset>>
  IN  /\ Readable(EocdParsed, EocdSignature, Eocd(entry))
      /\ Readable(Eocd64Parsed, Eocd64Signature, Eocd64(entry))
      /\ end.comment_len = Le(Len(entry.comment), 2)
      /\ sentinel \/ numbers = <<Widen(end.total_entries), Widen(end.central_dir_size),
                                 Widen(end.central_dir_offset)>>
      /\ numbers = <<end64.num_entries, end64.central_dir_size, end64.central_dir_offset>>
      /\ Get(LocatorParsed, Locator64(entry.directory_offset)).directory_offset
           = entry.directory_offset

(***************************************************************************)
(* Whatever a writer puts into a local header, a central record, a data    *)
(* descriptor and the records at the end, in whatever width the format     *)
(* then asks for, the parsers take out again: at the thresholds of 2^16-1  *)
(* and 2^32-1, for zip64 words of which some are missing, and with or      *)
(* without the signature of a descriptor.  The exceptions are documented:  *)
(* a zip64 field of the caller's own, and a CRC that equals the signature. *)
(***************************************************************************)
WrittenIsParsed ==
  whole => CentralAsWritten /\ LocalAsWritten /\ EndAsWritten

(***************************************************************************)
(* ZipSliceArchive::get_entry and ZipArchive::get_entry: wherever the file *)
(* ends, what the slice says of an entry the reader says too: its range,   *)
(* its local header given a large enough buffer, and its descriptor or     *)
(* that it is cut; and the slice refuses only entries that the reader      *)
(* refuses or whose data is not all there.                                 *)
(***************************************************************************)
ViewsAgree ==
  /\ \A v \in SliceView :
       /\ ReaderOpens /\ ReaderBody = {v.range[1]}
       /\ v.range[2] = v.range[1] + Value(wayfinder.compressed_size)
       /\ ReaderDescriptor = v.descriptor
       /\ \A buffer \in Buffers :
            ReaderLocal(buffer) = IF buffer < VariableLength(v.local.header)
                                  THEN {} ELSE {v.local}
  /\ SliceView = {} /\ ReaderOpens =>
       \A body \in ReaderBody : ~AtMost(wayfinder.compressed_size, Len(bytes) - body)

=============================================================================
