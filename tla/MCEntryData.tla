----------------------------- MODULE MCEntryData -----------------------------
(***************************************************************************)
(* The parts of what is stored about an entry and of what is done with it: *)
(* its time, path, extra fields, checksum, records and mode, the cipher,   *)
(* and the extraction of all entries.  They share no state, so one of them *)
(* moves and the others stand still.                                       *)
(***************************************************************************)
EXTENDS DateTime, EntryPaths, Records, Crc, EntryMode, ZipCrypto, Extraction

VARIABLE part

Still(p, vars) == IF part = p THEN TRUE ELSE UNCHANGED vars

Only(p) ==
  /\ part = p /\ UNCHANGED part
  /\ Still("time", dateVars) /\ Still("path", name) /\ Still("fields", fieldVars)
  /\ Still("crc", crcVars) /\ Still("records", recordVars) /\ Still("mode", modeVars)
  /\ Still("cipher", cipherVars) /\ Still("extract", extractVars)

\* A directory entry of no bytes at the front of the file.
StillWayfinder ==
  [uncompressed_size |-> Zeros(8), compressed_size |-> Zeros(8),
   local_header_offset |-> Zeros(8), crc |-> Zeros(4), has_data_descriptor |-> FALSE,
   data_descriptor_uses_zip64_sizes |-> FALSE]

\* Where the parts stand that do not move.
DateStill == at = Epoch /\ date = NewYear(1970) /\ word = 0
CrcStill == option = "skip" /\ crc32 = Bit /\ arrived = <<>> /\ remainder = Bit
RecordsStill ==
  /\ entry = <<>> /\ wayfinder = StillWayfinder
  /\ bytes = <<>> /\ whole = FALSE
ModeStill == is_dir = FALSE /\ made_by = CREATOR_FAT /\ external = {} /\ asked = {}

EntryDataInit ==
  /\ part \in {"time", "path", "fields", "crc", "records", "mode", "cipher", "extract"}
  /\ IF part = "time" THEN DateInit ELSE DateStill
  /\ PathInit /\ FieldsInit
  /\ IF part = "crc" THEN CrcInit ELSE CrcStill
  /\ IF part = "records" THEN RecordsInit ELSE RecordsStill
  /\ IF part = "mode" THEN ModeInit ELSE ModeStill
  /\ CipherInit /\ (part = "cipher" \/ password = <<>>)
  /\ ExtractInit /\ (part = "extract" \/ expected_entries = 0)

EntryDataNext ==
  \/ Only("time") /\ Tomorrow
  \/ Only("path") /\ \E c \in Symbols : Type(c)
  \/ Only("fields") /\ FieldsNext
  \/ Only("crc") /\ CrcNext
  \/ Only("records") /\ CutOff
  \/ Only("mode") /\ ModeNext
  \/ Only("cipher") /\ CipherNext
  \/ Only("extract") /\ ExtractNext

EntryDataSpec ==
  EntryDataInit /\ [][EntryDataNext]_<<part, dateVars, name, fieldVars, crcVars,
                                       recordVars, modeVars, cipherVars, extractVars>>

-----------------------------------------------------------------------------
(* Time.                                                                   *)

\* Years with and without a leap day, the ends of the 400-year cycles, of the
\* years of MS-DOS, of 31 and 32 bits of seconds, and of the NTFS ticks.
Years ==
  {1, 2, 4, 100, 400, 1600, 1601, 1900, 1969, 1970, 1979, 1980, 1999, 2000,
   2001, 2037, 2038, 2100, 2106, 2107, 2108, 2112, 2400, 60056, 65534}

\* Midnight and just before it, an odd second, and both sides of 2^32.
Clock == {0, 45297, 23295, 23296, 86399}

AllWords == 0..65535

-----------------------------------------------------------------------------
(* Extra fields.                                                           *)

\* Timestamps of every kind, good and broken; fields of no, few and many bytes.
NtfsBody(size) == <<0, 0, 0, 0, 1, 0, size, 0, 3>> \o [i \in 1..23 |-> 0]

SomeFields ==
  [id : {NTFS}, body : {NtfsBody(24), NtfsBody(25)},
   locations : {{"central"}, Headers}] \cup
  [id : {INFO_ZIP_UNIX_ORIGINAL}, body : {<<0, 0, 0, 0, 4, 0, 0, 0>>},
   locations : {{"central"}, {"local"}}] \cup
  [id : {EXTENDED_TIMESTAMP}, body : {<<1, 5, 0, 0>>, <<2, 5, 0, 0, 0>>},
   locations : {Headers}] \cup
  [id : {40}, body : {<<>>, [i \in 1..7 |-> 1], [i \in 1..30 |-> 2]},
   locations : SUBSET Headers]

-----------------------------------------------------------------------------
(* Checksums: pieces around one block of 32 bytes.                         *)

Pattern(length, step) == [i \in 1..length |-> (i * step + 130) % 256]
SomePieces == {Pattern(length, step) : length \in {0, 1, 31, 32, 33}, step \in {37, 91}}

-----------------------------------------------------------------------------
(* Records: entries with every producer, and numbers around 2^16 - 1 and   *)
(* 2^32 - 1.                                                               *)

Word8(number) == Le(number, 8)

AroundU32 ==
  {<<254, 255, 255, 255, 0, 0, 0, 0>>, <<255, 255, 255, 255, 0, 0, 0, 0>>,
   <<0, 0, 0, 0, 1, 0, 0, 0>>, [i \in 1..8 |-> 255]}

Usual ==
  [producer |-> "rawzip", name |-> <<97, 47>>, local_extra |-> <<40, 0, 1, 0, 7>>,
   extra |-> <<40, 0, 0, 0>>, comment |-> <<99>>, flags |-> <<8, 8>>,
   compression_method |-> <<8, 0>>, dos |-> <<1, 2, 3, 4>>,
   unix_permissions |-> <<237, 65>>, crc |-> <<9, 8, 7, 6>>, data |-> <<5, 6, 7>>,
   compressed_size |-> Word8(3), uncompressed_size |-> Word8(258),
   local_header_offset |-> Word8(2), disk |-> 300, entries |-> Word8(65534),
   directory_size |-> Word8(48), directory_offset |-> Word8(70)]

\* Without and with a descriptor; a field of the caller's own with the id of zip64.
Shapes ==
  {[Usual EXCEPT !.producer = p, !.crc = c, !.flags = f, !.extra = x] :
     p \in {"rawzip", "unsigned", "forced"}, c \in {Usual.crc, DescriptorSignature},
     f \in {Usual.flags, Zeros(2)},
     x \in {<<>>, Usual.extra, <<ZIP64, 0, 0, 0>>, <<ZIP64, 0, 8, 0>> \o Word8(9)}}

Numbers ==
  {[Usual EXCEPT !.producer = p, !.compressed_size = c, !.uncompressed_size = u,
                 !.local_header_offset = o] :
     p \in {"rawzip", "forced"}, c \in AroundU32 \cup {Word8(3)},
     u \in AroundU32 \cup {Word8(3)}, o \in AroundU32 \cup {Word8(0)}}

Ends ==
  {[Usual EXCEPT !.entries = n, !.directory_size = s, !.directory_offset = o] :
     n \in {Word8(65535), Word8(65536), Word8(0)},
     s \in AroundU32 \cup {Word8(0)}, o \in AroundU32 \cup {Word8(0)}}

SomeDescribed == Shapes \cup Numbers \cup Ends
SomeBuffers == {0, 6, 7, 8, 90}

-----------------------------------------------------------------------------
(* Modes: every file type and special bit; what MS-DOS and Unix store.     *)

SomeModes ==
  {type \cup special \cup permissions :
     type \in SUBSET S_IFMT, special \in SUBSET Special,
     permissions \in {{}, Basic, Permissions}}

SomeAttributes ==
  {{}, MSDOS_READONLY, MSDOS_DIR, MSDOS_DIR \cup MSDOS_READONLY}
    \cup {{b + 16 : b \in type \cup Basic} : type \in SUBSET S_IFMT}

-----------------------------------------------------------------------------
(* The cipher, and extraction: data of entries that lies side by side,     *)
(* crosswise, inside or on top of each other; directories, bombs, what     *)
(* cannot be opened, decompressed or trusted.                              *)

SomePasswords == {<<>>, <<3>>}

Sound(path, start, end) ==
  [path |-> {path}, dir |-> FALSE, opens |-> TRUE, start |-> start, end |-> end,
   bomb |-> FALSE, supported |-> TRUE, sound |-> TRUE]

SomeListed ==
  {Sound("a", 1, 2), Sound("b", 1, 3), Sound("a", 2, 2), Sound("b", 2, 3),
   Sound("b", 3, 4), Sound("a", 3, 3), Sound("c", 0, 4), Sound("a", 0, 2)}
    \cup {[Sound("a", 1, 2) EXCEPT !.path = {}], [Sound("a", 1, 1) EXCEPT !.dir = TRUE],
          [Sound("b", 0, 2) EXCEPT !.bomb = TRUE], [Sound("b", 0, 1) EXCEPT !.sound = FALSE],
          [Sound("a", 1, 1) EXCEPT !.supported = FALSE], [Sound("a", 1, 1) EXCEPT !.opens = FALSE]}

=============================================================================
