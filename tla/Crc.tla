--------------------------------- MODULE Crc ---------------------------------
(***************************************************************************)
(* The CRC-32 of crc.rs at full width, as the writer and the verifier of a *)
(* reader build it up: in pieces of any length, of which the whole blocks  *)
(* of 32 bytes are folded with sixteen tables and the rest byte by byte.   *)
(*                                                                         *)
(* A word is the set of its bits that are 1, so that xor is the symmetric  *)
(* difference; a byte is a number.                                         *)
(***************************************************************************)
EXTENDS Integers, Sequences, SequencesExt

CONSTANTS
  Pieces,       (* pieces in which data may arrive                         *)
  MaxPieces,    (* bound: pieces                                           *)
  CustomValue   (* Crc32Option::Custom: the caller's word                  *)

Bit == 0..31
Byte == 0..255

ASSUME CrcAssumption ==
  /\ Pieces \subseteq Seq(Byte) /\ MaxPieces \in Nat
  /\ CustomValue \subseteq Bit

VARIABLES
  option,   (* Crc32Option of the data writer                              *)
  crc32,    (* Crc32.state                                                 *)
  arrived,  (* history: the pieces                                         *)
  remainder (* history: what a division of them bit by bit leaves          *)

crcVars == <<option, crc32, arrived, remainder>>

Xor(v, w) == (v \ w) \cup (w \ v)
Not(w) == Bit \ w
ShiftRight(w, n) == {i - n : i \in {j \in w : j >= n}}

\* Value of a bit of a byte.
Weight(i) == <<1, 2, 4, 8, 16, 32, 64, 128>>[i + 1]

\* The number that the bits n .. n + 7 of a word make.
ByteAt(w, n) ==
  LET bit(i) == IF n + i \in w THEN Weight(i) ELSE 0
  IN  bit(0) + bit(1) + bit(2) + bit(3) + bit(4) + bit(5) + bit(6) + bit(7)

Bits(byte) == {i \in 0..7 : (byte \div Weight(i)) % 2 = 1}

\* u32::from_le_bytes
FromLeBytes(b) == UNION {{8 * (k - 1) + i : i \in Bits(b[k])} : k \in 1..4}

-----------------------------------------------------------------------------
(* gen_crc_table                                                           *)

\* 0xEDB88320
Poly == {5, 8, 9, 15, 19, 20, 21, 23, 24, 26, 27, 29, 30, 31}

\* One bit further.
Divide(w) ==
  IF 0 \in w THEN Xor(ShiftRight(w, 1), Poly) ELSE ShiftRight(w, 1)

DivideByte ==
  [w \in SUBSET Bit |->
     LET after[j \in 0..8] == IF j = 0 THEN w ELSE Divide(after[j - 1])
     IN  after[8]]

\* The table itself: the comparison has TLC work it out once.
Table(f) == CHOOSE t \in {f} : t = f

FirstTable == Table([i \in Byte |-> DivideByte[Bits(i)]])

NextTable(t) ==
  Table([i \in Byte |-> Xor(ShiftRight(t[i], 8), FirstTable[ByteAt(t[i], 0)])])

CrcTable ==
  LET table[k \in 0..15] == IF k = 0 THEN FirstTable ELSE NextTable(table[k - 1])
  IN  Table([k \in 0..15 |-> table[k]])

-----------------------------------------------------------------------------
(* Folding.                                                                *)

Crc32Byte(w, byte) ==
  Xor(ShiftRight(w, 8), CrcTable[0][ByteAt(Xor(w, Bits(byte)), 0)])

Xor16(x) ==
  LET upTo[k \in 0..16] == IF k = 0 THEN {} ELSE Xor(upTo[k - 1], x[k])
  IN  upTo[16]

\* Mutant: the bytes of the running word meet the tables in the other order.
Crc32Slice16Turned(b, w) ==
  LET w0 == Xor(FromLeBytes(b), w)
      byte(k) == IF k <= 4 THEN ByteAt(w0, 32 - 8 * k) ELSE b[k]
  IN  Xor16([k \in 1..16 |-> CrcTable[16 - k][byte(k)]])

\* The running word goes into the first four of sixteen bytes.
Crc32Slice16(b, w) ==
  LET w0 == Xor(FromLeBytes(b), w)
      byte(k) == IF k <= 4 THEN ByteAt(w0, 8 * (k - 1)) ELSE b[k]
  IN  Xor16([k \in 1..16 |-> CrcTable[16 - k][byte(k)]])

\* The blocks of chunks_exact(32), each in two halves.
Crc32Blocks(data, blocks, w) ==
  LET half(k) == SubSeq(data, 16 * (k - 1) + 1, 16 * k)
      sliced[k \in 0..(2 * blocks)] ==
        IF k = 0 THEN w ELSE Crc32Slice16(half(k), sliced[k - 1])
  IN  sliced[2 * blocks]

\* The blocks, then the remainder of chunks_exact(32).
Crc32Fold(data, w) ==
  LET blocks == Len(data) \div 32
      folded[n \in (32 * blocks)..Len(data)] ==
        IF n = 32 * blocks THEN Crc32Blocks(data, blocks, w)
        ELSE Crc32Byte(folded[n - 1], data[n])
  IN  folded[Len(data)]

-----------------------------------------------------------------------------
(* Crc32 and ZipDataWriterCrc32, fed with one piece after another.         *)

\* The division by the polynomial, a bit at a time, from a remainder on.
BitByBit(data, w) ==
  LET after[n \in 0..Len(data)] ==
        IF n = 0 THEN w ELSE DivideByte[Xor(after[n - 1], Bits(data[n]))]
  IN  after[Len(data)]

CrcInit ==
  /\ option \in {"calculate", "custom", "skip"}
  /\ crc32 = Bit
  /\ arrived = <<>> /\ remainder = Bit

\* ZipDataWriterCrc32::update, from ZipDataWriter::write; with "calculate",
\* this is also ZipVerifier::read.
Update(piece) ==
  /\ Len(arrived) < MaxPieces
  /\ crc32' = IF option = "calculate" THEN Crc32Fold(piece, crc32) ELSE crc32
  /\ arrived' = Append(arrived, piece)
  /\ remainder' = BitByBit(piece, remainder)
  /\ UNCHANGED option

CrcNext == \E piece \in Pieces : Update(piece)

CrcSpec == CrcInit /\ [][CrcNext]_crcVars

\* ZipDataWriterCrc32::checksum
Checksum ==
  CASE option = "calculate" -> Not(crc32)
    [] option = "custom" -> CustomValue
    [] option = "skip" -> {}

-----------------------------------------------------------------------------
(* Properties.                                                             *)

(***************************************************************************)
(* Crc32::update and crc32: however the data is cut, before, at or behind  *)
(* a block of 32 bytes, the checksum is the remainder that a division bit  *)
(* by bit gives, and that of the whole data at once; so the writer and the *)
(* verifier agree, who cut it differently.  A fixed value stays.           *)
(***************************************************************************)
CrcOfPieces ==
  LET data == FlattenSeq(arrived) IN
    IF option = "calculate"
    THEN Checksum = Not(remainder) /\ Checksum = Not(Crc32Fold(data, Bit))
    ELSE Checksum = IF option = "custom" THEN CustomValue ELSE {}

=============================================================================
