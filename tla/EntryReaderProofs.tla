-------------------------- MODULE EntryReaderProofs --------------------------
(***************************************************************************)
(* Reading an entry, for every file, entry, buffer and pattern of reads.   *)
(* The verifier counts and covers exactly the bytes between where the data *)
(* begins and where the range is read (Tracks); what was rejected can      *)
(* never hold again (Doomed).                                              *)
(***************************************************************************)
EXTENDS EntryReader, SequenceTheorems, TLAPS

\* What the range and the verifier know of an open entry.
Tracks ==
  state = "open" =>
    /\ HeaderAt(entry.local_header_offset) /\ Fits
    /\ end_offset = BodyEnd /\ BodyOffset <= offset /\ offset <= end_offset
    /\ offset <= FileSize \/ offset = BodyOffset
    /\ crc = SubSeq(file.bytes, BodyOffset + 1, offset)
    /\ size = offset - BodyOffset

\* Before.
Untouched ==
  state # "open" => /\ crc = <<>> /\ size = 0 /\ got = <<>> /\ ~rejected
                    /\ answer \in {"none", "io"}

Exhausted == offset >= FileSize \/ offset = end_offset

\* Nothing that may come can make the claims true.
Doomed ==
  rejected => ~Holds(size, crc) /\ (size >= entry.uncompressed_size \/ Exhausted)

Faithful == ~rejected => got = crc

EntryInv == TypeOK /\ Tracks /\ Untouched /\ Doomed /\ Faithful /\ OnlyVerified

LEMMA Constants ==
  ASSUME TypeOK
  PROVE  /\ file.bytes \in Seq(Nat) /\ FileSize \in Nat
         /\ entry.local_header_offset \in Nat /\ entry.compressed_size \in Nat
         /\ entry.uncompressed_size \in Nat /\ entry.crc \in Seq(Nat)
         /\ HeaderSize \in Nat /\ U64MAX \in Nat
         /\ HeaderAt(entry.local_header_offset) => BodyOffset \in Nat /\ BodyEnd \in Nat
<1>1. /\ file.bytes \in Seq(Nat) /\ DOMAIN file.headers \subseteq Nat
      /\ \A p \in DOMAIN file.headers : file.headers[p] \in Nat
      /\ HeaderSize \in Nat /\ U64MAX \in Nat
  BY EntryAssumption DEF TypeOK
<1>2. entry \in Wayfinder(Nat)
  BY EntryAssumption DEF TypeOK
<1>3. /\ entry.local_header_offset \in Nat /\ entry.compressed_size \in Nat
      /\ entry.uncompressed_size \in Nat /\ entry.crc \in Seq(Nat)
  BY <1>2 DEF Wayfinder
<1>4. FileSize \in Nat
  BY <1>1, LenProperties DEF FileSize
<1>5. HeaderAt(entry.local_header_offset) => BodyOffset \in Nat /\ BodyEnd \in Nat
  <2>1. SUFFICES ASSUME HeaderAt(entry.local_header_offset)
                 PROVE  BodyOffset \in Nat /\ BodyEnd \in Nat
    OBVIOUS
  <2>2. file.headers[entry.local_header_offset] \in Nat
    BY <1>1, <2>1 DEF HeaderAt
  <2>3. BodyOffset \in Nat
    BY <1>1, <1>3, <2>2 DEF BodyOffset
  <2>4. QED
    BY <1>3, <2>3 DEF BodyEnd
<1>6. QED
  BY <1>1, <1>3, <1>4, <1>5

(***************************************************************************)
(* Pieces of a sequence.                                                   *)
(***************************************************************************)
LEMMA PiecesJoin ==
  ASSUME NEW s \in Seq(Nat), NEW a \in Nat, NEW b \in Nat, NEW c \in Nat,
         a <= b, b <= c, c <= Len(s)
  PROVE  SubSeq(s, a + 1, b) \o SubSeq(s, b + 1, c) = SubSeq(s, a + 1, c)
<1>1. Len(s) \in Nat
  BY LenProperties
<1>2. /\ a + 1 \in 1..(Len(s) + 1) /\ b \in ((a + 1) - 1)..Len(s)
      /\ c \in b..Len(s)
  BY <1>1
<1>3. QED
  BY <1>2, ConcatAdjacentSubSeq

LEMMA PieceLength ==
  ASSUME NEW s \in Seq(Nat), NEW a \in Nat, NEW b \in Nat, a <= b, b <= Len(s)
  PROVE  SubSeq(s, a + 1, b) \in Seq(Nat) /\ Len(SubSeq(s, a + 1, b)) = b - a
<1>1. Len(s) \in Nat
  BY LenProperties
<1>2. \A i \in (a + 1)..b : i \in 1..Len(s)
  BY <1>1
<1>3. \A i \in (a + 1)..b : s[i] \in Nat
  BY <1>2, ElementOfSeq
<1>4. /\ SubSeq(s, a + 1, b) \in Seq(Nat)
      /\ Len(SubSeq(s, a + 1, b)) = IF a + 1 <= b THEN b - (a + 1) + 1 ELSE 0
  BY <1>3, SubSeqProperties
<1>5. (IF a + 1 <= b THEN b - (a + 1) + 1 ELSE 0) = b - a
  OBVIOUS
<1>6. QED
  BY <1>4, <1>5

LEMMA NoPiece ==
  ASSUME NEW s, NEW a \in Nat
  PROVE  SubSeq(s, a + 1, a) = <<>>
<1>1. a + 1 \in Int /\ a \in Int /\ a < a + 1
  OBVIOUS
<1>2. QED
  BY <1>1, SubSeqEmpty

-----------------------------------------------------------------------------
(* One read.                                                               *)

(***************************************************************************)
(* How far a read may get, and that a read of nothing shows that nothing   *)
(* is left.                                                                *)
(***************************************************************************)
LEMMA DeliveredFacts ==
  ASSUME TypeOK, Tracks, state = "open", NEW n \in Nat \ {0}, NEW k \in Delivered(n)
  PROVE  /\ k \in Nat /\ offset + k <= end_offset
         /\ k > 0 => offset + k <= FileSize
         /\ Exhausted => k = 0
         /\ k = 0 => Exhausted
<1>1. /\ offset \in Nat /\ end_offset \in Nat /\ FileSize \in Nat /\ U64MAX \in Nat
      /\ offset <= end_offset
  BY Constants DEF TypeOK, Tracks
<1>2. /\ ReadSize(n) \in Nat /\ ReadSize(n) <= Remaining
      /\ Remaining = 0 => ReadSize(n) = 0
      /\ ReadSize(n) = 0 => Remaining = 0
      /\ Remaining = end_offset - offset
  BY <1>1 DEF ReadSize, Remaining, Smaller
<1>3. /\ AtHand(n) \in Nat /\ AtHand(n) <= ReadSize(n)
      /\ AtHand(n) > 0 => offset + AtHand(n) <= FileSize /\ offset < FileSize
      /\ AtHand(n) = 0 => offset >= FileSize \/ ReadSize(n) = 0
  BY <1>1, <1>2 DEF AtHand, Smaller
<1>4. k \in Nat /\ k <= AtHand(n) /\ (k = 0 => AtHand(n) = 0)
  BY <1>3 DEF Delivered
<1>5. QED
  BY <1>1, <1>2, <1>3, <1>4 DEF Exhausted

LEMMA PieceFacts ==
  ASSUME TypeOK, Tracks, state = "open", NEW n \in Nat \ {0}, NEW k \in Delivered(n)
  PROVE  /\ crc \o Piece(k) = SubSeq(file.bytes, BodyOffset + 1, offset + k)
         /\ crc \o Piece(k) \in Seq(Nat)
         /\ Len(crc) = size
         /\ Len(crc \o Piece(k)) = size + k
         /\ k = 0 => crc \o Piece(k) = crc
<1>1. /\ offset \in Nat /\ FileSize \in Nat /\ BodyOffset \in Nat
      /\ BodyOffset <= offset /\ file.bytes \in Seq(Nat) /\ Len(file.bytes) = FileSize
      /\ crc \in Seq(Nat) /\ crc = SubSeq(file.bytes, BodyOffset + 1, offset)
      /\ offset <= FileSize \/ offset = BodyOffset
      /\ size = offset - BodyOffset
  BY SMTT(60), Constants DEF TypeOK, Tracks, FileSize
<1>2. k \in Nat /\ (k > 0 => offset + k <= FileSize)
  BY DeliveredFacts
<1>3. Len(crc) = size
  <2>1. CASE offset = BodyOffset
    <3>1. crc = <<>>
      BY <1>1, <2>1, NoPiece
    <3>2. size = 0
      BY <1>1, <2>1
    <3>3. QED
      BY <3>1, <3>2
  <2>2. CASE offset <= FileSize
    <3>1. Len(SubSeq(file.bytes, BodyOffset + 1, offset)) = offset - BodyOffset
      BY <1>1, <2>2, PieceLength
    <3>2. QED
      BY <1>1, <3>1
  <2>3. QED
    BY <1>1, <2>1, <2>2
<1>4. CASE k = 0
  <2>1. Piece(k) = <<>>
    BY <1>1, <1>4, NoPiece DEF Piece
  <2>2. crc \o <<>> = crc
    BY <1>1, ConcatEmptySeq
  <2>3. offset + k = offset /\ size + k = size
    BY <1>1, <1>4
  <2>4. QED
    BY <1>1, <1>3, <2>1, <2>2, <2>3
<1>5. CASE k > 0
  <2> DEFINE m == offset + k
  <2>1. /\ m \in Nat /\ offset <= m /\ m <= Len(file.bytes) /\ BodyOffset <= m
        /\ m - BodyOffset = size + k /\ k # 0
    BY <1>1, <1>2, <1>5
  <2>2. crc \o Piece(k) = SubSeq(file.bytes, BodyOffset + 1, offset) \o
                          SubSeq(file.bytes, offset + 1, m)
    BY <1>1 DEF Piece
  <2> HIDE DEF m
  <2>3. crc \o Piece(k) = SubSeq(file.bytes, BodyOffset + 1, m)
    <3>1. /\ file.bytes \in Seq(Nat) /\ BodyOffset \in Nat /\ offset \in Nat
          /\ m \in Nat /\ BodyOffset <= offset /\ offset <= m /\ m <= Len(file.bytes)
      BY <1>1, <2>1
    <3>2. SubSeq(file.bytes, BodyOffset + 1, offset) \o SubSeq(file.bytes, offset + 1, m)
            = SubSeq(file.bytes, BodyOffset + 1, m)
      BY <3>1, PiecesJoin, ZenonT(60)
    <3>3. QED
      BY <2>2, <3>2, Zenon
  <2>4. /\ SubSeq(file.bytes, BodyOffset + 1, m) \in Seq(Nat)
        /\ Len(SubSeq(file.bytes, BodyOffset + 1, m)) = m - BodyOffset
    BY <1>1, <2>1, PieceLength
  <2>5. QED
    BY <1>3, <2>1, <2>3, <2>4 DEF m
<1>6. k = 0 \/ k > 0
  BY <1>2
<1>7. QED
  BY <1>4, <1>5, <1>6

\* The parts of the state that no call changes.
LEMMA GivenStays ==
  ASSUME UNCHANGED given
  PROVE  /\ FileSize' = FileSize /\ BodyOffset' = BodyOffset /\ BodyEnd' = BodyEnd
         /\ file' = file /\ entry' = entry /\ archive' = archive
         /\ HeaderAt(entry.local_header_offset)' <=> HeaderAt(entry.local_header_offset)
         /\ Fits' <=> Fits
  BY DEF given, FileSize, BodyOffset, BodyEnd, HeaderAt, Fits

(***************************************************************************)
(* After a rejection every read is rejected.                               *)
(***************************************************************************)
LEMMA DoomedStays ==
  ASSUME EntryInv, state = "open", rejected, NEW n \in Nat \ {0},
         NEW k \in Delivered(n)
  PROVE  /\ Due(k) /\ ~Holds(size + k, crc \o Piece(k))
         /\ size + k >= entry.uncompressed_size \/ k = 0
<1>1. /\ size \in Nat /\ entry.uncompressed_size \in Nat
      /\ ~Holds(size, crc) /\ (size >= entry.uncompressed_size \/ Exhausted)
  BY Constants DEF EntryInv, TypeOK, Doomed
<1>2. k \in Nat /\ (Exhausted => k = 0)
  BY DeliveredFacts DEF EntryInv
<1>3. k = 0 => crc \o Piece(k) = crc
  BY PieceFacts DEF EntryInv
<1>4. CASE k = 0
  BY <1>1, <1>3, <1>4 DEF Due, Holds
<1>5. CASE k # 0
  <2>1. size + k > entry.uncompressed_size
    BY <1>1, <1>2, <1>5
  <2>2. QED
    BY <1>1, <1>2, <2>1 DEF Due, Holds
<1>6. QED
  BY <1>4, <1>5

LEMMA ReadKeeps ==
  ASSUME EntryInv, NEW n \in Nat \ {0}, Read(n)
  PROVE  EntryInv'
<1>1. PICK k \in Delivered(n) : Take(k)
  BY DEF Read
<1>2. state = "open" /\ state' = "open" /\ UNCHANGED <<given, end_offset>>
  BY DEF Read
<1>3. /\ FileSize' = FileSize /\ BodyOffset' = BodyOffset /\ BodyEnd' = BodyEnd
      /\ file' = file /\ entry' = entry /\ archive' = archive
      /\ HeaderAt(entry.local_header_offset)' <=> HeaderAt(entry.local_header_offset)
      /\ Fits' <=> Fits
  BY <1>2, GivenStays
<1>4. /\ k \in Nat /\ offset + k <= end_offset /\ (k > 0 => offset + k <= FileSize)
      /\ (Exhausted => k = 0) /\ (k = 0 => Exhausted)
  BY <1>2, DeliveredFacts DEF EntryInv
<1>5. /\ crc' = SubSeq(file.bytes, BodyOffset + 1, offset + k)
      /\ crc' \in Seq(Nat) /\ Len(crc') = size + k
      /\ k = 0 => crc' = crc
      /\ Len(crc) = size
  BY <1>1, <1>2, PieceFacts DEF EntryInv, Take
<1>6. offset' = offset + k /\ size' = size + k /\ crc' = crc \o Piece(k)
  BY <1>1 DEF Take
<1>7. /\ offset \in Nat /\ end_offset \in Nat /\ end_offset <= U64MAX /\ U64MAX \in Nat
      /\ size \in Nat /\ FileSize \in Nat /\ entry.uncompressed_size \in Nat
      /\ BodyOffset \in Nat /\ BodyOffset <= offset /\ size = offset - BodyOffset
      /\ offset <= FileSize \/ offset = BodyOffset
      /\ end_offset = BodyEnd /\ HeaderAt(entry.local_header_offset) /\ Fits
  BY <1>2, Constants DEF EntryInv, TypeOK, Tracks
<1>8. \/ /\ Due(k) /\ ~Holds(size', crc')
         /\ answer' = "rejected" /\ rejected' = TRUE /\ got' = got
      \/ /\ ~(Due(k) /\ ~Holds(size', crc'))
         /\ answer' = (IF k = 0 THEN "end" ELSE "data")
         /\ got' = got \o Piece(k) /\ rejected' = rejected
  BY <1>1 DEF Take
<1>9. rejected => Due(k) /\ ~Holds(size', crc')
  BY <1>2, <1>6, DoomedStays
<1>10. ~(Due(k) /\ ~Holds(size', crc')) => ~rejected /\ got = crc /\ got' = crc'
  BY <1>6, <1>8, <1>9 DEF EntryInv, Faithful
<1>11. TypeOK'
  <2>1. got' \in Seq(Nat)
    BY <1>5, <1>8, <1>10 DEF EntryInv, TypeOK
  <2>2. offset' \in 0..U64MAX /\ size' \in Nat
    BY <1>4, <1>6, <1>7
  <2>3. answer' \in {"data", "end", "rejected"} /\ rejected' \in BOOLEAN
    BY <1>8 DEF EntryInv, TypeOK
  <2>4. QED
    BY <1>2, <1>3, <1>5, <2>1, <2>2, <2>3 DEF EntryInv, TypeOK
<1>12. Tracks'
  <2>1. BodyOffset <= offset' /\ offset' <= end_offset' /\ size' = offset' - BodyOffset
        /\ (offset' <= FileSize \/ offset' = BodyOffset)
    BY <1>2, <1>4, <1>6, <1>7
  <2>2. crc' = SubSeq(file'.bytes, BodyOffset' + 1, offset')
    BY <1>3, <1>5, <1>6
  <2>3. QED
    BY <1>2, <1>3, <1>7, <2>1, <2>2 DEF Tracks
<1>13. Untouched'
  BY <1>2 DEF Untouched
<1>14. Doomed'
  <2>1. rejected' => Due(k) /\ ~Holds(size', crc')
    BY <1>8, <1>9
  <2>2. Due(k) => k = 0 \/ size' >= entry.uncompressed_size
    BY <1>6 DEF Due
  <2>3. k = 0 => Exhausted'
    <3>1. k = 0 => offset' = offset
      BY <1>6, <1>7
    <3>2. QED
      BY <1>2, <1>3, <1>4, <3>1 DEF Exhausted
  <2>4. QED
    BY <1>3, <2>1, <2>2, <2>3 DEF Doomed, Holds
<1>15. Faithful'
  BY <1>8, <1>10 DEF Faithful
<1>16. OnlyVerified'
  <2>1. CASE Due(k) /\ ~Holds(size', crc')
    <3>1. answer' = "rejected" /\ got' = got
      BY <1>8, <2>1
    <3>2. QED
      BY <1>3, <3>1 DEF EntryInv, OnlyVerified
  <2>2. CASE ~(Due(k) /\ ~Holds(size', crc'))
    <3>1. got' = crc' /\ Len(got') = size' /\ answer' = (IF k = 0 THEN "end" ELSE "data")
      BY <1>5, <1>6, <1>8, <1>10, <2>2
    <3>2. k = 0 \/ size' >= entry.uncompressed_size =>
            got' = entry.crc /\ size' = entry.uncompressed_size
      BY <1>6, <2>2, <3>1 DEF Due, Holds
    <3>3. answer' = "end" => k = 0
      BY <3>1
    <3>4. QED
      BY <1>3, <3>1, <3>2, <3>3 DEF OnlyVerified
  <2>3. QED
    BY <2>1, <2>2
<1>17. QED
  BY <1>11, <1>12, <1>13, <1>14, <1>15, <1>16 DEF EntryInv

LEMMA GetEntryKeeps ==
  ASSUME EntryInv, GetEntry
  PROVE  EntryInv'
<1>1. /\ state = "closed" /\ UNCHANGED given
      /\ UNCHANGED <<crc, size, answer, got, rejected>>
  BY DEF GetEntry
<1>2. /\ FileSize' = FileSize /\ BodyOffset' = BodyOffset /\ BodyEnd' = BodyEnd
      /\ file' = file /\ entry' = entry /\ archive' = archive
      /\ HeaderAt(entry.local_header_offset)' <=> HeaderAt(entry.local_header_offset)
      /\ Fits' <=> Fits
  BY <1>1, GivenStays
<1>3. /\ crc = <<>> /\ size = 0 /\ got = <<>> /\ ~rejected /\ answer \in {"none", "io"}
  BY <1>1 DEF EntryInv, Untouched
<1>4. CASE state' = "open"
  <2>1. /\ HeaderAt(entry.local_header_offset) /\ Fits
        /\ offset' = BodyOffset /\ end_offset' = BodyEnd
    BY <1>4 DEF GetEntry
  <2>2. /\ BodyOffset \in Nat /\ BodyEnd \in Nat /\ BodyOffset <= BodyEnd
        /\ BodyEnd <= U64MAX /\ U64MAX \in Nat
    BY <2>1, Constants DEF EntryInv, BodyEnd, Fits
  <2>3. TypeOK'
    BY <1>1, <1>2, <1>4, <2>1, <2>2 DEF EntryInv, TypeOK
  <2>4. SubSeq(file.bytes, BodyOffset + 1, BodyOffset) = <<>>
    BY <2>2, NoPiece
  <2>5. crc' = SubSeq(file'.bytes, BodyOffset' + 1, offset') /\ size' = offset' - BodyOffset'
    BY <1>1, <1>2, <1>3, <2>1, <2>2, <2>4
  <2>6. Tracks'
    BY <1>2, <2>1, <2>2, <2>5 DEF Tracks
  <2>7. Untouched' /\ Doomed' /\ Faithful'
    BY <1>1, <1>3, <1>4 DEF Untouched, Doomed, Faithful
  <2>8. OnlyVerified'
    BY <1>1, <1>2 DEF EntryInv, OnlyVerified
  <2>9. QED
    BY <2>3, <2>6, <2>7, <2>8 DEF EntryInv
<1>5. CASE state' # "open"
  <2>1. state' = "refused" /\ UNCHANGED <<offset, end_offset>>
    BY <1>5 DEF GetEntry
  <2>2. TypeOK'
    BY <1>1, <1>2, <2>1 DEF EntryInv, TypeOK
  <2>3. Tracks' /\ Untouched' /\ Doomed' /\ Faithful'
    BY <1>1, <1>3, <2>1 DEF Tracks, Untouched, Doomed, Faithful
  <2>4. OnlyVerified'
    BY <1>1, <1>2 DEF EntryInv, OnlyVerified
  <2>5. QED
    BY <2>2, <2>3, <2>4 DEF EntryInv
<1>6. QED
  BY <1>4, <1>5

\* Neither an empty buffer nor a failed read changes anything but the answer.
LEMMA NothingReadKeeps ==
  ASSUME EntryInv,
         \/ ReadEmpty \/ ReadFails \/ UNCHANGED vars
  PROVE  EntryInv'
<1>1. /\ UNCHANGED <<state, offset, end_offset, crc, size, got, rejected>>
      /\ UNCHANGED given
      /\ \/ answer' = "empty" /\ state = "open"
         \/ answer' = "io" \/ answer' = answer
  BY DEF ReadEmpty, ReadFails, vars
<1>2. /\ FileSize' = FileSize /\ BodyOffset' = BodyOffset /\ BodyEnd' = BodyEnd
      /\ file' = file /\ entry' = entry /\ archive' = archive
      /\ HeaderAt(entry.local_header_offset)' <=> HeaderAt(entry.local_header_offset)
      /\ Fits' <=> Fits
  BY <1>1, GivenStays
<1>3. TypeOK'
  BY <1>1, <1>2 DEF EntryInv, TypeOK
<1>4. Tracks'
  BY <1>1, <1>2 DEF EntryInv, Tracks
<1>5. Untouched'
  BY <1>1 DEF EntryInv, Untouched
<1>6. Doomed'
  BY <1>1, <1>2 DEF EntryInv, Doomed, Exhausted, Holds
<1>7. Faithful' /\ OnlyVerified'
  BY <1>1, <1>2 DEF EntryInv, Faithful, OnlyVerified
<1>8. QED
  BY <1>3, <1>4, <1>5, <1>6, <1>7 DEF EntryInv

LEMMA EntryInvInit == Init => EntryInv
<1>1. SUFFICES ASSUME Init PROVE EntryInv
  OBVIOUS
<1>2. /\ file \in Files /\ entry \in Entries /\ archive \in {"slice", "reader"}
      /\ state = "closed" /\ offset = 0 /\ end_offset = 0 /\ crc = <<>> /\ size = 0
      /\ answer = "none" /\ got = <<>> /\ rejected = FALSE
  BY <1>1 DEF Init
<1>3. 0 \in 0..U64MAX /\ <<>> \in Seq(Nat) /\ 0 \in Nat
  BY EntryAssumption
<1>4. TypeOK
  BY <1>2, <1>3 DEF TypeOK
<1>5. QED
  BY <1>2, <1>4 DEF EntryInv, Tracks, Untouched, Doomed, Faithful, OnlyVerified

LEMMA EntryInvNext == EntryInv /\ [Next]_vars => EntryInv'
<1>1. SUFFICES ASSUME EntryInv, [Next]_vars PROVE EntryInv'
  OBVIOUS
<1>2. ASSUME NEW n \in 1..MaxRead, Read(n) PROVE EntryInv'
  <2>1. n \in Nat \ {0}
    BY EntryAssumption
  <2>2. QED
    BY <1>1, <1>2, <2>1, ReadKeeps
<1>3. CASE GetEntry
  BY <1>1, <1>3, GetEntryKeeps
<1>4. CASE ReadEmpty \/ ReadFails \/ UNCHANGED vars
  BY <1>1, <1>4, NothingReadKeeps
<1>5. QED
  BY <1>1, <1>2, <1>3, <1>4 DEF Next, ReadOn

LEMMA EntryInvHolds == Spec => []EntryInv
  BY EntryInvInit, EntryInvNext, PTL DEF Spec

(***************************************************************************)
(* ZipVerifier: whatever the file, the claims and the pieces, the caller   *)
(* is told the end, or has all the data, only if it is the claimed data.   *)
(***************************************************************************)
THEOREM DataVerified == Spec => []OnlyVerified
<1>1. EntryInv => OnlyVerified
  BY DEF EntryInv
<1>2. QED
  BY <1>1, EntryInvHolds, PTL

(***************************************************************************)
(* RangeReader: the range is not left, offsets stay within 64 bits, and    *)
(* what was read are the bytes of the entry, in order.                     *)
(***************************************************************************)
THEOREM RangeKept == Spec => []RangeSound
<1>1. EntryInv => RangeSound
  BY DEF EntryInv, Tracks, Faithful, RangeSound, OwnBytes
<1>2. QED
  BY <1>1, EntryInvHolds, PTL

(***************************************************************************)
(* ZipVerifier: a rejection is final.                                      *)
(***************************************************************************)
THEOREM RejectedForGood == Spec => RejectionStands
<1>1. EntryInv /\ [Next]_vars
        => [rejected => got' = got /\ answer' \notin {"data", "end"}]_vars
  <2>1. SUFFICES ASSUME EntryInv, Next, rejected
                 PROVE  got' = got /\ answer' \notin {"data", "end"}
    OBVIOUS
  <2>2. state = "open"
    BY <2>1 DEF EntryInv, Untouched
  <2>3. ASSUME NEW n \in 1..MaxRead, Read(n)
        PROVE  got' = got /\ answer' \notin {"data", "end"}
    <3>1. n \in Nat \ {0}
      BY EntryAssumption
    <3>2. PICK k \in Delivered(n) : Take(k)
      BY <2>3 DEF Read
    <3>3. Due(k) /\ ~Holds(size + k, crc \o Piece(k))
      BY <2>1, <2>2, <3>1, DoomedStays
    <3>4. size' = size + k /\ crc' = crc \o Piece(k)
      BY <3>2 DEF Take
    <3>5. answer' = "rejected" /\ got' = got
      BY <3>2, <3>3, <3>4 DEF Take
    <3>6. QED
      BY <3>5
  <2>4. CASE ReadEmpty \/ ReadFails
    BY <2>4 DEF ReadEmpty, ReadFails
  <2>5. QED
    BY <2>1, <2>2, <2>3, <2>4 DEF Next, ReadOn, GetEntry
<1>2. QED
  BY <1>1, EntryInvHolds, PTL DEF Spec, RejectionStands

-----------------------------------------------------------------------------
(* What is right is read.                                                  *)

LEMMA SoundNext == EntryInv /\ SoundIsRead /\ [Next]_vars => SoundIsRead'
<1>1. SUFFICES ASSUME EntryInv, SoundIsRead, [Next]_vars, Sound'
               PROVE  state' # "refused" /\ ~rejected'
  BY DEF SoundIsRead
<1>2. UNCHANGED given
  BY <1>1 DEF Next, ReadOn, GetEntry, Read, ReadEmpty, ReadFails, vars
<1>3. /\ FileSize' = FileSize /\ BodyOffset' = BodyOffset /\ BodyEnd' = BodyEnd
      /\ file' = file /\ entry' = entry /\ archive' = archive
      /\ HeaderAt(entry.local_header_offset)' <=> HeaderAt(entry.local_header_offset)
  BY <1>2, GivenStays
<1>4. /\ HeaderAt(entry.local_header_offset) /\ BodyEnd <= FileSize /\ BodyEnd <= U64MAX
      /\ entry.uncompressed_size = entry.compressed_size
      /\ entry.crc = SubSeq(file.bytes, BodyOffset + 1, BodyEnd)
  BY <1>1, <1>3 DEF Sound
<1>5. Sound /\ state # "refused" /\ ~rejected
  BY <1>1, <1>4 DEF Sound, SoundIsRead
<1>6. CASE GetEntry
  BY <1>4, <1>5, <1>6 DEF GetEntry, Fits
<1>7. ASSUME NEW n \in 1..MaxRead, Read(n)
      PROVE  state' # "refused" /\ ~rejected'
  <2>1. n \in Nat \ {0} /\ state = "open" /\ state' = "open"
    BY <1>7, EntryAssumption DEF Read
  <2>2. PICK k \in Delivered(n) : Take(k)
    BY <1>7 DEF Read
  <2>3. /\ k \in Nat /\ offset + k <= end_offset /\ (k = 0 => Exhausted)
    BY <1>1, <2>1, DeliveredFacts DEF EntryInv
  <2>4. /\ crc \o Piece(k) = SubSeq(file.bytes, BodyOffset + 1, offset + k)
    BY <1>1, <2>1, PieceFacts DEF EntryInv
  <2>5. /\ offset \in Nat /\ FileSize \in Nat /\ BodyOffset \in Nat /\ BodyEnd \in Nat
        /\ end_offset = BodyEnd /\ size = offset - BodyOffset /\ offset <= end_offset
        /\ BodyEnd = BodyOffset + entry.compressed_size /\ entry.compressed_size \in Nat
    BY SMTT(60), <1>1, <1>4, <2>1, Constants DEF EntryInv, TypeOK, Tracks, BodyEnd
  <2>6. Due(k) => offset + k = BodyEnd /\ size + k = entry.uncompressed_size
    <3>1. entry.uncompressed_size = entry.compressed_size /\ BodyEnd <= FileSize
      BY <1>4
    <3>2. k = 0 => offset + k = BodyEnd
      BY <2>3, <2>5, <3>1 DEF Exhausted
    <3>3. size + k >= entry.uncompressed_size => offset + k = BodyEnd
      BY <2>3, <2>5, <3>1
    <3>4. offset + k = BodyEnd => size + k = entry.uncompressed_size
      BY <2>3, <2>5, <3>1
    <3>5. QED
      BY <3>2, <3>3, <3>4 DEF Due
  <2>7. Due(k) => Holds(size + k, crc \o Piece(k))
    BY <1>4, <2>4, <2>6 DEF Holds
  <2>8. size' = size + k /\ crc' = crc \o Piece(k)
    BY <2>2 DEF Take
  <2>9. rejected' = rejected
    BY <2>2, <2>7, <2>8 DEF Take
  <2>10. QED
    BY <1>5, <2>1, <2>9
<1>8. CASE ReadEmpty \/ ReadFails \/ UNCHANGED vars
  BY <1>5, <1>8 DEF ReadEmpty, ReadFails, vars
<1>9. QED
  BY <1>1, <1>6, <1>7, <1>8 DEF Next, ReadOn

(***************************************************************************)
(* get_entry and ZipVerifier: whatever is described rightly is neither     *)
(* refused nor rejected, however it is read.                               *)
(***************************************************************************)
THEOREM SoundEntriesRead == Spec => []SoundIsRead
<1>1. Init => SoundIsRead
  BY DEF Init, SoundIsRead
<1>2. QED
  BY <1>1, SoundNext, EntryInvHolds, PTL DEF Spec

=============================================================================
