------------------------ MODULE ReaderLocationProofs ------------------------
(***************************************************************************)
(* The windowed search finds what a search of the whole range would, and   *)
(* locate_in_reader then answers what the slice makes of the signature     *)
(* found: for every file, buffer, search space and window, and for a       *)
(* caller who searches on after an error.                                  *)
(***************************************************************************)
EXTENDS ReaderLocation, TLAPS

-----------------------------------------------------------------------------
(* The search.                                                             *)

(***************************************************************************)
(* A signature in range is still to be looked at as long as the search     *)
(* goes on: the pieces already seen held none, nor did their borders.  The *)
(* windows are long enough for a signature.                                *)
(***************************************************************************)
Ahead ==
  state = "searching" =>
    /\ Sig <= len /\ Sig <= window /\ window <= len
    /\ chunk_end <= end_offset
    /\ max_back <= chunk_end
    /\ \A p \in signatures : InRange(p) => p + Sig <= chunk_end

Range == max_back <= end_offset

SearchInv == TypeOK /\ Range /\ Ahead /\ FindsLast /\ TupleFits

(***************************************************************************)
(* What a piece is: some bytes that end at chunk_end and begin no earlier  *)
(* than the search space.                                                  *)
(***************************************************************************)
LEMMA Piece ==
  ASSUME TypeOK, chunk_end > max_back
  PROVE  /\ ReadSize \in Nat /\ ReadSize <= window
         /\ ChunkStart \in Nat
         /\ max_back <= ChunkStart /\ ChunkStart <= chunk_end
BY DEF TypeOK, ReadSize, ChunkStart, Least

LEMMA SearchBegins == Init => SearchInv
<1> SUFFICES ASSUME Init PROVE SearchInv
  OBVIOUS
<1>1. PICK b \in Buffers, space \in SearchSpaces :
        /\ max_back = SaturatingSub(end_offset, space)
        /\ len = Least(b, MaxWindow)
        /\ state = IF b < Sig THEN "refused" ELSE "searching"
  BY DEF Init
<1>2. b \in Nat /\ space \in Nat /\ end_offset \in Nat
  BY SearchAssumption DEF Init
<1>3. max_back \in Nat /\ max_back <= end_offset
  BY <1>1, <1>2 DEF SaturatingSub
<1>4. len \in Nat /\ window \in Nat
  BY <1>1, <1>2, SearchAssumption DEF Init, Least
<1>5. signatures \subseteq Nat
  BY SearchAssumption DEF Init
<1>6. TypeOK
  BY <1>1, <1>2, <1>3, <1>4, <1>5 DEF Init, TypeOK, Nothing
<1>7. state = "searching" => Sig <= len /\ Sig <= window /\ window <= len
  BY <1>1, <1>2, <1>4, SearchAssumption DEF Init, Least
<1>9. Ahead /\ FindsLast /\ TupleFits
  BY <1>1, <1>2, <1>3, <1>7 DEF Init, Ahead, FindsLast, TupleFits, InRange
<1>8. QED
  BY <1>3, <1>6, <1>9 DEF SearchInv, Range

LEMMA SearchPreserved == SearchInv /\ [Next]_vars => SearchInv'
<1> SUFFICES ASSUME SearchInv, [Next]_vars
             PROVE  SearchInv'
  OBVIOUS
<1> USE DEF SearchInv, Range
<1>0. Sig \in Nat \ {0}
  BY SearchAssumption
<1>1. ASSUME NEW p \in signatures, Hit(p)
      PROVE  SearchInv'
  <2>1. /\ p \in Nat /\ ChunkStart <= p /\ p + Sig <= chunk_end
        /\ max_back <= ChunkStart /\ ChunkStart \in Nat /\ ReadSize \in Nat
    BY <1>0, <1>1, Piece DEF Hit, Looking, Hits, TypeOK
  <2>2. TypeOK'
    BY <1>1, <2>1 DEF Hit, TypeOK, given
  <2>3. \A q \in signatures : InRange(q) => q <= p
    <3>1. SUFFICES ASSUME NEW q \in signatures, InRange(q), q > p
                   PROVE  FALSE
      BY <2>1 DEF TypeOK
    <3>2. q \in Hits
      BY <1>1, <2>1, <3>1 DEF Hit, Looking, Ahead, Hits, TypeOK
    <3>3. QED
      BY <1>1, <2>1, <3>1, <3>2 DEF Hit, TypeOK
  <2>4. InRange(p)
    BY <1>0, <1>1, <2>1 DEF Hit, Looking, Ahead, InRange, TypeOK
  <2>5. TupleFits'
    <3>1. ReadSize <= len /\ chunk_end = ChunkStart + ReadSize
      BY <1>1, <2>1, Piece DEF Hit, Looking, Ahead, ChunkStart, TypeOK
    <3>2. p - ChunkStart \in Nat /\ (p - ChunkStart) + Sig <= ReadSize
      BY <1>0, <2>1, <3>1 DEF TypeOK
    <3>3. found' = [at |-> p, index |-> p - ChunkStart, valid |-> ReadSize]
      BY <1>1 DEF Hit
    <3>4. UNCHANGED given /\ chunk_end <= end_offset
      BY <1>1 DEF Hit, Looking, Ahead
    <3>5. QED
      BY <1>0, <2>1, <3>1, <3>2, <3>3, <3>4 DEF TupleFits, given, TypeOK
  <2>6. QED
    BY <1>1, <2>2, <2>3, <2>4, <2>5 DEF Hit, given, Ahead, FindsLast, TupleFits, InRange
<1>2. CASE Miss
  <2>1. /\ ReadSize \in Nat /\ ChunkStart \in Nat
        /\ max_back <= ChunkStart /\ ChunkStart <= chunk_end
    BY <1>2, Piece DEF Miss, Looking
  <2>2. \A p \in signatures : InRange(p) => p < ChunkStart
    BY <1>2, <2>1 DEF Miss, Looking, Hits, Ahead, InRange, TypeOK
  <2>3. CASE ChunkStart = max_back
    <3>1. \A p \in signatures : ~InRange(p)
      BY <2>1, <2>2, <2>3 DEF InRange, TypeOK
    <3>2. QED
      BY <1>2, <2>3, <3>1
         DEF Miss, given, TypeOK, Ahead, FindsLast, TupleFits, InRange
  <2>4. CASE ChunkStart # max_back
    <3>1. NextEnd \in Nat /\ max_back <= NextEnd
      BY <1>0, <2>1 DEF NextEnd, TypeOK
    <3>2. TypeOK'
      BY <1>2, <2>4, <3>1 DEF Miss, given, TypeOK
    <3>3. \A p \in signatures : InRange(p) => p + Sig <= NextEnd
      BY <1>0, <2>1, <2>2 DEF NextEnd, TypeOK
    <3>4. NextEnd <= end_offset
      <4>1. ReadSize = window
        BY <1>2, <2>4 DEF Miss, Looking, ReadSize, ChunkStart, Least, TypeOK
      <4>2. Sig <= window /\ chunk_end <= end_offset
        BY <1>2 DEF Miss, Looking, Ahead
      <4>3. QED
        BY <1>0, <4>1, <4>2 DEF NextEnd, ChunkStart, TypeOK
    <3>5. /\ state' = "searching" /\ chunk_end' = NextEnd /\ window' = len
          /\ UNCHANGED given
      BY <1>2, <2>4 DEF Miss, Looking
    <3>6. Ahead'
      <4>1. Sig <= len /\ len <= len
        BY <1>2 DEF Miss, Looking, Ahead, TypeOK
      <4>2. \A p \in signatures : InRange(p)' => p + Sig <= NextEnd
        BY <3>3, <3>5 DEF InRange, given
      <4>3. QED
        BY <3>1, <3>4, <3>5, <4>1, <4>2 DEF Ahead, given
    <3>7. FindsLast' /\ TupleFits' /\ Range'
      BY <3>5 DEF FindsLast, TupleFits, given
    <3>8. QED
      BY <3>2, <3>6, <3>7
  <2>5. QED
    BY <2>3, <2>4
<1>3. CASE NothingToSearch
  BY <1>0, <1>3
     DEF NothingToSearch, given, TypeOK, Ahead, FindsLast, TupleFits, InRange
<1>4. CASE ReadFails
  BY <1>4 DEF ReadFails, Looking, given, TypeOK, Ahead, FindsLast, TupleFits, InRange
<1>5. CASE UNCHANGED vars
  BY <1>5 DEF vars, given, TypeOK, Ahead, FindsLast, TupleFits, InRange
<1>6. QED
  BY <1>1, <1>2, <1>3, <1>4, <1>5 DEF Next, Search

(***************************************************************************)
(* A piece without a signature is followed by one that ends before it.     *)
(***************************************************************************)
LEMMA SearchShrinks ==
  SearchInv /\ [Next]_vars => [state' = "searching" => chunk_end' < chunk_end]_vars
<1> SUFFICES ASSUME SearchInv, Next, state' = "searching"
             PROVE  chunk_end' < chunk_end
  OBVIOUS
<1>1. Miss /\ ChunkStart # max_back
  BY DEF Next, Search, Hit, Miss, NothingToSearch, ReadFails
<1>2. ReadSize = window
  BY <1>1 DEF SearchInv, Miss, Looking, ReadSize, ChunkStart, Least, TypeOK
<1>3. Sig <= window /\ chunk_end' = NextEnd
  BY <1>1 DEF SearchInv, Miss, Looking, Ahead
<1>4. QED
  BY <1>2, <1>3, SearchAssumption DEF SearchInv, NextEnd, ChunkStart, TypeOK

(***************************************************************************)
(* The search returns the last signature in range, or none if there is     *)
(* none, and the buffer it leaves holds it.                                *)
(***************************************************************************)
THEOREM SearchFindsLast == Spec => [](FindsLast /\ TupleFits)
<1>1. SearchInv => FindsLast /\ TupleFits
  BY DEF SearchInv
<1>2. QED
  BY <1>1, SearchBegins, SearchPreserved, PTL DEF Spec

(***************************************************************************)
(* The search never looks at the same piece twice, so it ends after at     *)
(* most as many pieces as there are positions.                             *)
(***************************************************************************)
THEOREM SearchProgress == Spec => Shrinks
BY SearchBegins, SearchPreserved, SearchShrinks, PTL DEF Spec, Shrinks

-----------------------------------------------------------------------------
(* The call behind the search.                                             *)

(***************************************************************************)
(* Where a call is: the search has found something from the moment it is   *)
(* followed by anything but an answer, and no read is marked before the    *)
(* bytes of the search were used.                                          *)
(***************************************************************************)
CallInv ==
  /\ file \in Archives /\ end_offset <= file.size /\ len <= room
  /\ step \in {"search", "eocd"} => ~marked
  /\ answer = "none" <=> step # "done"
  /\ step # "search" /\ answer \notin {"missing", "io"} => state = "found"

(***************************************************************************)
(* Without a mark the buffer holds the bytes of the file that the search   *)
(* read last.                                                              *)
(***************************************************************************)
BufferHolds ==
  step \in {"eocd", "comment", "locator", "record"} /\ ~marked =>
    \A i \in 0..(found.valid - 1) : buffer[i] = found.at - found.index + i

(***************************************************************************)
(* Once parsed, the end record is the one at the signature, and whole.     *)
(***************************************************************************)
EndRead ==
  \/ step \in {"comment", "locator", "record", "check", "guess"}
  \/ answer \in {"ok", "panic"}
  =>
    /\ EocdSize <= room /\ found.at + EocdSize <= file.size
    /\ eocd = file.ends[found.at]

(***************************************************************************)
(* What each step knows from the steps before: it has come as far as the   *)
(* slice would.                                                            *)
(***************************************************************************)
Progress ==
  /\ step = "comment" => found.at + EocdSize + have <= file.size
  /\ step \in {"locator", "record"} =>
       EndComplete(file, found.at) /\ eocd.sentinel /\ LocatorSize <= found.at
  /\ step = "record" =>
       HasLocator(file, found.at) /\ locator = Announced(file, found.at)
  /\ step \in {"check", "guess"} =>
       SliceFinds(file, found.at) /\ archive = Stated(file, found.at)
  /\ step = "guess" =>
       ~archive.zip64 /\ (~faulted => ~HasCentral(file, archive.offset))

RLInv ==
  /\ SearchInv /\ RLTypeOK /\ CallInv
  /\ BufferHolds /\ EndRead /\ Progress /\ LocatesAsSlice

(***************************************************************************)
(* What was found, and the file around it.                                 *)
(***************************************************************************)
LEMMA FoundFacts ==
  ASSUME RLInv, state = "found"
  PROVE  /\ found.at \in Nat /\ found.index \in Nat /\ found.valid \in Nat
         /\ found.index < found.valid /\ found.valid <= room /\ room \in Nat
         /\ found.index <= found.at
         /\ file.size \in Nat /\ found.at <= file.size
         /\ found.at - found.index + found.valid <= file.size
         /\ found.at \in DOMAIN file.ends /\ file.ends[found.at] \in End
<1>1. PICK a, i, v \in Nat : a = found.at /\ i = found.index /\ v = found.valid
  BY DEF RLInv, RLTypeOK, TypeOK
<1>2. /\ i + Sig <= v /\ v <= len /\ a - i >= max_back
      /\ a - i + v <= end_offset
  BY <1>1 DEF RLInv, RLTypeOK, TupleFits
<1>3. /\ len \in Nat /\ room \in Nat /\ max_back \in Nat /\ end_offset \in Nat
      /\ file \in Archives /\ end_offset <= file.size /\ len <= room
  BY DEF RLInv, RLTypeOK, TypeOK, CallInv
<1>4. /\ a \in DOMAIN file.ends /\ a + Sig <= end_offset
  BY <1>1 DEF RLInv, RLTypeOK, SearchInv, FindsLast, InRange
<1>5. file.size \in Nat /\ file.ends[a] \in End
  BY <1>3, <1>4, LocationAssumption
<1>6. QED
  BY <1>1, <1>2, <1>3, <1>4, <1>5, SearchAssumption

(***************************************************************************)
(* A step behind the search leaves the search as it was.                   *)
(***************************************************************************)
LEMMA SearchKept ==
  ASSUME RLInv, UNCHANGED vars
  PROVE  SearchInv'
BY SearchPreserved DEF RLInv

LEMMA FilledType ==
  ASSUME RLInv, NEW n \in Nat, NEW p \in Nat
  PROVE  /\ Filled(n, p) \in [0..(room - 1) -> Nat \cup {Unknown}]
         /\ n <= room => \A i \in 0..(n - 1) : Filled(n, p)[i] = p + i
BY DEF RLInv, RLTypeOK, Filled

(***************************************************************************)
(* What the records say of the archive, before the first header.           *)
(***************************************************************************)
LEMMA StatedType ==
  ASSUME RLInv, state = "found",
         HasLocator(file, found.at) => HasRecord64(file, Announced(file, found.at))
  PROVE  Stated(file, found.at) \in LocatedArchive
<1>1. file \in Archives
  BY DEF RLInv, CallInv
<1>2. CASE HasLocator(file, found.at)
  <2> DEFINE p == Announced(file, found.at)
  <2>1. p \in Nat
    BY <1>1, <1>2, LocationAssumption DEF HasLocator, Announced
  <2>2. file.records64[p] \in End64
    BY <1>1, <1>2, LocationAssumption DEF HasRecord64
  <2> HIDE DEF p
  <2>3. WithZip64(found.at, p, file.records64[p]) \in LocatedArchive
    BY <2>1, <2>2, FoundFacts DEF WithZip64, LocatedArchive, End64
  <2>4. QED
    BY <1>2, <2>3 DEF Stated, p
<1>3. CASE ~HasLocator(file, found.at)
  BY <1>3, FoundFacts DEF Stated, Plain, LocatedArchive, End
<1>4. QED
  BY <1>2, <1>3

(***************************************************************************)
(* How reading the records ends: the archive they state is passed on to    *)
(* the look at its first header, or there is none.                         *)
(***************************************************************************)
Located ==
  /\ SliceFinds(file, found.at) /\ archive' = Stated(file, found.at)
  /\ step' = "check" /\ UNCHANGED answer

Failed == answer' = "error" /\ step' = "done" /\ UNCHANGED archive

LEMMA CreateAnswers ==
  ASSUME EndComplete(file, found.at),
         HasLocator(file, found.at) => HasRecord64(file, Announced(file, found.at)),
         Create(Stated(file, found.at))
  PROVE  Located \/ (Failed /\ ~SliceFinds(file, found.at))
BY DEF Create, Located, Failed, SliceFinds

\* The comment ends within the file, or the call ends.
LEMMA CommentOutcome ==
  ASSUME RLInv, Comment
  PROVE  \/ /\ step' = "locator" /\ UNCHANGED <<archive, answer>>
            /\ EndComplete(file, found.at)
            /\ eocd.sentinel /\ LocatorSize <= found.at
         \/ Located
         \/ Failed /\ ~SliceFinds(file, found.at)
<1>1. state = "found" /\ step = "comment"
  BY DEF Comment, RLInv, CallInv
<1>2. eocd = file.ends[found.at]
  BY <1>1 DEF RLInv, EndRead
<1>3. EndComplete(file, found.at)
  <2>1. /\ found.at + EocdSize <= file.size
        /\ found.at + EocdSize + have <= file.size
    BY <1>1 DEF RLInv, EndRead, Progress
  <2>2. PICK a, n, c, size \in Nat : /\ a = found.at /\ n = have
                                     /\ c = eocd.comment_len /\ size = file.size
    BY <1>1, FoundFacts DEF RLInv, RLTypeOK, End
  <2>3. c <= n \/ a + EocdSize + c <= size
    BY <2>2 DEF Comment, CommentAtHand, CommentReadable
  <2>4. a + EocdSize + c <= size
    BY <2>1, <2>2, <2>3, LocationAssumption
  <2>5. QED
    BY <1>2, <2>1, <2>2, <2>4 DEF EndComplete
<1>4. CASE eocd.sentinel /\ LocatorSize <= found.at
  BY <1>3, <1>4 DEF Comment, AfterComment
<1>5. CASE ~(eocd.sentinel /\ LocatorSize <= found.at)
  <2>1. ~HasLocator(file, found.at)
    BY <1>2, <1>5 DEF HasLocator
  <2>2. Create(Stated(file, found.at))
    BY <1>2, <1>5, <2>1 DEF Comment, AfterComment, Stated
  <2>3. QED
    BY <1>3, <2>1, <2>2, CreateAnswers
<1>6. QED
  BY <1>4, <1>5

(***************************************************************************)
(* Bytes of the file that lie in a buffer make whole records, and those    *)
(* of a locator in front of the signature are the locator the slice sees.  *)
(***************************************************************************)
LEMMA RunIsWhole ==
  ASSUME NEW b, NEW i \in Nat, NEW n \in Nat, NEW p \in Nat,
         \A k \in 0..(n - 1) : b[i + k] = p + k
  PROVE  Whole(b, i, n) /\ (n > 0 => b[i] = p)
<1>1. n > 0 => b[i] = p
  <2> SUFFICES ASSUME n > 0 PROVE b[i] = p
    OBVIOUS
  <2>1. 0 \in 0..(n - 1) /\ i + 0 = i /\ p + 0 = p
    OBVIOUS
  <2>2. QED
    BY <2>1
<1>2. QED
  BY <1>1 DEF Whole

LEMMA LocatorOutcome ==
  ASSUME RLInv, Locator
  PROVE  /\ buffer' \in [0..(room - 1) -> Nat \cup {Unknown}]
         /\ marked' \in BOOLEAN /\ locator' \in Nat
         /\ ~marked' => ~marked /\ UNCHANGED buffer
         /\ \/ /\ step' = "record" /\ UNCHANGED <<archive, answer>>
               /\ HasLocator(file, found.at) /\ locator' = Announced(file, found.at)
            \/ Located
            \/ Failed /\ ~SliceFinds(file, found.at)
<1>1. state = "found" /\ step = "locator"
  BY DEF Locator, RLInv, CallInv
<1>2. /\ eocd = file.ends[found.at] /\ EocdSize <= room
      /\ EndComplete(file, found.at) /\ eocd.sentinel /\ LocatorSize <= found.at
      /\ ~marked => \A i \in 0..(found.valid - 1) : buffer[i] = found.at - found.index + i
  BY <1>1 DEF RLInv, EndRead, Progress, BufferHolds
<1> DEFINE p == found.at - LocatorSize
<1>3. /\ LocatorSize \in Nat /\ LocatorSize > 0 /\ LocatorSize <= room
      /\ p \in Nat
  BY <1>1, <1>2, FoundFacts, LocationAssumption
<1> HIDE DEF p
<1>4. ASSUME NEW b, NEW i \in Nat, Whole(b, i, LocatorSize), b[i] = p,
             UseLocator(b, i)
      PROVE  /\ locator' \in Nat
             /\ \/ /\ step' = "record" /\ UNCHANGED <<archive, answer>>
                   /\ HasLocator(file, found.at) /\ locator' = Announced(file, found.at)
                \/ Located
                \/ Failed /\ ~SliceFinds(file, found.at)
  <2>1. HasLocator(file, found.at) <=> p \in DOMAIN file.locators
    BY <1>2 DEF HasLocator, p
  <2>2. CASE p \in DOMAIN file.locators
    <3>1. step' = "record" /\ locator' = Announced(file, found.at)
          /\ UNCHANGED <<archive, answer>>
      BY <1>4, <2>2 DEF UseLocator, Announced, p
    <3>2. file.locators[p] \in Nat
      BY <2>2, LocationAssumption DEF RLInv, CallInv
    <3>3. QED
      BY <2>1, <2>2, <3>1, <3>2 DEF Announced, p
  <2>3. CASE p \notin DOMAIN file.locators
    <3>1. Create(Stated(file, found.at)) /\ UNCHANGED locator
      BY <1>2, <1>4, <2>1, <2>3 DEF UseLocator, Stated
    <3>2. QED
      BY <1>2, <2>1, <2>3, <3>1, CreateAnswers DEF RLInv, RLTypeOK
  <2>4. QED
    BY <2>2, <2>3
<1>5. CASE LocatorInBuffer
  <2>1. ~marked /\ LocatorSize <= found.index
    BY <1>5 DEF LocatorInBuffer
  <2>2. PICK j \in Nat : j = found.index - LocatorSize
    BY <1>1, <1>3, <2>1, FoundFacts
  <2>3. ASSUME NEW k \in 0..(LocatorSize - 1)
        PROVE  buffer[j + k] = p + k
    <3>1. PICK a, i, v \in Nat : a = found.at /\ i = found.index /\ v = found.valid
      BY <1>1, FoundFacts
    <3>2. i < v /\ i <= a
      BY <1>1, <3>1, FoundFacts
    <3>3. j + k \in 0..(v - 1)
      BY <1>3, <2>1, <2>2, <3>1, <3>2
    <3>4. buffer[j + k] = a - i + (j + k)
      BY <1>2, <2>1, <3>1, <3>3
    <3>5. QED
      BY <1>3, <2>2, <3>1, <3>4 DEF p
  <2>4. Whole(buffer, j, LocatorSize) /\ buffer[j] = p
    <3>1. \A k \in 0..(LocatorSize - 1) : buffer[j + k] = p + k
      BY <2>3
    <3>2. j \in Nat
      BY <2>2
    <3>3. buffer[j] = p
      <4>1. 0 \in 0..(LocatorSize - 1) /\ j + 0 = j /\ p + 0 = p
        BY <1>3, <3>2
      <4>2. QED
        BY <3>1, <4>1
    <3>4. QED
      BY <3>1, <3>3 DEF Whole
  <2>5. UseLocator(buffer, j) /\ UNCHANGED <<buffer, marked>>
    BY <1>5, <2>2 DEF Locator
  <2>6. QED
    BY <1>4, <2>2, <2>4, <2>5 DEF RLInv, RLTypeOK
<1>6. CASE ~LocatorInBuffer
  <2>1. /\ buffer' = Filled(LocatorSize, p) /\ marked' = TRUE
        /\ UseLocator(buffer', 0)
    BY <1>6 DEF Locator, p
  <2>2. /\ buffer' \in [0..(room - 1) -> Nat \cup {Unknown}]
        /\ \A k \in 0..(LocatorSize - 1) : buffer'[k] = p + k
    BY <1>3, <2>1, FilledType
  <2>3. \A k \in 0..(LocatorSize - 1) : buffer'[0 + k] = p + k
    BY <1>3, <2>2
  <2>4. Whole(buffer', 0, LocatorSize) /\ buffer'[0] = p
    BY <1>3, <2>3, RunIsWhole
  <2>5. QED
    BY <1>4, <2>1, <2>2, <2>4
<1>7. QED
  BY <1>5, <1>6

\* The zip64 record is the one the slice takes; with room for it and no
\* overlap, it is missed only where the slice misses it.
LEMMA RecordOutcome ==
  ASSUME RLInv, Record
  PROVE  /\ buffer' \in [0..(room - 1) -> Nat \cup {Unknown}]
         /\ marked' \in BOOLEAN
         /\ \/ Located
            \/ /\ Failed
               /\ RecordsApart /\ room >= Eocd64Size => ~SliceFinds(file, found.at)
<1>1. state = "found" /\ step = "record"
  BY DEF Record, RLInv, CallInv
<1>2. /\ EndComplete(file, found.at)
      /\ HasLocator(file, found.at) /\ locator = Announced(file, found.at)
      /\ ~marked => \A i \in 0..(found.valid - 1) : buffer[i] = found.at - found.index + i
  BY <1>1 DEF RLInv, Progress, BufferHolds
<1>3. PICK l, size \in Nat : l = locator /\ size = file.size
  BY <1>1, FoundFacts DEF RLInv, RLTypeOK
<1>4. Eocd64Size \in Nat /\ Eocd64Size > 0
  BY LocationAssumption
<1>5. ASSUME NEW b, NEW i \in Nat, NEW j \in Nat, UseRecord(b, i, j),
             i + Eocd64Size <= j =>
               /\ \A k \in 0..(Eocd64Size - 1) : b[i + k] = l + k
               /\ l + Eocd64Size <= size,
             RecordsApart /\ room >= Eocd64Size /\ HasRecord64(file, l) =>
               i + Eocd64Size <= j
      PROVE  \/ Located
             \/ /\ Failed
                /\ RecordsApart /\ room >= Eocd64Size => ~SliceFinds(file, found.at)
  <2>1. CASE i + Eocd64Size <= j /\ l \in DOMAIN file.records64
    <3>1. \A k \in 0..(Eocd64Size - 1) : b[i + k] = l + k
      BY <1>5, <2>1
    <3>2. b[i] = l
      <4>1. 0 \in 0..(Eocd64Size - 1) /\ i + 0 = i /\ l + 0 = l
        BY <1>3, <1>4, <1>5
      <4>2. QED
        BY <3>1, <4>1
    <3>3. Whole(b, i, Eocd64Size)
      BY <3>1, <3>2 DEF Whole
    <3>4. HasRecord64(file, l)
      BY <1>3, <1>5, <2>1 DEF HasRecord64
    <3>5. Create(Stated(file, found.at))
      BY <1>2, <1>3, <1>5, <2>1, <3>2, <3>3 DEF UseRecord, Stated
    <3>6. QED
      BY <1>2, <1>3, <3>4, <3>5, CreateAnswers
  <2>2. CASE ~(i + Eocd64Size <= j /\ l \in DOMAIN file.records64)
    <3>1. RecordsApart /\ room >= Eocd64Size => ~HasRecord64(file, l)
      BY <1>5, <2>2 DEF HasRecord64
    <3>2. ~(/\ i + Eocd64Size <= j /\ Whole(b, i, Eocd64Size)
            /\ b[i] \in DOMAIN file.records64)
      <4>1. SUFFICES ASSUME i + Eocd64Size <= j, b[i] \in DOMAIN file.records64
                     PROVE  FALSE
        OBVIOUS
      <4>2. \A k \in 0..(Eocd64Size - 1) : b[i + k] = l + k
        BY <1>5, <4>1
      <4>3. 0 \in 0..(Eocd64Size - 1) /\ i + 0 = i /\ l + 0 = l
        BY <1>3, <1>4, <1>5
      <4>4. b[i] = l
        BY <4>2, <4>3
      <4>5. QED
        BY <2>2, <4>1, <4>4
    <3>3. Failed
      BY <1>5, <3>2 DEF UseRecord, Failed
    <3>4. QED
      BY <1>2, <1>3, <3>1, <3>3 DEF SliceFinds
  <2>3. QED
    BY <2>1, <2>2
<1>6. CASE RecordInBuffer
  <2>1. PICK a, i, v \in Nat : a = found.at /\ i = found.index /\ v = found.valid
    BY <1>1, FoundFacts
  <2>2. i < v /\ i <= a /\ a - i + v <= size
    BY <1>1, <1>3, <2>1, FoundFacts
  <2>3. ~marked /\ l <= a /\ a - l <= i
    BY <1>3, <1>6, <2>1 DEF RecordInBuffer
  <2>4. PICK j \in Nat : j = i - (a - l)
    BY <1>3, <2>1, <2>3
  <2>5. UseRecord(buffer, j, v) /\ UNCHANGED <<buffer, marked>>
    BY <1>3, <1>6, <2>1, <2>4 DEF Record
  <2>6. ASSUME j + Eocd64Size <= v
        PROVE  /\ \A k \in 0..(Eocd64Size - 1) : buffer[j + k] = l + k
               /\ l + Eocd64Size <= size
    <3>1. l + Eocd64Size <= size
      BY <1>3, <1>4, <2>1, <2>2, <2>3, <2>4, <2>6
    <3>2. ASSUME NEW k \in 0..(Eocd64Size - 1)
          PROVE  buffer[j + k] = l + k
      <4>1. j + k \in 0..(v - 1) /\ a - i + (j + k) = l + k
        BY <1>3, <1>4, <2>1, <2>4, <2>6
      <4>2. QED
        BY <1>2, <2>1, <2>3, <4>1
    <3>3. QED
      BY <3>1, <3>2
  <2>7. ASSUME RecordsApart, HasRecord64(file, l)
        PROVE  j + Eocd64Size <= v
    <3>1. l \in DOMAIN file.records64 /\ a \in DOMAIN file.ends /\ file \in Archives
      BY <1>1, <2>1, <2>7, FoundFacts DEF HasRecord64, RLInv, CallInv
    <3>2. l + Eocd64Size <= a
      BY <2>3, <2>7, <3>1 DEF RecordsApart
    <3>3. QED
      BY <1>3, <1>4, <2>1, <2>2, <2>4, <3>2
  <2>8. QED
    BY <1>5, <2>1, <2>4, <2>5, <2>6, <2>7 DEF RLInv, RLTypeOK
<1>7. CASE ~RecordInBuffer
  <2>1. PICK n \in RecordReads :
          /\ buffer' = Filled(n, locator) /\ marked' = (marked \/ n > 0)
          /\ UseRecord(buffer', 0, n)
    BY <1>7 DEF Record
  <2>2. PICK r \in Nat : r = room
    BY DEF RLInv, RLTypeOK
  <2>3. /\ n \in Nat /\ n <= r /\ n <= SaturatingSub(size, l)
        /\ Least(Least(Eocd64Size, r), SaturatingSub(size, l)) <= n
    BY <1>3, <1>4, <2>1, <2>2 DEF RecordReads, Available, Least, SaturatingSub
  <2>4. /\ buffer' \in [0..(room - 1) -> Nat \cup {Unknown}]
        /\ \A k \in 0..(n - 1) : buffer'[k] = l + k
    BY <1>3, <2>1, <2>2, <2>3, FilledType
  <2>5. ASSUME 0 + Eocd64Size <= n
        PROVE  /\ \A k \in 0..(Eocd64Size - 1) : buffer'[0 + k] = l + k
               /\ l + Eocd64Size <= size
    <3>1. l + Eocd64Size <= size
      BY <1>3, <1>4, <2>3, <2>5 DEF SaturatingSub
    <3>2. \A k \in 0..(Eocd64Size - 1) : 0 + k = k /\ k \in 0..(n - 1)
      BY <1>4, <2>3, <2>5
    <3>3. QED
      BY <2>4, <3>1, <3>2
  <2>6. ASSUME room >= Eocd64Size, HasRecord64(file, l)
        PROVE  0 + Eocd64Size <= n
    <3>1. l + Eocd64Size <= size /\ r >= Eocd64Size
      BY <1>3, <2>2, <2>6 DEF HasRecord64
    <3>2. QED
      BY <1>3, <1>4, <2>2, <2>3, <3>1 DEF SaturatingSub, Least
  <2>7. marked' \in BOOLEAN
    BY <2>1 DEF RLInv, RLTypeOK
  <2>8. QED
    BY <1>5, <2>1, <2>3, <2>4, <2>5, <2>6, <2>7
<1>8. QED
  BY <1>6, <1>7

-----------------------------------------------------------------------------
(* Each action keeps the invariant.                                        *)

\* What every action behind the search has in common.
LEMMA Onward ==
  ASSUME RLInv, state = "found", Fixed,
         buffer' \in [0..(room - 1) -> Nat \cup {Unknown}], marked' \in BOOLEAN,
         eocd' \in End, have' \in Nat, locator' \in Nat, archive' \in LocatedArchive,
         faulted' \in BOOLEAN,
         step' \in {"comment", "locator", "record", "check", "guess", "done"},
         answer' \in {"none", "error", "ok", "panic"},
         answer' = "none" <=> step' # "done"
  PROVE  SearchInv' /\ RLTypeOK' /\ CallInv'
<1>1. UNCHANGED <<vars, file, room, first_end>>
  BY DEF Fixed
<1>2. SearchInv'
  BY <1>1, SearchKept
<1>3. RLTypeOK'
  <2>1. TypeOK' /\ TupleFits'
    BY <1>2 DEF SearchInv
  <2>2. /\ signatures' = DOMAIN file'.ends /\ room' \in Nat /\ first_end' \in Nat
        /\ room' = room
    BY <1>1 DEF RLInv, RLTypeOK, vars, given
  <2>3. QED
    BY <2>1, <2>2 DEF RLTypeOK
<1>4. CallInv'
  BY <1>1 DEF RLInv, CallInv, vars, given
<1>5. QED
  BY <1>2, <1>3, <1>4

LEMMA KeepSearching ==
  ASSUME RLInv, SearchStep \/ SearchFault
  PROVE  RLInv'
<1>1. /\ step = "search" /\ Next
      /\ UNCHANGED <<file, room, callVars, step, answer, first_end>>
      /\ faulted' \in BOOLEAN
  BY DEF SearchStep, SearchFault, Next, RLInv, RLTypeOK
<1>2. SearchInv'
  BY <1>1, SearchPreserved DEF RLInv
<1>3. UNCHANGED given
  BY <1>1 DEF Next, Search, Hit, Miss, NothingToSearch, ReadFails
<1>4. RLTypeOK'
  BY <1>1, <1>2, <1>3 DEF RLInv, RLTypeOK, SearchInv, callVars, given
<1>5. CallInv' /\ BufferHolds' /\ EndRead' /\ Progress' /\ LocatesAsSlice'
  BY <1>1, <1>3
     DEF RLInv, CallInv, BufferHolds, EndRead, Progress, LocatesAsSlice, callVars, given
<1>6. QED
  BY <1>2, <1>4, <1>5 DEF RLInv

LEMMA KeepNotFound ==
  ASSUME RLInv, NotFound
  PROVE  RLInv'
<1>1. /\ step = "search" /\ step' = "done" /\ answer' \in {"io", "missing"}
      /\ UNCHANGED <<callVars, faulted>> /\ UNCHANGED <<vars, file, room, first_end>>
  BY DEF NotFound, Fixed
<1>2. SearchInv'
  BY <1>1, SearchKept
<1>3. RLTypeOK'
  BY <1>1, <1>2 DEF RLInv, RLTypeOK, SearchInv, callVars, vars, given
<1>4. CallInv' /\ BufferHolds' /\ EndRead' /\ Progress' /\ LocatesAsSlice'
  BY <1>1
     DEF RLInv, CallInv, BufferHolds, EndRead, Progress, LocatesAsSlice, vars, given
<1>5. QED
  BY <1>2, <1>3, <1>4 DEF RLInv

LEMMA KeepFound ==
  ASSUME RLInv, Found
  PROVE  RLInv'
<1>1. /\ step = "search" /\ state = "found" /\ step' = "eocd"
      /\ UNCHANGED <<marked, eocd, have, locator, archive, answer, faulted>>
      /\ UNCHANGED <<vars, file, room, first_end>>
      /\ buffer' = Filled(found.valid, found.at - found.index)
  BY DEF Found, Fixed
<1>2. SearchInv'
  BY <1>1, SearchKept
<1>3. PICK p \in Nat : p = found.at - found.index
  BY <1>1, FoundFacts
<1>4. /\ buffer' \in [0..(room - 1) -> Nat \cup {Unknown}]
      /\ \A i \in 0..(found.valid - 1) : buffer'[i] = p + i
  BY <1>1, <1>3, FoundFacts, FilledType
<1>5. RLTypeOK'
  BY <1>1, <1>2, <1>4 DEF RLInv, RLTypeOK, SearchInv, vars, given
<1>6. BufferHolds'
  BY <1>1, <1>3, <1>4 DEF BufferHolds, vars
<1>7. CallInv' /\ EndRead' /\ Progress' /\ LocatesAsSlice'
  BY <1>1 DEF RLInv, CallInv, EndRead, Progress, LocatesAsSlice, vars, given
<1>8. QED
  BY <1>2, <1>5, <1>6, <1>7 DEF RLInv

LEMMA KeepParseEocd ==
  ASSUME RLInv, ParseEocd
  PROVE  RLInv'
<1>1. /\ step = "eocd" /\ state = "found" /\ step' = "comment" /\ answer = "none"
      /\ UNCHANGED <<buffer, marked, locator, archive, answer, faulted>>
      /\ UNCHANGED <<vars, file, room, first_end>>
  BY DEF ParseEocd, Fixed, RLInv, CallInv
<1>2. PICK a, i, v, size \in Nat :
        a = found.at /\ i = found.index /\ v = found.valid /\ size = file.size
  BY <1>1, FoundFacts
<1>3. /\ i < v /\ v <= room /\ i <= a /\ a - i + v <= size
      /\ v - i >= EocdSize /\ EocdSize \in Nat /\ room \in Nat
  BY <1>1, <1>2, FoundFacts, LocationAssumption DEF ParseEocd, InWindow
<1>4. buffer[i] = a
  <2>1. i \in 0..(v - 1) /\ a - i + i = a
    BY <1>2, <1>3
  <2>2. buffer[i] = a - i + i
    BY <1>1, <1>2, <2>1 DEF RLInv, CallInv, BufferHolds
  <2>3. QED
    BY <2>1, <2>2
<1>5. eocd' = file.ends[found.at] /\ eocd' \in End
  BY <1>1, <1>2, <1>4, FoundFacts DEF ParseEocd
<1>6. have' \in Nat /\ a + EocdSize + have' <= size /\ a + EocdSize <= size
      /\ EocdSize <= room
  BY <1>2, <1>3 DEF ParseEocd
<1>7. SearchInv' /\ RLTypeOK' /\ CallInv'
  BY <1>1, <1>5, <1>6, Onward DEF Fixed, RLInv, RLTypeOK
<1>8. BufferHolds' /\ LocatesAsSlice'
  BY <1>1 DEF RLInv, BufferHolds, LocatesAsSlice, vars
<1>9. EndRead' /\ Progress'
  BY <1>1, <1>2, <1>5, <1>6 DEF EndRead, Progress, vars
<1>10. QED
  BY <1>7, <1>8, <1>9 DEF RLInv

LEMMA KeepRereadEocd ==
  ASSUME RLInv, RereadEocd
  PROVE  RLInv'
<1>1. /\ step = "eocd" /\ state = "found" /\ step' = "comment" /\ answer = "none"
      /\ marked' = TRUE
      /\ UNCHANGED <<locator, archive, answer, faulted>>
      /\ UNCHANGED <<vars, file, room, first_end>>
  BY DEF RereadEocd, Fixed, RLInv, CallInv
<1>2. PICK a, size \in Nat : a = found.at /\ size = file.size /\ a <= size
  BY <1>1, FoundFacts
<1>3. PICK r \in Nat : r = room
  BY DEF RLInv, RLTypeOK
<1>4. PICK n \in EocdSize..Least(room, Available(found.at)) :
        buffer' = Filled(n, found.at) /\ have' = n - EocdSize
  BY DEF RereadEocd
<1>5. /\ EocdSize \in Nat /\ 0 < EocdSize /\ n \in Nat /\ EocdSize <= n /\ n <= r
      /\ a + n <= size /\ EocdSize <= room
  BY <1>2, <1>3, <1>4, LocationAssumption
     DEF RereadEocd, Least, Available, SaturatingSub
<1>6. /\ buffer' \in [0..(room - 1) -> Nat \cup {Unknown}]
      /\ \A i \in 0..(n - 1) : buffer'[i] = a + i
  <2>1. n \in Nat /\ a \in Nat /\ n <= room /\ buffer' = Filled(n, a)
    BY <1>2, <1>3, <1>4, <1>5
  <2>2. QED
    BY <2>1, FilledType
<1>7. buffer'[0] = a
  BY <1>2, <1>5, <1>6
<1>8. eocd' = file.ends[found.at] /\ eocd' \in End
  BY <1>1, <1>2, <1>7, FoundFacts DEF RereadEocd
<1>9. have' \in Nat /\ a + EocdSize + have' <= size /\ a + EocdSize <= size
  BY <1>2, <1>4, <1>5
<1>10. SearchInv' /\ RLTypeOK' /\ CallInv'
  BY <1>1, <1>6, <1>8, <1>9, Onward DEF Fixed, RLInv, RLTypeOK
<1>11. BufferHolds' /\ LocatesAsSlice' /\ EndRead' /\ Progress'
  BY <1>1, <1>2, <1>5, <1>8, <1>9
     DEF BufferHolds, LocatesAsSlice, EndRead, Progress, vars
<1>12. QED
  BY <1>10, <1>11 DEF RLInv

\* An error ends the call, whichever read or record it comes from.
LEMMA KeepErrors ==
  ASSUME RLInv, RereadFails \/ CommentCut \/ ReadFault
  PROVE  RLInv'
<1>1. /\ state = "found" /\ step' = "done" /\ answer' = "error"
      /\ UNCHANGED callVars /\ UNCHANGED <<vars, file, room, first_end>>
      /\ faulted' \in BOOLEAN
  BY DEF RereadFails, CommentCut, ReadFault, Error, ReadError, Fixed,
         RLInv, RLTypeOK, CallInv
<1>2. SearchInv' /\ RLTypeOK' /\ CallInv'
  BY <1>1, Onward DEF Fixed, callVars, RLInv, RLTypeOK
<1>3. BufferHolds' /\ LocatesAsSlice' /\ EndRead' /\ Progress'
  BY <1>1 DEF BufferHolds, LocatesAsSlice, EndRead, Progress
<1>4. QED
  BY <1>2, <1>3 DEF RLInv

LEMMA KeepComment ==
  ASSUME RLInv, Comment
  PROVE  RLInv'
<1>1. /\ step = "comment" /\ state = "found" /\ answer = "none"
      /\ marked' = (marked \/ ~CommentAtHand)
      /\ UNCHANGED <<buffer, eocd, have, locator, faulted>>
      /\ UNCHANGED <<vars, file, room, first_end>>
  BY DEF Comment, Fixed, RLInv, CallInv
<1>2. /\ EocdSize <= room /\ found.at + EocdSize <= file.size
      /\ eocd = file.ends[found.at]
  BY <1>1 DEF RLInv, EndRead
<1>3. marked' \in BOOLEAN /\ (~marked' => ~marked)
  BY <1>1 DEF RLInv, RLTypeOK
<1>4. \/ /\ step' = "locator" /\ UNCHANGED <<archive, answer>>
         /\ EndComplete(file, found.at) /\ eocd.sentinel /\ LocatorSize <= found.at
      \/ Located
      \/ Failed
  BY CommentOutcome
<1>5. archive' \in LocatedArchive
  BY <1>1, <1>4, StatedType DEF Located, Failed, SliceFinds, RLInv, RLTypeOK
<1>6. SearchInv' /\ RLTypeOK' /\ CallInv'
  BY <1>1, <1>3, <1>4, <1>5, Onward DEF Located, Failed, Fixed, RLInv, RLTypeOK
<1>7. BufferHolds'
  BY <1>1, <1>3 DEF RLInv, BufferHolds, vars
<1>8. EndRead' /\ Progress' /\ LocatesAsSlice'
  BY <1>1, <1>2, <1>4 DEF Located, Failed, EndRead, Progress, LocatesAsSlice, vars
<1>9. QED
  BY <1>6, <1>7, <1>8 DEF RLInv

LEMMA KeepLocator ==
  ASSUME RLInv, Locator
  PROVE  RLInv'
<1>1. /\ step = "locator" /\ state = "found" /\ answer = "none"
      /\ UNCHANGED <<eocd, have, faulted>>
      /\ UNCHANGED <<vars, file, room, first_end>>
  BY DEF Locator, Fixed, RLInv, CallInv
<1>2. /\ EocdSize <= room /\ found.at + EocdSize <= file.size
      /\ eocd = file.ends[found.at]
      /\ EndComplete(file, found.at) /\ eocd.sentinel /\ LocatorSize <= found.at
  BY <1>1 DEF RLInv, EndRead, Progress
<1>3. /\ buffer' \in [0..(room - 1) -> Nat \cup {Unknown}]
      /\ marked' \in BOOLEAN /\ locator' \in Nat
      /\ ~marked' => ~marked /\ UNCHANGED buffer
      /\ \/ /\ step' = "record" /\ UNCHANGED <<archive, answer>>
            /\ HasLocator(file, found.at) /\ locator' = Announced(file, found.at)
         \/ Located
         \/ Failed
  BY LocatorOutcome
<1>4. archive' \in LocatedArchive
  BY <1>1, <1>3, StatedType DEF Located, Failed, SliceFinds, RLInv, RLTypeOK
<1>5. SearchInv' /\ RLTypeOK' /\ CallInv'
  BY <1>1, <1>3, <1>4, Onward DEF Located, Failed, Fixed, RLInv, RLTypeOK
<1>6. BufferHolds'
  BY <1>1, <1>3 DEF RLInv, BufferHolds, vars
<1>7. EndRead' /\ Progress' /\ LocatesAsSlice'
  BY <1>1, <1>2, <1>3 DEF Located, Failed, EndRead, Progress, LocatesAsSlice, vars
<1>8. QED
  BY <1>5, <1>6, <1>7 DEF RLInv

LEMMA KeepRecord ==
  ASSUME RLInv, Record
  PROVE  RLInv'
<1>1. /\ step = "record" /\ state = "found" /\ answer = "none"
      /\ UNCHANGED <<eocd, have, locator, faulted>>
      /\ UNCHANGED <<vars, file, room, first_end>>
  BY DEF Record, Fixed, RLInv, CallInv
<1>2. /\ EocdSize <= room /\ found.at + EocdSize <= file.size
      /\ eocd = file.ends[found.at]
  BY <1>1 DEF RLInv, EndRead
<1>3. /\ buffer' \in [0..(room - 1) -> Nat \cup {Unknown}]
      /\ marked' \in BOOLEAN
      /\ Located \/ Failed
  BY RecordOutcome
<1>4. archive' \in LocatedArchive
  BY <1>1, <1>3, StatedType DEF Located, Failed, SliceFinds, RLInv, RLTypeOK
<1>5. SearchInv' /\ RLTypeOK' /\ CallInv'
  BY <1>1, <1>3, <1>4, Onward DEF Located, Failed, Fixed, RLInv, RLTypeOK
<1>6. BufferHolds' /\ EndRead' /\ Progress' /\ LocatesAsSlice'
  BY <1>1, <1>2, <1>3
     DEF Located, Failed, BufferHolds, EndRead, Progress, LocatesAsSlice, vars
<1>7. QED
  BY <1>5, <1>6 DEF RLInv

LEMMA KeepPanic ==
  ASSUME RLInv, SlicePanics
  PROVE  RLInv'
<1>1. /\ step = "check" /\ state = "found" /\ answer' = "panic" /\ step' = "done"
      /\ UNCHANGED <<callVars, faulted>> /\ UNCHANGED <<vars, file, room, first_end>>
  BY DEF SlicePanics, Fixed, RLInv, CallInv
<1>2. SearchInv' /\ RLTypeOK' /\ CallInv'
  BY <1>1, Onward DEF Fixed, callVars, RLInv, RLTypeOK
<1>3. BufferHolds' /\ EndRead' /\ Progress' /\ LocatesAsSlice'
  BY <1>1 DEF RLInv, BufferHolds, EndRead, Progress, LocatesAsSlice, callVars, vars
<1>4. QED
  BY <1>2, <1>3 DEF RLInv

\* A header where the directory is said to be, or an archive with zip64
\* records: the slice does not correct it either.
LEMMA KeepCheckFirst ==
  ASSUME RLInv, CheckFirst
  PROVE  RLInv'
<1>1. /\ step = "check" /\ state = "found" /\ answer = "none"
      /\ UNCHANGED callVars /\ UNCHANGED <<vars, file, room, first_end>>
  BY DEF CheckFirst, Fixed, RLInv, CallInv
<1>2. PICK there \in BOOLEAN :
        /\ Sees(archive.offset, there)
        /\ IF there \/ archive.zip64
           THEN answer' = "ok" /\ step' = "done"
           ELSE step' = "guess" /\ UNCHANGED answer
  BY DEF CheckFirst
<1>3. /\ faulted' \in BOOLEAN /\ (faulted => faulted')
      /\ ~faulted' => there = HasCentral(file, archive.offset)
      /\ there => HasCentral(file, archive.offset)
  <2>1. CASE there = HasCentral(file, archive.offset) /\ UNCHANGED faulted
    BY <2>1 DEF RLInv, RLTypeOK
  <2>2. CASE there = FALSE /\ faulted' = TRUE
    BY <2>2
  <2>3. QED
    BY <1>2, <2>1, <2>2 DEF Sees
<1>4. SliceFinds(file, found.at) /\ archive = Stated(file, found.at)
  BY <1>1 DEF RLInv, Progress
<1>5. SearchInv' /\ RLTypeOK' /\ CallInv'
  BY <1>1, <1>2, <1>3, Onward DEF Fixed, callVars, RLInv, RLTypeOK
<1>6. there \/ archive.zip64 => archive = SliceArchive(file, found.at)
  BY <1>3, <1>4 DEF SliceArchive, Checked
<1>7. LocatesAsSlice'
  BY <1>1, <1>2, <1>4, <1>6 DEF LocatesAsSlice, callVars, vars
<1>8. EndRead' /\ BufferHolds' /\ Progress'
  BY <1>1, <1>2, <1>3, <1>4
     DEF RLInv, EndRead, BufferHolds, Progress, callVars, vars
<1>9. QED
  BY <1>5, <1>7, <1>8 DEF RLInv

\* The directory in front of the end record is taken under the condition
\* under which the slice takes it.
LEMMA KeepCheckGuess ==
  ASSUME RLInv, CheckGuess
  PROVE  RLInv'
<1> DEFINE guess == GuessedOffset(archive)
<1>1. /\ step = "guess" /\ state = "found" /\ answer = "none"
      /\ answer' = "ok" /\ step' = "done"
      /\ UNCHANGED <<buffer, marked, eocd, have, locator>>
      /\ UNCHANGED <<vars, file, room, first_end>>
  BY DEF CheckGuess, Fixed, RLInv, CallInv
<1>2. PICK there \in BOOLEAN :
        /\ Sees(guess, there)
        /\ archive' = IF there THEN Moved(guess) ELSE archive
  BY DEF CheckGuess
<1>3. /\ faulted' \in BOOLEAN /\ (faulted => faulted')
      /\ ~faulted' => there = HasCentral(file, guess)
  BY <1>2 DEF Sees, RLInv, RLTypeOK
<1>4. /\ SliceFinds(file, found.at) /\ archive = Stated(file, found.at)
      /\ ~archive.zip64 /\ (~faulted => ~HasCentral(file, archive.offset))
      /\ eocd = file.ends[found.at]
  BY <1>1 DEF RLInv, Progress, EndRead
<1>5. archive \in LocatedArchive
  BY DEF RLInv, RLTypeOK
<1>6. guess \in Nat
  BY <1>5 DEF GuessedOffset, LocatedArchive
<1>7. archive' \in LocatedArchive
  <2>1. SaturatingSub(guess, archive.offset) \in Nat
    BY <1>5, <1>6 DEF SaturatingSub, LocatedArchive
  <2> HIDE DEF guess
  <2>2. QED
    BY <1>2, <1>5, <1>6, <2>1 DEF Moved, LocatedArchive
<1>8. SearchInv' /\ RLTypeOK' /\ CallInv'
  BY <1>1, <1>3, <1>7, Onward DEF Fixed, RLInv, RLTypeOK
<1>9. Moved(guess) = Corrected(archive)
  <2>1. SaturatingSub(guess, archive.offset) =
          IF guess > archive.offset THEN guess - archive.offset ELSE 0
    BY <1>5, <1>6 DEF SaturatingSub, LocatedArchive
  <2>2. QED
    BY <2>1 DEF Moved, Corrected
<1>10. ~faulted' => archive' = SliceArchive(file, found.at)
  BY <1>2, <1>3, <1>4, <1>9 DEF SliceArchive, Checked
<1>11. ASSUME Adjacent'
       PROVE  archive' = SliceArchive(file, found.at)
  <2>1. GuessedOffset(archive') = guess
    BY <1>2, <1>5 DEF Moved, GuessedOffset, LocatedArchive
  <2>2. guess = archive.offset
    <3>1. ~HasLocator(file, found.at) /\ guess = eocd.cd_offset
      BY <1>1, <1>11, <2>1 DEF Adjacent, vars
    <3>2. QED
      BY <1>4, <3>1 DEF Stated, Plain
  <2>3. Corrected(archive) = archive
    <3>1. (IF guess > archive.offset THEN guess - archive.offset ELSE 0) = 0
      BY <1>6, <2>2
    <3>2. archive.base = 0
      BY <1>4, <1>11, <1>1 DEF Adjacent, Stated, Plain, vars
    <3>3. QED
      BY <1>5, <2>2, <3>1, <3>2 DEF Corrected, LocatedArchive
  <2>4. QED
    BY <1>2, <1>4, <1>9, <2>3 DEF SliceArchive, Checked
<1>12. LocatesAsSlice'
  BY <1>1, <1>4, <1>10, <1>11 DEF LocatesAsSlice, vars
<1>13. EndRead' /\ BufferHolds' /\ Progress'
  BY <1>1 DEF RLInv, EndRead, BufferHolds, Progress, vars
<1>14. QED
  BY <1>8, <1>12, <1>13 DEF RLInv

\* The caller's next search has room for a signature and all of what lies
\* in front of the last one found before it.
LEMMA KeepRetry ==
  ASSUME RLInv, Retry
  PROVE  RLInv'
<1>1. /\ step = "done" /\ answer = "error" /\ state = "found"
      /\ end_offset' = found.at
      /\ max_back' = SaturatingSub(found.at, end_offset - max_back)
      /\ chunk_end' = found.at /\ window' = Least(InitWindow, len)
      /\ state' = "searching" /\ found' = Nothing
      /\ buffer' = Blank /\ marked' = FALSE
      /\ eocd' = NoEnd /\ have' = 0 /\ locator' = 0 /\ archive' = Plain(0, NoEnd)
      /\ step' = "search" /\ answer' = "none"
      /\ UNCHANGED <<signatures, len, file, room, first_end, faulted>>
  BY DEF Retry, RLInv, CallInv
<1>2. PICK a, i, v \in Nat : /\ a = found.at /\ i = found.index /\ v = found.valid
  BY <1>1, FoundFacts
<1>3. /\ signatures \subseteq Nat /\ end_offset \in Nat /\ max_back \in Nat
      /\ len \in Nat /\ max_back <= end_offset /\ len <= room
      /\ i + Sig <= v /\ v <= len
      /\ a + Sig <= end_offset /\ file \in Archives /\ end_offset <= file.size
  BY <1>1, <1>2 DEF RLInv, SearchInv, TypeOK, Range, TupleFits, FindsLast, InRange, CallInv
<1>4. /\ Sig \in Nat /\ Sig > 0 /\ InitWindow \in Nat /\ Sig <= InitWindow
  BY SearchAssumption
<1>5. /\ Sig <= len /\ window' \in Nat /\ Sig <= window' /\ window' <= len
  BY <1>1, <1>2, <1>3, <1>4 DEF Least
<1>6. max_back' \in Nat /\ max_back' <= a
  BY <1>1, <1>2, <1>3 DEF SaturatingSub
<1>7. SearchInv'
  <2>1. TypeOK'
    BY <1>1, <1>2, <1>3, <1>5, <1>6 DEF TypeOK, Nothing
  <2>2. \A p \in signatures' : InRange(p)' => p + Sig <= chunk_end'
    BY <1>1 DEF InRange
  <2>3. Ahead' /\ Range' /\ FindsLast' /\ TupleFits'
    BY <1>1, <1>2, <1>5, <1>6, <2>2 DEF Ahead, Range, FindsLast, TupleFits
  <2>4. QED
    BY <2>1, <2>3 DEF SearchInv
<1>8. RLTypeOK'
  <2>1. buffer' \in [0..(room - 1) -> Nat \cup {Unknown}]
    BY <1>1 DEF Blank
  <2>2. eocd' \in End /\ archive' \in LocatedArchive
    BY <1>1 DEF NoEnd, End, Plain, LocatedArchive
  <2>3. QED
    BY <1>1, <1>7, <2>1, <2>2 DEF RLInv, RLTypeOK, SearchInv
<1>9. end_offset' <= file.size
  <2>1. PICK size \in Nat : size = file.size
    BY <1>3, LocationAssumption
  <2>2. QED
    BY <1>1, <1>2, <1>3, <1>4, <2>1
<1>10. CallInv' /\ BufferHolds' /\ EndRead' /\ Progress' /\ LocatesAsSlice'
  BY <1>1, <1>3, <1>9
     DEF CallInv, BufferHolds, EndRead, Progress, LocatesAsSlice
<1>11. QED
  BY <1>7, <1>8, <1>10 DEF RLInv

LEMMA LocationBegins == RLInit => RLInv
<1> SUFFICES ASSUME RLInit PROVE RLInv
  OBVIOUS
<1>1. SearchInv
  BY SearchBegins DEF RLInit
<1>2. /\ file \in Archives /\ signatures = DOMAIN file.ends /\ end_offset <= file.size
      /\ room \in Nat /\ len = Least(room, MaxWindow)
      /\ state \in {"refused", "searching"}
      /\ buffer = Blank /\ marked = FALSE /\ step = "search"
      /\ eocd = NoEnd /\ have = 0 /\ locator = 0 /\ archive = Plain(0, NoEnd)
      /\ answer = "none" /\ first_end = end_offset /\ faulted = FALSE
  BY SearchAssumption DEF RLInit, Init
<1>3. len <= room
  BY <1>2, SearchAssumption DEF Least
<1>4. eocd \in End /\ archive \in LocatedArchive
  BY <1>2 DEF NoEnd, End, Plain, LocatedArchive
<1>5. buffer \in [0..(room - 1) -> Nat \cup {Unknown}]
  BY <1>2 DEF Blank
<1>6. RLTypeOK
  BY <1>1, <1>2, <1>4, <1>5 DEF RLTypeOK, SearchInv, TypeOK
<1>7. CallInv /\ BufferHolds /\ EndRead /\ Progress /\ LocatesAsSlice
  BY <1>2, <1>3 DEF CallInv, BufferHolds, EndRead, Progress, LocatesAsSlice
<1>8. QED
  BY <1>1, <1>6, <1>7 DEF RLInv

LEMMA LocationPreserved == RLInv /\ [RLNext]_rlVars => RLInv'
<1> SUFFICES ASSUME RLInv, [RLNext]_rlVars PROVE RLInv'
  OBVIOUS
<1>1. CASE RLNext
  BY <1>1, KeepSearching, KeepNotFound, KeepFound, KeepParseEocd, KeepRereadEocd,
     KeepErrors, KeepComment, KeepLocator, KeepRecord, KeepPanic, KeepCheckFirst,
     KeepCheckGuess, KeepRetry DEF RLNext, Calls
<1>2. CASE UNCHANGED rlVars
  <2>1. /\ UNCHANGED <<vars, file, room, first_end>>
        /\ UNCHANGED <<buffer, marked, eocd, have, locator, archive, step, answer, faulted>>
    BY <1>2 DEF rlVars, callVars
  <2>2. SearchInv'
    BY <2>1, SearchKept
  <2>3. RLTypeOK' /\ CallInv'
    BY <2>1, <2>2 DEF RLInv, RLTypeOK, SearchInv, CallInv, vars, given
  <2>4. BufferHolds' /\ EndRead' /\ Progress' /\ LocatesAsSlice'
    BY <2>1 DEF RLInv, BufferHolds, EndRead, Progress, LocatesAsSlice, Adjacent, vars
  <2>5. QED
    BY <2>2, <2>3, <2>4 DEF RLInv
<1>3. QED
  BY <1>1, <1>2

(***************************************************************************)
(* Whatever the windows cut, is read again or fails to be read: what the   *)
(* search returns lies in the buffer, and an archive that the reader       *)
(* answers is the one the slice makes of the same signature.               *)
(***************************************************************************)
THEOREM LocationAlways == RLSpec => []RLInv
BY LocationBegins, LocationPreserved, PTL DEF RLSpec

(***************************************************************************)
(* The search inside of every call, first or repeated, finds the last      *)
(* signature in its range.                                                 *)
(***************************************************************************)
THEOREM EverySearchFindsLast == RLSpec => []FindsLast
<1>1. RLInv => FindsLast
  BY DEF RLInv, SearchInv
<1>2. QED
  BY <1>1, LocationAlways, PTL

-----------------------------------------------------------------------------
(* Errors, and the caller who searches on after them.                      *)

(***************************************************************************)
(* The signatures between the present end of the search and the first one  *)
(* belong to no archive.                                                   *)
(***************************************************************************)
Behind ==
  ~faulted /\ room >= Eocd64Size =>
    \A p \in signatures :
      p + Sig <= first_end /\ p + Sig > end_offset => ~SliceFinds(file, p)

\* An end record or a comment that is cut by the end of the file is cut for
\* the slice too.
LEMMA CutForSlice ==
  ASSUME RLInv, room >= Eocd64Size, RereadFails \/ CommentCut
  PROVE  ~SliceFinds(file, found.at)
<1>1. state = "found"
  BY DEF RereadFails, CommentCut, RLInv, CallInv
<1>2. PICK a, size, r \in Nat : a = found.at /\ size = file.size /\ r = room /\ a <= size
  BY <1>1, FoundFacts
<1>3. CASE RereadFails
  <2>1. ~(EocdSize <= r /\ EocdSize <= SaturatingSub(size, a))
    BY <1>2, <1>3 DEF RereadFails, Available
  <2>2. ~(a + EocdSize <= size)
    BY <1>2, <2>1, LocationAssumption DEF SaturatingSub
  <2>3. QED
    BY <1>2, <2>2 DEF SliceFinds, EndComplete
<1>4. CASE CommentCut
  <2>1. eocd = file.ends[found.at]
    BY <1>4 DEF CommentCut, RLInv, EndRead
  <2>2. QED
    BY <1>4, <2>1 DEF CommentCut, CommentReadable, SliceFinds, EndComplete
<1>5. QED
  BY <1>3, <1>4

\* Every error without a fault is one of the slice.
LEMMA ErrorsAreSlices ==
  ASSUME RecordsApart, RLInv, ErrsAsSlice, RLNext
  PROVE  ErrsAsSlice'
<1> SUFFICES ASSUME answer' = "error", ~faulted', room' >= Eocd64Size
             PROVE  ~SliceFinds(file', found'.at)
  BY DEF ErrsAsSlice
<1>1. CASE SearchStep \/ SearchFault \/ NotFound \/ Found \/ ParseEocd \/ RereadEocd
  BY <1>1 DEF SearchStep, SearchFault, NotFound, Found, ParseEocd, RereadEocd,
              RLInv, CallInv
<1>2. CASE RereadFails \/ CommentCut
  <2>1. UNCHANGED <<file, room, found>>
    BY <1>2 DEF RereadFails, CommentCut, Error, Fixed, vars
  <2>2. QED
    BY <1>2, <2>1, CutForSlice
<1>3. CASE ReadFault
  BY <1>3 DEF ReadFault, ReadError
<1>4. CASE Comment
  <2>1. UNCHANGED <<file, found>> /\ answer = "none"
    BY <1>4 DEF Comment, Fixed, vars, RLInv, CallInv
  <2>2. QED
    BY <1>4, <2>1, CommentOutcome DEF Located
<1>5. CASE Locator
  <2>1. UNCHANGED <<file, found>> /\ answer = "none"
    BY <1>5 DEF Locator, Fixed, vars, RLInv, CallInv
  <2>2. QED
    BY <1>5, <2>1, LocatorOutcome DEF Located
<1>6. CASE Record
  <2>1. UNCHANGED <<file, found, room>> /\ answer = "none"
    BY <1>6 DEF Record, Fixed, vars, RLInv, CallInv
  <2>2. QED
    BY <1>6, <2>1, RecordOutcome DEF Located
<1>7. CASE SlicePanics \/ CheckFirst \/ CheckGuess \/ Retry
  BY <1>7 DEF SlicePanics, CheckFirst, CheckGuess, Retry, RLInv, CallInv
<1>8. QED
  BY <1>1, <1>2, <1>3, <1>4, <1>5, <1>6, <1>7 DEF RLNext, Calls

(***************************************************************************)
(* Searching on in front of the reported position skips that signature     *)
(* only: two do not overlap, and the search has returned the last one.     *)
(***************************************************************************)
LEMMA RetrySkipsOne ==
  ASSUME RLInv, ErrsAsSlice, Behind, Retry
  PROVE  Behind'
<1>1. /\ answer = "error" /\ state = "found" /\ end_offset' = found.at
      /\ UNCHANGED <<signatures, file, room, first_end, faulted>>
  BY DEF Retry, RLInv, CallInv
<1> SUFFICES ASSUME ~faulted, room >= Eocd64Size,
                    NEW p \in signatures, p + Sig <= first_end, p + Sig > found.at
             PROVE  ~SliceFinds(file, p)
  BY <1>1 DEF Behind
<1>2. CASE p + Sig > end_offset
  BY <1>2 DEF Behind
<1>3. CASE ~(p + Sig > end_offset)
  <2>1. PICK a \in Nat : a = found.at
    BY <1>1, FoundFacts
  <2>2. /\ a \in signatures /\ max_back <= a
        /\ \A q \in signatures : InRange(q) => q <= a
    BY <1>1, <2>1 DEF RLInv, SearchInv, FindsLast, InRange
  <2>3. /\ p \in Nat /\ max_back \in Nat /\ end_offset \in Nat /\ Sig \in Nat
    BY SearchAssumption DEF RLInv, RLTypeOK, TypeOK
  <2>4. ~(p < a)
    <3>1. p < a => p + Sig <= a
      BY <2>2, SignatureAssumption DEF RLInv, RLTypeOK, CallInv
    <3>2. QED
      BY <2>1, <2>3, <3>1
  <2>5. InRange(p)
    BY <1>3, <2>2, <2>3, <2>4 DEF InRange
  <2>6. p = found.at
    BY <2>1, <2>2, <2>3, <2>4, <2>5
  <2>7. QED
    BY <1>1, <2>6 DEF ErrsAsSlice
<1>4. QED
  BY <1>2, <1>3

LEMMA ErrorsPreserved ==
  ASSUME RecordsApart
  PROVE  RLInv /\ ErrsAsSlice /\ Behind /\ [RLNext]_rlVars => (ErrsAsSlice /\ Behind)'
<1> SUFFICES ASSUME RLInv, ErrsAsSlice, Behind, [RLNext]_rlVars
             PROVE  ErrsAsSlice' /\ Behind'
  OBVIOUS
<1>1. CASE Retry
  BY <1>1, ErrorsAreSlices, RetrySkipsOne DEF RLNext, Calls
<1>2. CASE RLNext /\ ~Retry
  <2>1. /\ UNCHANGED <<signatures, end_offset, file, room, first_end>>
        /\ faulted => faulted'
    <3>1. CASE SearchStep \/ SearchFault
      BY <3>1 DEF SearchStep, SearchFault, Search, Hit, Miss, NothingToSearch,
                  ReadFails, given
    <3>2. CASE NotFound \/ Found \/ ParseEocd \/ RereadEocd
      BY <3>2 DEF NotFound, Found, ParseEocd, RereadEocd, Fixed, vars, given
    <3>3. CASE RereadFails \/ CommentCut \/ ReadFault
      BY <3>3 DEF RereadFails, CommentCut, ReadFault, Error, ReadError, Fixed,
                  vars, given
    <3>4. CASE Comment \/ Locator \/ Record \/ SlicePanics
      BY <3>4 DEF Comment, Locator, Record, SlicePanics, Fixed, vars, given
    <3>5. CASE CheckFirst \/ CheckGuess
      BY <3>5 DEF CheckFirst, CheckGuess, Sees, Fixed, vars, given
    <3>6. QED
      BY <1>2, <3>1, <3>2, <3>3, <3>4, <3>5 DEF RLNext, Calls
  <2>2. Behind'
    BY <2>1 DEF Behind
  <2>3. QED
    BY <1>2, <2>2, ErrorsAreSlices
<1>3. CASE UNCHANGED rlVars
  <2>1. UNCHANGED <<signatures, end_offset, found, file, room, first_end, faulted, answer>>
    BY <1>3 DEF rlVars, callVars, vars, given
  <2>2. QED
    BY <2>1 DEF ErrsAsSlice, Behind
<1>4. QED
  BY <1>1, <1>2, <1>3

LEMMA ErrorsBegin == RLInit => ErrsAsSlice /\ Behind
<1> SUFFICES ASSUME RLInit PROVE ErrsAsSlice /\ Behind
  OBVIOUS
<1>1. answer = "none" /\ first_end = end_offset
  BY DEF RLInit
<1>2. signatures \subseteq Nat /\ end_offset \in Nat
  BY SearchAssumption DEF RLInit, Init
<1>3. QED
  BY <1>1, <1>2, SearchAssumption DEF ErrsAsSlice, Behind

(***************************************************************************)
(* The reader and the slice agree: on archives, always, and on errors if   *)
(* no read failed and the buffer holds each record.                        *)
(***************************************************************************)
THEOREM LocatesLikeSlice == ASSUME RecordsApart PROVE RLSpec => []LocationSound
<1>1. RLInv /\ ErrsAsSlice => LocationSound
  BY DEF RLInv, LocationSound, AgreesWithSlice
<1>2. QED
  BY <1>1, LocationAlways, ErrorsBegin, ErrorsPreserved, PTL DEF RLSpec

(***************************************************************************)
(* A caller who searches on after every error is told that there is        *)
(* nothing only where there is nothing.                                    *)
(***************************************************************************)
THEOREM NothingMissed == ASSUME RecordsApart PROVE RLSpec => []RetriesMissNothing
<1>1. RLInv /\ Behind => RetriesMissNothing
  <2> SUFFICES ASSUME RLInv, Behind, state = "none", ~faulted, room >= Eocd64Size,
                      NEW p \in signatures, max_back <= p, p + Sig <= first_end
               PROVE  ~SliceFinds(file, p)
    BY DEF RetriesMissNothing
  <2>1. ~InRange(p)
    BY DEF RLInv, SearchInv, FindsLast
  <2>2. ~(p + Sig <= end_offset)
    BY <2>1 DEF InRange
  <2>3. p \in Nat /\ Sig \in Nat /\ end_offset \in Nat
    BY SearchAssumption DEF RLInv, RLTypeOK, TypeOK
  <2>4. p + Sig > end_offset
    BY <2>2, <2>3
  <2>5. QED
    BY <2>4 DEF Behind
<1>2. QED
  BY <1>1, LocationAlways, ErrorsBegin, ErrorsPreserved, PTL DEF RLSpec

=============================================================================
