-------------------------- MODULE CdIteratorProofs --------------------------
(***************************************************************************)
(* The buffered iterator over the central directory stays within its       *)
(* buffer and lists the directory, for every buffer length, every          *)
(* directory and every way in which reads are short.                       *)
(***************************************************************************)
EXTENDS CdIterator, TLAPS

(***************************************************************************)
(* The two steps between calls know where they are: a header to parse is   *)
(* complete, and the variable part awaited is that of the record whose     *)
(* header was the last thing taken from the buffer.                        *)
(***************************************************************************)
ParseReady == pc = "parse" => Remaining >= Fixed

Located ==
  pc = "variable" /\ ~Failed => current = offset - Remaining - Fixed

IteratorInv == TypeOK /\ InBounds /\ Contiguous /\ ParseReady /\ Located

(***************************************************************************)
(* Sizes, and the room for a refill, are natural numbers.                  *)
(***************************************************************************)
LEMMA Sizes ==
  ASSUME TypeOK, InBounds
  PROVE  /\ Fixed \in Nat \ {0} /\ len \in Nat /\ directory.end \in Nat
         /\ Remaining \in Nat /\ Remaining <= len
         /\ Room \in Nat /\ Remaining + Room <= len
         /\ Room <= directory.end - offset /\ Room <= len - Remaining
         /\ \A h \in DOMAIN directory.variable :
              h \in Nat /\ directory.variable[h] \in 0..MaxVariable
<1>1. /\ Fixed \in Nat \ {0} /\ MaxVariable \in Nat /\ len \in Nat
      /\ directory.end \in Nat
      /\ DOMAIN directory.variable \subseteq Nat
      /\ \A h \in DOMAIN directory.variable :
           directory.variable[h] \in 0..MaxVariable
  BY IteratorAssumption DEF TypeOK
<1>2. pos \in Nat /\ end \in Nat /\ offset \in Nat
      /\ pos <= end /\ end <= len /\ offset <= directory.end
  BY DEF TypeOK, InBounds
<1>3. Remaining \in Nat /\ Remaining <= len
  BY <1>1, <1>2 DEF Remaining
<1>4. /\ Room \in Nat /\ Room <= directory.end - offset
      /\ Room <= len - Remaining
  BY <1>1, <1>2, <1>3 DEF Room, Least
<1>5. QED
  BY <1>1, <1>3, <1>4

(***************************************************************************)
(* A refill leaves a buffer of the same length, whose front holds the      *)
(* unread bytes and the bytes read behind them, in file order.             *)
(***************************************************************************)
LEMMA Refills ==
  ASSUME TypeOK, InBounds, NEW n \in 0..Room
  PROVE  /\ Refilled(n) \in [0..(len - 1) -> Nat \cup {Junk}]
         /\ (\A i \in pos..(end - 1) : buffer[i] = offset - (end - i)) =>
              \A i \in 0..(Remaining + n - 1) :
                Refilled(n)[i] = (offset + n) - ((Remaining + n) - i)
<1>1. /\ pos \in Nat /\ end \in Nat /\ offset \in Nat /\ len \in Nat
      /\ pos <= end /\ end <= len /\ Remaining \in Nat /\ n \in Nat
      /\ Remaining + n <= len /\ Remaining = end - pos
  BY Sizes DEF TypeOK, InBounds, Remaining
<1>2. DOMAIN buffer = 0..(len - 1)
  BY DEF TypeOK
<1>3. \A i \in 0..(len - 1) : buffer[i] \in Nat \cup {Junk}
  BY DEF TypeOK
<1>4. \A i \in 0..(len - 1) :
        Refilled(n)[i] = IF i < Remaining THEN buffer[pos + i]
                         ELSE IF i < Remaining + n THEN offset + (i - Remaining)
                         ELSE buffer[i]
  BY <1>2 DEF Refilled
<1>5. \A i \in 0..(len - 1) : Refilled(n)[i] \in Nat \cup {Junk}
  <2> SUFFICES ASSUME NEW i \in 0..(len - 1)
               PROVE  Refilled(n)[i] \in Nat \cup {Junk}
    OBVIOUS
  <2>1. CASE i < Remaining
    <3>1. pos + i \in 0..(len - 1)
      BY <1>1, <2>1
    <3>2. QED
      BY <1>3, <1>4, <2>1, <3>1
  <2>2. CASE ~(i < Remaining) /\ i < Remaining + n
    BY <1>1, <1>4, <2>2
  <2>3. CASE ~(i < Remaining) /\ ~(i < Remaining + n)
    BY <1>3, <1>4, <2>3
  <2>4. QED
    BY <2>1, <2>2, <2>3
<1>6. Refilled(n) \in [0..(len - 1) -> Nat \cup {Junk}]
  BY <1>2, <1>5 DEF Refilled
<1>7. ASSUME \A i \in pos..(end - 1) : buffer[i] = offset - (end - i),
             NEW i \in 0..(Remaining + n - 1)
      PROVE  Refilled(n)[i] = (offset + n) - ((Remaining + n) - i)
  <2>1. i \in 0..(len - 1)
    BY <1>1
  <2>2. CASE i < Remaining
    <3>1. pos + i \in pos..(end - 1)
      BY <1>1, <2>2
    <3>2. buffer[pos + i] = offset - (end - (pos + i))
      BY <1>7, <3>1
    <3>3. QED
      BY <1>1, <1>4, <2>1, <2>2, <3>2
  <2>3. CASE ~(i < Remaining)
    BY <1>1, <1>4, <2>1, <2>3
  <2>4. QED
    BY <2>2, <2>3
<1>8. QED
  BY <1>6, <1>7

(***************************************************************************)
(* A call that fails leaves the iterator as far as it was.                 *)
(***************************************************************************)
LEMMA Failing ==
  ASSUME IteratorInv, NEW a \in Errors, Error(a), NEW m \in 0..Room,
         buffer' \in {buffer, Refilled(m)},
         end' = end, offset' = offset, pos' \in pos..end,
         current' \in Nat, UNCHANGED <<directory, len>>
  PROVE  IteratorInv' /\ Failed'
<1>1. Failed' /\ pc' = "idle" /\ error' \in Errors /\ answer' = a
      /\ UNCHANGED yielded
  BY DEF Error, Return, IteratorInv, TypeOK, Failed, Errors, NoError
<1>2. buffer' \in [0..(len - 1) -> Nat \cup {Junk}]
  BY Refills DEF IteratorInv, TypeOK
<1>3. pos' \in Nat /\ pos' <= end'
  BY DEF IteratorInv, TypeOK
<1>4. TypeOK'
  BY <1>1, <1>2, <1>3 DEF IteratorInv, TypeOK, Answers
<1>5. InBounds'
  BY <1>1, <1>3 DEF IteratorInv, InBounds
<1>6. (Contiguous /\ ParseReady /\ Located)'
  BY <1>1 DEF Contiguous, ParseReady, Located
<1>7. QED
  BY <1>1, <1>4, <1>5, <1>6 DEF IteratorInv

LEMMA ReadFailing ==
  ASSUME IteratorInv, NEW size \in Nat, ReadFails(size),
         UNCHANGED <<directory, len>>
  PROVE  IteratorInv' /\ Failed'
<1>1. /\ UNCHANGED <<pos, end, offset, current>>
      /\ pos' \in pos..end /\ current' \in Nat /\ Room \in Nat
  BY Sizes DEF ReadFails, IteratorInv, TypeOK, InBounds
<1>2. CASE buffer' = Refilled(0) /\ Error("BufferTooSmall")
  <2>1. 0 \in 0..Room /\ "BufferTooSmall" \in Errors
    BY <1>1 DEF Errors
  <2>2. QED
    BY <1>1, <1>2, <2>1, Failing
<1>3. ASSUME size <= Room, NEW n \in 0..(size - 1), buffer' = Refilled(n),
             Error("Io")
      PROVE  IteratorInv' /\ Failed'
  <2>1. n \in 0..Room /\ "Io" \in Errors
    BY <1>1, <1>3 DEF Errors
  <2>2. QED
    BY <1>1, <1>3, <2>1, Failing
<1>4. QED
  BY <1>2, <1>3 DEF ReadFails

LEMMA IteratorInit == Init => IteratorInv
<1> SUFFICES ASSUME Init PROVE IteratorInv
  OBVIOUS
<1>1. len \in Nat /\ directory.end \in Nat
  BY IteratorAssumption DEF Init
<1>2. buffer \in [0..(len - 1) -> Nat \cup {Junk}]
  BY DEF Init
<1>3. TypeOK
  BY <1>2 DEF Init, TypeOK, Answers
<1>4. InBounds
  BY <1>1 DEF Init, InBounds
<1>5. Contiguous /\ ParseReady /\ Located
  BY DEF Init, Contiguous, ParseReady, Located
<1>6. QED
  BY <1>3, <1>4, <1>5 DEF IteratorInv

(***************************************************************************)
(* A refill that succeeds keeps its place in the file.                     *)
(***************************************************************************)
LEMMA Refilling ==
  ASSUME IteratorInv, ReadAtLeast(Fixed), pc' = "parse",
         UNCHANGED <<directory, len, current, answer, history>>
  PROVE  /\ IteratorInv'
         /\ offset' - Remaining' = offset - Remaining
<1>1. PICK n \in Fixed..Room :
        /\ buffer' = Refilled(n)
        /\ offset' = offset + n /\ pos' = 0 /\ end' = Remaining + n
  BY DEF ReadAtLeast
<1>2. /\ Remaining \in Nat /\ Room \in Nat /\ Remaining + Room <= len
      /\ Room <= directory.end - offset /\ offset \in Nat
      /\ Fixed \in Nat /\ len \in Nat /\ directory.end \in Nat
  BY Sizes DEF IteratorInv, TypeOK
<1>3. n \in 0..Room /\ n \in Nat /\ n >= Fixed /\ Remaining' = Remaining + n
  BY <1>1, <1>2 DEF Remaining
<1>4. TypeOK'
  <2>1. buffer' \in [0..(len - 1) -> Nat \cup {Junk}]
    BY <1>1, <1>3, Refills DEF IteratorInv
  <2>2. QED
    BY <1>1, <1>2, <1>3, <2>1 DEF IteratorInv, TypeOK, history
<1>5. InBounds'
  BY <1>1, <1>2, <1>3 DEF InBounds
<1>6. Contiguous'
  <2> SUFFICES ASSUME ~Failed', NEW i \in pos'..(end' - 1)
               PROVE  buffer'[i] = offset' - (end' - i)
    BY DEF Contiguous
  <2>1. \A j \in pos..(end - 1) : buffer[j] = offset - (end - j)
    BY DEF IteratorInv, Contiguous, Failed, history
  <2>2. \A j \in 0..(Remaining + n - 1) :
          Refilled(n)[j] = (offset + n) - ((Remaining + n) - j)
    BY <1>3, <2>1, Refills DEF IteratorInv
  <2>3. i \in 0..(Remaining + n - 1)
    BY <1>1, <1>2, <1>3
  <2>4. Refilled(n)[i] = (offset + n) - ((Remaining + n) - i)
    BY <2>2, <2>3
  <2>5. QED
    BY <1>1, <2>4
<1>7. ParseReady' /\ Located'
  BY <1>2, <1>3 DEF ParseReady, Located
<1>8. offset' - Remaining' = offset - Remaining
  BY <1>1, <1>2, <1>3
<1>9. QED
  BY <1>4, <1>5, <1>6, <1>7, <1>8 DEF IteratorInv

(***************************************************************************)
(* What a header that parses says of the place: it is where the unread     *)
(* bytes begin in the file.                                                *)
(***************************************************************************)
LEMMA Parsed ==
  ASSUME IteratorInv, NEW h, Parsing, HeaderIs(h)
  PROVE  /\ h \in DOMAIN directory.variable /\ h \in Nat
         /\ directory.variable[h] \in Nat
         /\ Remaining \in Nat /\ Remaining >= Fixed
         /\ ~Failed => h = offset - Remaining
<1>1. h \in DOMAIN directory.variable /\ Remaining >= Fixed
  BY DEF HeaderIs
<1>2. /\ h \in Nat /\ Remaining \in Nat /\ Fixed \in Nat \ {0}
      /\ directory.variable[h] \in 0..MaxVariable /\ MaxVariable \in Nat
  BY <1>1, Sizes, IteratorAssumption DEF IteratorInv
<1>3. ASSUME ~Failed PROVE h = offset - Remaining
  <2>1. buffer[pos + 0] = h + 0
    BY <1>2 DEF HeaderIs
  <2>2. pos \in Nat /\ end \in Nat /\ offset \in Nat /\ pos <= end - 1
    BY <1>1, <1>2 DEF IteratorInv, TypeOK, Remaining
  <2>3. pos \in pos..(end - 1) /\ pos + 0 = pos /\ h + 0 = h
    BY <1>2, <2>2
  <2>4. buffer[pos] = offset - (end - pos)
    BY <1>3, <2>3 DEF IteratorInv, Contiguous
  <2>5. QED
    BY <2>1, <2>3, <2>4 DEF Remaining
<1>4. QED
  BY <1>1, <1>2, <1>3

(***************************************************************************)
(* A record that lies in the buffer is returned.                           *)
(***************************************************************************)
LEMMA Yielding ==
  ASSUME IteratorInv, NEW h, Parsing, HeaderIs(h), current' = h,
         pos + Fixed + directory.variable[h] <= end, Yield(h, pos + Fixed),
         UNCHANGED <<directory, len, buffer, end, offset>>
  PROVE  /\ IteratorInv'
         /\ h + Fixed + directory.variable[h] <= offset \/ Failed
         /\ Failed' = Failed /\ yielded' = Append(yielded, h)
         /\ pc' = "idle" /\ answer' = "record"
         /\ Remaining' = Remaining - Fixed - directory.variable[h]
<1> DEFINE v == directory.variable[h]
<1>1. /\ h \in Nat /\ v \in Nat /\ Fixed \in Nat /\ Remaining \in Nat
      /\ pos \in Nat /\ end \in Nat /\ offset \in Nat /\ end <= len
  BY Parsed, Sizes DEF IteratorInv, TypeOK, InBounds
<1>2. /\ pos' = pos + Fixed + v /\ pc' = "idle" /\ answer' = "record"
      /\ yielded' = Append(yielded, h) /\ UNCHANGED error
  BY DEF Yield, Return
<1>3. pos' \in Nat /\ pos <= pos' /\ pos' <= end
  BY <1>1, <1>2
<1>4. TypeOK'
  BY <1>1, <1>2, <1>3 DEF IteratorInv, TypeOK, Answers
<1>5. InBounds'
  BY <1>2, <1>3 DEF IteratorInv, InBounds
<1>6. Contiguous'
  <2> SUFFICES ASSUME ~Failed, NEW i \in pos'..(end - 1)
               PROVE  buffer[i] = offset - (end - i)
    BY <1>2 DEF Contiguous, Failed
  <2>1. i \in pos..(end - 1)
    BY <1>1, <1>3
  <2>2. QED
    BY <2>1 DEF IteratorInv, Contiguous
<1>7. ParseReady' /\ Located' /\ Failed' = Failed
  BY <1>2 DEF ParseReady, Located, Failed
<1>8. Remaining' = Remaining - Fixed - v
  BY <1>1, <1>2 DEF Remaining
<1>9. ~Failed => h + Fixed + v <= offset
  BY <1>1, Parsed DEF Remaining
<1>10. QED
  BY <1>2, <1>4, <1>5, <1>6, <1>7, <1>8, <1>9 DEF IteratorInv

(***************************************************************************)
(* A header whose variable part is not buffered is taken from the buffer.  *)
(***************************************************************************)
LEMMA Awaiting ==
  ASSUME IteratorInv, NEW h, Parsing, HeaderIs(h), current' = h,
         pos + Fixed + directory.variable[h] > end, pos' = pos + Fixed,
         directory.variable[h] <= len, ~BeyondDirectory(h),
         pc' = "variable", UNCHANGED <<answer, history>>,
         UNCHANGED <<directory, len, buffer, end, offset>>
  PROVE  IteratorInv' /\ Remaining' = Remaining - Fixed
<1> DEFINE v == directory.variable[h]
<1>1. /\ h \in DOMAIN directory.variable /\ h \in Nat /\ v \in Nat
      /\ Fixed \in Nat \ {0} /\ len \in Nat /\ directory.end \in Nat
      /\ Remaining \in Nat /\ Remaining >= Fixed
      /\ ~Failed => h = offset - Remaining
  BY Parsed, Sizes DEF IteratorInv
<1>2. /\ pos \in Nat /\ end \in Nat /\ offset \in Nat /\ end <= len
      /\ offset <= directory.end
  BY DEF IteratorInv, TypeOK, InBounds
<1>3. pos' \in Nat /\ pos < pos' /\ pos' <= end
  BY <1>1, <1>2 DEF Remaining
<1>4. TypeOK'
  BY <1>1, <1>3 DEF IteratorInv, TypeOK, history
<1>5. Remaining' = Remaining - Fixed /\ Remaining' < v
  BY <1>1, <1>2 DEF Remaining
<1>6. v - Remaining' <= Room'
  <2>1. v <= Remaining' + (directory.end - offset)
    BY <1>1, <1>2, <1>5 DEF BeyondDirectory
  <2>2. Room' = Least(directory.end - offset, len - Remaining')
    BY DEF Room, Least
  <2>3. QED
    BY <1>1, <1>2, <1>5, <2>1, <2>2 DEF Least
<1>7. InBounds'
  BY <1>1, <1>2, <1>3, <1>5, <1>6 DEF InBounds
<1>8. Contiguous'
  <2> SUFFICES ASSUME ~Failed, NEW i \in pos'..(end - 1)
               PROVE  buffer[i] = offset - (end - i)
    BY DEF Contiguous, Failed, history
  <2>1. i \in pos..(end - 1)
    BY <1>2, <1>3
  <2>2. QED
    BY <2>1 DEF IteratorInv, Contiguous
<1>9. ParseReady'
  BY DEF ParseReady
<1>10. Located'
  BY <1>1, <1>2, <1>5 DEF Located, Failed, history
<1>11. QED
  BY <1>4, <1>5, <1>7, <1>8, <1>9, <1>10 DEF IteratorInv

(***************************************************************************)
(* The variable part arrives and the record is returned.                   *)
(***************************************************************************)
LEMMA Completing ==
  ASSUME IteratorInv, pc = "variable",
         NEW n \in (directory.variable[current] - Remaining)..Room,
         buffer' = Refilled(n), offset' = offset + n, end' = Remaining + n,
         Yield(current, 0), UNCHANGED <<directory, len, current>>
  PROVE  /\ IteratorInv'
         /\ current \in DOMAIN directory.variable
         /\ current + Fixed + directory.variable[current] <= offset' \/ Failed
         /\ Failed' = Failed /\ yielded' = Append(yielded, current)
         /\ pc' = "idle" /\ answer' = "record"
         /\ offset' - Remaining' = (offset - Remaining) + directory.variable[current]
<1> DEFINE v == directory.variable[current]
<1>1. /\ current \in DOMAIN directory.variable /\ Remaining < v /\ v - Remaining <= Room
  BY DEF IteratorInv, InBounds
<1>2. /\ current \in Nat /\ v \in Nat /\ Fixed \in Nat /\ Remaining \in Nat
      /\ Room \in Nat /\ Remaining + Room <= len /\ Room <= directory.end - offset
      /\ offset \in Nat /\ len \in Nat /\ directory.end \in Nat
  <2>1. v \in 0..MaxVariable
    BY <1>1, Sizes DEF IteratorInv
  <2>2. v \in Nat
    BY <2>1, IteratorAssumption
  <2>3. QED
    BY <1>1, <2>2, Sizes DEF IteratorInv, TypeOK
<1>3. n \in 0..Room /\ n \in Nat /\ v <= Remaining + n
  BY <1>1, <1>2
<1>4. /\ pos' = v /\ pc' = "idle" /\ answer' = "record"
      /\ yielded' = Append(yielded, current) /\ UNCHANGED error
  BY <1>2 DEF Yield, Return
<1>5. TypeOK'
  <2>1. buffer' \in [0..(len - 1) -> Nat \cup {Junk}]
    BY <1>3, Refills DEF IteratorInv
  <2>2. QED
    BY <1>2, <1>3, <1>4, <2>1 DEF IteratorInv, TypeOK, Answers
<1>6. InBounds'
  BY SMTT(60), <1>2, <1>3, <1>4 DEF InBounds
<1>7. Contiguous'
  <2> SUFFICES ASSUME ~Failed', NEW i \in pos'..(end' - 1)
               PROVE  buffer'[i] = offset' - (end' - i)
    BY DEF Contiguous
  <2>1. \A j \in pos..(end - 1) : buffer[j] = offset - (end - j)
    BY <1>4 DEF IteratorInv, Contiguous, Failed
  <2>2. i \in 0..(Remaining + n - 1)
    BY <1>2, <1>3, <1>4
  <2>3. Refilled(n)[i] = (offset + n) - ((Remaining + n) - i)
    BY <1>3, <2>1, <2>2, Refills DEF IteratorInv
  <2>4. QED
    BY <2>3
<1>8. ParseReady' /\ Located' /\ Failed' = Failed
  BY <1>4 DEF ParseReady, Located, Failed
<1>9. Remaining' = Remaining + n - v
  BY <1>2, <1>3, <1>4 DEF Remaining
<1>10. ~Failed => current + Fixed + v <= offset'
  <2>1. ~Failed => current = offset - Remaining - Fixed
    BY DEF IteratorInv, Located
  <2>2. QED
    BY <1>2, <1>3, <2>1
<1>11. offset' - Remaining' = (offset - Remaining) + v
  BY <1>2, <1>3, <1>9
<1>12. IteratorInv'
  BY <1>5, <1>6, <1>7, <1>8 DEF IteratorInv
<1>13. QED
  BY <1>1, <1>4, <1>8, <1>10, <1>11, <1>12

-----------------------------------------------------------------------------
(* Every step keeps the invariant and is a step of DirectoryListing.       *)

Lists == Listing!Next \/ UNCHANGED Listing!vars

LEMMA ListsFailure ==
  ASSUME Failed', UNCHANGED directory PROVE Lists
BY DEF Lists, Listing!Next, Listing!Fail

LEMMA ListsPlace ==
  ASSUME UNCHANGED <<directory, yielded>>, Failed' = Failed, Cursor' = Cursor
  PROVE  Lists
BY DEF Lists, Listing!vars

LEMMA ListsRecord ==
  ASSUME ~Failed, ~Failed', UNCHANGED directory,
         Cursor \in DOMAIN directory.variable,
         Cursor + Fixed + directory.variable[Cursor] <= directory.end,
         yielded' = Append(yielded, Cursor),
         Cursor' = Cursor + Fixed + directory.variable[Cursor]
  PROVE  Lists
<1>1. Listing!RecordAt(Cursor)
  BY DEF Listing!RecordAt
<1>2. Failed' = Failed
  BY DEF Failed
<1>3. Listing!Yield
  BY <1>1, <1>2 DEF Listing!Yield
<1>4. QED
  BY <1>3 DEF Lists, Listing!Next

LEMMA RefillSteps ==
  ASSUME IteratorInv, Refill PROVE IteratorInv' /\ Lists
<1>1. CASE ReadAtLeast(Fixed) /\ pc' = "parse" /\ UNCHANGED <<current, answer, history>>
  <2>1. IteratorInv' /\ offset' - Remaining' = offset - Remaining
    BY <1>1, Refilling DEF Refill
  <2>2. Cursor' = Cursor /\ Failed' = Failed /\ UNCHANGED <<directory, yielded>>
    BY <1>1, <2>1 DEF Refill, Cursor, Failed, history
  <2>3. QED
    BY <2>1, <2>2, ListsPlace
<1>2. CASE ReadFails(Fixed)
  <2>1. UNCHANGED <<directory, len>> /\ Fixed \in Nat
    BY IteratorAssumption DEF Refill
  <2>2. QED
    BY <1>2, <2>1, ReadFailing, ListsFailure
<1>3. QED
  BY <1>1, <1>2 DEF Refill

LEMMA ParseFailsSteps ==
  ASSUME IteratorInv, ParseFails PROVE IteratorInv' /\ Lists
<1>1. PICK a \in {"Eof", "InvalidSignature"} : Error(a)
  BY DEF ParseFails
<1>2. /\ a \in Errors /\ 0 \in 0..Room /\ pos \in pos..end
      /\ UNCHANGED <<directory, len, buffer, pos, end, offset, current>>
      /\ current' \in Nat
  BY Sizes DEF ParseFails, Errors, IteratorInv, TypeOK, InBounds
<1>3. IteratorInv' /\ Failed'
  BY <1>1, <1>2, Failing
<1>4. QED
  BY <1>2, <1>3, ListsFailure

LEMMA ParseHeaderSteps ==
  ASSUME IteratorInv, NEW h \in DOMAIN directory.variable, ParseHeader(h)
  PROVE  IteratorInv' /\ Lists
<1> DEFINE v == directory.variable[h]
<1>1. /\ Parsing /\ HeaderIs(h) /\ current' = h
      /\ UNCHANGED <<directory, len, buffer, end, offset>>
  BY DEF ParseHeader
<1>2. /\ h \in Nat /\ v \in Nat /\ Remaining \in Nat /\ Remaining >= Fixed
      /\ Fixed \in Nat \ {0} /\ offset \in Nat /\ directory.end \in Nat
      /\ offset <= directory.end
      /\ pos \in Nat /\ end \in Nat
      /\ ~Failed => h = offset - Remaining
  BY <1>1, Parsed, Sizes DEF IteratorInv, TypeOK, InBounds
<1>3. ~Failed => h = Cursor
  BY <1>1, <1>2 DEF Cursor, Parsing
<1>4. CASE pos + Fixed + v <= end /\ Yield(h, pos + Fixed)
  <2>1. /\ IteratorInv' /\ Failed' = Failed
        /\ h + Fixed + v <= offset \/ Failed
        /\ yielded' = Append(yielded, h) /\ pc' = "idle"
        /\ Remaining' = Remaining - Fixed - v
    BY <1>1, <1>4, Yielding
  <2>2. CASE Failed
    BY <1>1, <2>1, <2>2, ListsFailure
  <2>3. CASE ~Failed
    <3>1. Cursor' = h + Fixed + v
      BY <1>1, <1>2, <2>1, <2>3 DEF Cursor
    <3>2. h + Fixed + v <= directory.end
      BY <1>2, <2>1, <2>3
    <3>3. QED
      BY <1>1, <1>3, <2>1, <2>3, <3>1, <3>2, ListsRecord
  <2>4. QED
    BY <2>2, <2>3
<1>5. CASE /\ pos + Fixed + v > end /\ pos' = pos + Fixed
           /\ Error("BufferTooSmall") \/ Error("Eof")
  <2>1. PICK a \in {"BufferTooSmall", "Eof"} : Error(a)
    BY <1>5
  <2>2. a \in Errors /\ 0 \in 0..Room /\ pos' \in pos..end /\ current' \in Nat
    BY <1>1, <1>2, <1>5, Sizes DEF Errors, Remaining, IteratorInv
  <2>3. IteratorInv' /\ Failed'
    BY <1>1, <2>1, <2>2, Failing
  <2>4. QED
    BY <1>1, <2>3, ListsFailure
<1>6. CASE /\ pos + Fixed + v > end /\ pos' = pos + Fixed
           /\ v <= len /\ ~BeyondDirectory(h)
           /\ pc' = "variable" /\ UNCHANGED <<answer, history>>
  <2>1. IteratorInv'
    BY <1>1, <1>6, Awaiting
  <2>2. Failed' = Failed /\ UNCHANGED <<directory, yielded>> /\ Cursor' = h
    BY <1>1, <1>6 DEF Failed, history, Cursor
  <2>3. QED
    BY <1>3, <2>1, <2>2, ListsFailure, ListsPlace
<1>7. QED
  BY <1>4, <1>5, <1>6 DEF ParseHeader

LEMMA ReadVariableSteps ==
  ASSUME IteratorInv, ReadVariable PROVE IteratorInv' /\ Lists
<1> DEFINE v == directory.variable[current]
           missing == v - Remaining
<1>1. /\ pc = "variable" /\ UNCHANGED <<directory, len>>
      /\ current \in DOMAIN directory.variable
      /\ Remaining < v /\ missing <= Room
  BY DEF ReadVariable, IteratorInv, InBounds
<1>2. v \in 0..MaxVariable /\ MaxVariable \in Nat /\ Remaining \in Nat
      /\ Fixed \in Nat /\ directory.end \in Nat /\ Room \in Nat
      /\ Room <= directory.end - offset /\ offset \in Nat
  BY <1>1, Sizes, IteratorAssumption DEF IteratorInv, TypeOK
<1>3. missing \in Nat
  BY <1>1, <1>2
<1>4. ASSUME NEW n \in missing..Room, buffer' = Refilled(n),
             offset' = offset + n, end' = Remaining + n,
             Yield(current, 0), UNCHANGED current
      PROVE  IteratorInv' /\ Lists
  <2>1. /\ IteratorInv'
        /\ current + Fixed + v <= offset' \/ Failed
        /\ Failed' = Failed /\ yielded' = Append(yielded, current)
        /\ pc' = "idle"
        /\ offset' - Remaining' = (offset - Remaining) + v
    BY <1>1, <1>4, Completing
  <2>2. CASE Failed
    BY <1>1, <2>1, <2>2, ListsFailure
  <2>3. CASE ~Failed
    <3>1. current = offset - Remaining - Fixed /\ Cursor = current
      BY <1>1, <2>3 DEF IteratorInv, Located, Cursor
    <3>2. Cursor' = current + Fixed + v
      <4>1. Cursor' = offset' - Remaining'
        BY <2>1 DEF Cursor
      <4>2. QED
        BY <1>2, <2>1, <3>1, <4>1
    <3>3. current + Fixed + v <= directory.end
      <4>1. n \in Int /\ n <= Room
        BY <1>2, <1>3, <1>4
      <4>2. current + Fixed + v <= offset + n /\ current \in Int
        BY <1>2, <1>4, <2>1, <2>3, <3>1
      <4>3. QED
        BY <1>2, <4>1, <4>2
    <3>4. QED
      BY <1>1, <2>1, <2>3, <3>1, <3>2, <3>3, ListsRecord
  <2>4. QED
    BY <2>2, <2>3
<1>5. CASE ReadFails(missing)
  <2>1. IteratorInv' /\ Failed'
    BY <1>1, <1>3, <1>5, ReadFailing
  <2>2. QED
    BY <1>1, <2>1, ListsFailure
<1>6. QED
  BY <1>4, <1>5 DEF ReadVariable

LEMMA IteratorStep == IteratorInv /\ [Next]_vars => IteratorInv' /\ Lists
<1> SUFFICES ASSUME IteratorInv, [Next]_vars
             PROVE  IteratorInv' /\ Lists
  OBVIOUS
<1>1. CASE CallEnds
  <2>1. /\ UNCHANGED <<directory, len, buffer, pos, end, offset, current, history>>
        /\ pc' = pc /\ pc = "idle" /\ answer' = "end"
    BY <1>1 DEF CallEnds, Return
  <2>2. IteratorInv'
    BY <2>1 DEF IteratorInv, TypeOK, InBounds, Contiguous, ParseReady, Located,
                Remaining, Room, Least, Failed, history, Answers
  <2>3. UNCHANGED <<directory, yielded>> /\ Failed' = Failed /\ Cursor' = Cursor
    BY <2>1 DEF Cursor, Remaining, Failed, history
  <2>4. QED
    BY <2>2, <2>3, ListsPlace
<1>2. CASE Refill
  BY <1>2, RefillSteps
<1>3. CASE ParseFails
  BY <1>3, ParseFailsSteps
<1>4. ASSUME NEW h \in DOMAIN directory.variable, ParseHeader(h)
      PROVE  IteratorInv' /\ Lists
  BY <1>4, ParseHeaderSteps
<1>5. CASE ReadVariable
  BY <1>5, ReadVariableSteps
<1>6. CASE UNCHANGED vars
  <2>1. IteratorInv'
    BY <1>6 DEF vars, IteratorInv, TypeOK, InBounds, Contiguous, ParseReady,
                Located, Remaining, Room, Least, Failed, history
  <2>2. UNCHANGED <<directory, yielded>> /\ Failed' = Failed /\ Cursor' = Cursor
    BY <1>6 DEF vars, Cursor, Remaining, Failed, history
  <2>3. QED
    BY <2>1, <2>2, ListsPlace
<1>7. QED
  BY <1>1, <1>2, <1>3, <1>4, <1>5, <1>6 DEF Next, Step

-----------------------------------------------------------------------------
(* Where the answers "end" and "too small" can be given.                   *)

TwoHeaders == len >= 2 * Fixed /\ len >= MaxVariable

Answered ==
  /\ answer = "end" => pc = "idle" /\ NeedsHeader /\ Exhausted
  /\ answer = "BufferTooSmall" /\ TwoHeaders =>
       /\ pc = "idle" /\ NeedsHeader /\ ~Exhausted
       /\ directory.end - offset < Fixed

\* After one of the two answers there is only this step, again and again.
LEMMA AnsweredStep == IteratorInv /\ Answered /\ [Next]_vars => Answered'
<1> SUFFICES ASSUME IteratorInv, Answered, [Next]_vars
             PROVE  Answered'
  OBVIOUS
<1>0. /\ Fixed \in Nat \ {0} /\ len \in Nat /\ MaxVariable \in Nat
      /\ directory.end \in Nat /\ offset \in Nat /\ pos \in Nat /\ end \in Nat
      /\ offset <= directory.end
      /\ \A h \in DOMAIN directory.variable : directory.variable[h] \in 0..MaxVariable
  BY Sizes, IteratorAssumption DEF IteratorInv, TypeOK, InBounds
<1>1. CASE CallEnds
  BY <1>1 DEF CallEnds, Return, Answered, NeedsHeader, Exhausted
<1>2. CASE Refill
  <2>1. CASE ReadAtLeast(Fixed) /\ pc' = "parse" /\ UNCHANGED <<current, answer, history>>
    <3>1. answer # "end"
      BY <1>2 DEF Refill, Answered
    <3>2. Fixed <= Room
      BY <2>1 DEF ReadAtLeast
    <3>3. directory.end - offset >= Fixed
      BY <1>0, <3>2, Sizes DEF IteratorInv
    <3>4. ~(answer = "BufferTooSmall" /\ TwoHeaders)
      BY <1>0, <3>3 DEF Answered
    <3>5. UNCHANGED len
      BY <1>2 DEF Refill
    <3>6. QED
      BY <2>1, <3>1, <3>4, <3>5 DEF Answered, TwoHeaders
  <2>2. CASE ReadFails(Fixed)
    <3>1. /\ UNCHANGED <<directory, len, pos, end, offset>> /\ pc' = "idle"
          /\ NeedsHeader /\ ~Exhausted /\ answer' \in {"Io", "BufferTooSmall"}
      BY <1>2, <2>2 DEF Refill, ReadFails, Error, Return
    <3>2. (NeedsHeader /\ ~Exhausted)'
      BY <3>1 DEF NeedsHeader, Exhausted
    <3>3. answer' = "BufferTooSmall" => Fixed > Room
      BY <2>2 DEF ReadFails, Error, Return
    <3>4. Fixed > Room /\ TwoHeaders => directory.end - offset < Fixed
      <4>1. Remaining <= Fixed
        BY <1>0, <3>1 DEF NeedsHeader, Remaining
      <4>2. Remaining \in Nat
        BY Sizes DEF IteratorInv
      <4>3. QED
        BY <1>0, <4>1, <4>2 DEF Room, Least, TwoHeaders
    <3>5. answer' # "end"
      BY <3>1
    <3>6. TwoHeaders' = TwoHeaders
      BY <3>1 DEF TwoHeaders
    <3>7. QED
      BY <3>1, <3>2, <3>3, <3>4, <3>5, <3>6 DEF Answered
  <2>3. QED
    BY <1>2, <2>1, <2>2 DEF Refill
<1>3. CASE ParseFails
  BY <1>3 DEF ParseFails, Error, Return, Answered
<1>4. ASSUME NEW h \in DOMAIN directory.variable, ParseHeader(h)
      PROVE  Answered'
  <2>1. Parsing /\ UNCHANGED len
    BY <1>4 DEF ParseHeader
  <2>2. answer # "end" /\ ~(answer = "BufferTooSmall" /\ TwoHeaders)
    BY <2>1 DEF Answered, Parsing
  <2>3. CASE answer' = "BufferTooSmall" /\ directory.variable[h] > len
    <3>1. ~TwoHeaders'
      BY <1>0, <2>1, <2>3 DEF TwoHeaders
    <3>2. QED
      BY <2>3, <3>1 DEF Answered
  <2>4. CASE answer' \in {"record", "Eof"}
    BY <2>4 DEF Answered
  <2>5. CASE UNCHANGED answer
    BY <2>1, <2>2, <2>5 DEF Answered, TwoHeaders
  <2>6. QED
    BY <1>4, <2>3, <2>4, <2>5 DEF ParseHeader, Yield, Error, Return
<1>5. CASE ReadVariable
  <2>1. directory.variable[current] - Remaining <= Room
    BY <1>5 DEF ReadVariable, IteratorInv, InBounds
  <2>2. directory.variable[current] - Remaining \in Int /\ Room \in Int
    BY <1>0, <1>5, Sizes DEF ReadVariable, IteratorInv, InBounds
  <2>3. answer' \in {"record", "Io"}
    BY <1>5, <2>1, <2>2 DEF ReadVariable, ReadFails, Yield, Error, Return
  <2>4. QED
    BY <2>3 DEF Answered
<1>6. CASE UNCHANGED vars
  BY <1>6 DEF vars, Answered, NeedsHeader, Exhausted, TwoHeaders
<1>7. QED
  BY <1>1, <1>2, <1>3, <1>4, <1>5, <1>6 DEF Next, Step

LEMMA AnsweredShows ==
  ASSUME IteratorInv, Answered PROVE EndsNearEnd /\ TooSmallOnlyNearEnd
<1>0. /\ Fixed \in Nat \ {0} /\ directory.end \in Nat /\ offset \in Nat
      /\ pos \in Nat /\ end \in Nat /\ offset <= directory.end
  BY Sizes DEF IteratorInv, TypeOK, InBounds
<1>1. EndsNearEnd
  BY <1>0 DEF Answered, EndsNearEnd, Listing!AtEnd, Cursor, Remaining,
              NeedsHeader, Exhausted
<1>2. TooSmallOnlyNearEnd
  BY <1>0 DEF Answered, TooSmallOnlyNearEnd, TwoHeaders, Exhausted
<1>3. QED
  BY <1>1, <1>2

-----------------------------------------------------------------------------
(* A well-formed directory is not called malformed.                        *)

OnRecord ==
  WellFormed(directory) =>
    /\ error \notin {"Eof", "InvalidSignature"}
    /\ ~Failed => Cursor \in DOMAIN directory.variable \cup {directory.end}

\* While records are where they belong, a header that is at hand parses.
LEMMA NoParseFailure ==
  ASSUME IteratorInv, WellFormed(directory), ~Failed, Parsing,
         Cursor \in DOMAIN directory.variable \cup {directory.end}
  PROVE  \E h \in DOMAIN directory.variable : HeaderIs(h)
<1>1. /\ Fixed \in Nat \ {0} /\ directory.end \in Nat /\ offset \in Nat
      /\ pos \in Nat /\ end \in Nat /\ offset <= directory.end
      /\ Remaining \in Nat
  BY Sizes DEF IteratorInv, TypeOK, InBounds
<1>2. Remaining >= Fixed
  BY <1>1 DEF Parsing, IteratorInv, ParseReady, NeedsHeader, Remaining
<1>3. Cursor = offset - Remaining
  BY DEF Cursor, Parsing
<1>4. Cursor \in DOMAIN directory.variable
  BY <1>1, <1>2, <1>3
<1>5. ASSUME NEW i \in 0..(Fixed - 1) PROVE buffer[pos + i] = Cursor + i
  <2>1. pos + i \in pos..(end - 1)
    BY <1>1, <1>2 DEF Remaining
  <2>2. buffer[pos + i] = offset - (end - (pos + i))
    BY <2>1 DEF IteratorInv, Contiguous
  <2>3. QED
    BY <1>1, <1>3, <2>2 DEF Remaining
<1>6. HeaderIs(Cursor)
  BY <1>2, <1>4, <1>5 DEF HeaderIs
<1>7. QED
  BY <1>4, <1>6

LEMMA NoEof ==
  ASSUME IteratorInv, WellFormed(directory), ~Failed, Parsing,
         NEW h \in DOMAIN directory.variable, HeaderIs(h)
  PROVE  ~BeyondDirectory(h)
<1>1. /\ Fixed \in Nat \ {0} /\ directory.end \in Nat /\ offset \in Nat
      /\ Remaining \in Nat /\ directory.variable[h] \in Nat /\ h \in Nat
      /\ h = offset - Remaining
  BY Sizes, Parsed DEF IteratorInv, TypeOK
<1>2. h + Fixed + directory.variable[h] <= directory.end
  BY DEF WellFormed
<1>3. QED
  BY <1>1, <1>2 DEF BeyondDirectory

\* What the first failure of a step can be.
LEMMA FirstError ==
  ASSUME IteratorInv, OnRecord, WellFormed(directory), [Next]_vars
  PROVE  error' \notin {"Eof", "InvalidSignature"}
<1>1. CASE UNCHANGED error
  BY <1>1 DEF OnRecord
<1>2. CASE error' # error
  <2>1. ~Failed
    BY <1>2 DEF Next, Step, CallEnds, Refill, ParseFails, ParseHeader,
                ReadVariable, ReadFails, Error, Yield, Failed, history, vars
  <2>2. Cursor \in DOMAIN directory.variable \cup {directory.end}
    BY <2>1 DEF OnRecord
  <2>3. ~ParseFails
    BY <2>1, <2>2, NoParseFailure DEF ParseFails
  <2>4. ASSUME NEW h \in DOMAIN directory.variable, ParseHeader(h)
        PROVE  error' \notin {"Eof", "InvalidSignature"}
    <3>1. ~BeyondDirectory(h)
      BY <2>1, <2>4, NoEof DEF ParseHeader
    <3>2. Error("BufferTooSmall")
      BY <1>2, <2>4, <3>1 DEF ParseHeader, Yield, history
    <3>3. QED
      BY <2>1, <3>2 DEF Error, Failed
  <2>5. ASSUME NEW size, ReadFails(size)
        PROVE  error' \notin {"Eof", "InvalidSignature"}
    BY <2>1, <2>5 DEF ReadFails, Error, Failed
  <2>6. QED
    BY <1>2, <2>3, <2>4, <2>5
       DEF Next, Step, CallEnds, Refill, ReadVariable, Yield, history, vars
<1>3. QED
  BY <1>1, <1>2

LEMMA OnRecordStep ==
  IteratorInv /\ OnRecord /\ [Next]_vars => OnRecord'
<1> SUFFICES ASSUME IteratorInv, OnRecord, [Next]_vars, WellFormed(directory)'
             PROVE  /\ error' \notin {"Eof", "InvalidSignature"}
                    /\ ~Failed' => Cursor' \in (DOMAIN directory.variable \cup {directory.end})'
  BY DEF OnRecord
<1>1. Lists
  BY IteratorStep
<1>2. UNCHANGED directory
  BY <1>1 DEF Lists, Listing!Next, Listing!vars
<1>3. WellFormed(directory)
  BY <1>2 DEF WellFormed
<1>4. error' \notin {"Eof", "InvalidSignature"}
  BY <1>3, FirstError
<1>5. ASSUME ~Failed'
      PROVE  Cursor' \in DOMAIN directory.variable \cup {directory.end}
  <2>1. CASE UNCHANGED Listing!vars
    BY <1>3, <1>5, <2>1 DEF Listing!vars, OnRecord
  <2>2. CASE Listing!Yield
    BY <1>3, <2>2 DEF Listing!Yield, Listing!RecordAt, WellFormed
  <2>3. QED
    BY <1>1, <1>5, <2>1, <2>2 DEF Lists, Listing!Next, Listing!Fail
<1>6. QED
  BY <1>2, <1>4, <1>5

-----------------------------------------------------------------------------
(* The theorems.                                                           *)

Claims == IteratorInv /\ Answered /\ OnRecord

LEMMA ClaimsHold == Spec => []Claims
<1>1. Init => Claims
  <2>1. Init => Answered
    BY DEF Init, Answered
  <2>2. Init => OnRecord
    <3> SUFFICES ASSUME Init, WellFormed(directory)
                 PROVE  Cursor \in DOMAIN directory.variable \cup {directory.end}
      BY DEF Init, OnRecord, NoError
    <3>1. Cursor = 0
      BY DEF Init, Cursor, Remaining
    <3>2. QED
      BY <3>1 DEF WellFormed
  <2>3. QED
    BY <2>1, <2>2, IteratorInit DEF Claims
<1>2. Claims /\ [Next]_vars => Claims'
  BY IteratorStep, AnsweredStep, OnRecordStep DEF Claims
<1>3. QED
  BY <1>1, <1>2, PTL DEF Spec

(***************************************************************************)
(* next_entry never leaves its buffer or the directory, and the unread     *)
(* bytes are always a contiguous piece of the file.                        *)
(***************************************************************************)
THEOREM IteratorSafe == Spec => []BufferSound
<1>1. Claims => BufferSound
  BY DEF Claims, IteratorInv, BufferSound
<1>2. QED
  BY <1>1, ClaimsHold, PTL

(***************************************************************************)
(* The buffered iterator implements the listing of the directory: up to    *)
(* the first error, the records in their order, each once.                 *)
(***************************************************************************)
THEOREM IteratorLists == Spec => ListsDirectory
<1>1. Init => Listing!Init
  BY DEF Init, Listing!Init, Cursor, Remaining, Failed
<1>2. Claims /\ [Next]_vars => [Listing!Next]_(Listing!vars)
  BY IteratorStep DEF Claims, Lists
<1>3. QED
  BY <1>1, <1>2, ClaimsHold, PTL DEF Spec, ListsDirectory, Listing!Spec

(***************************************************************************)
(* The end is reported only near the end, and a buffer of two headers that *)
(* holds any variable part is too small only near the end.                 *)
(***************************************************************************)
THEOREM IteratorEnds == Spec => []StopsNearEnd
<1>1. Claims => StopsNearEnd
  BY AnsweredShows DEF Claims, StopsNearEnd
<1>2. QED
  BY <1>1, ClaimsHold, PTL

(***************************************************************************)
(* No sequence of short reads, and no buffer, makes a well-formed          *)
(* directory look malformed.                                               *)
(***************************************************************************)
THEOREM IteratorTrusts == Spec => []NoSpuriousError
<1>1. Claims => NoSpuriousError
  BY DEF Claims, OnRecord, NoSpuriousError
<1>2. QED
  BY <1>1, ClaimsHold, PTL

=============================================================================
