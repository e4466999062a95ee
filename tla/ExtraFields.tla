----------------------------- MODULE ExtraFields -----------------------------
(***************************************************************************)
(* extra_fields.rs and the timestamps read from extra fields (time.rs):    *)
(* a builder collects the fields of one entry in an ExtraFieldsContainer,  *)
(* start() adds the timestamp and writes the local ones, finish() adds the *)
(* zip64 field and writes the central ones; a reader takes the bytes apart *)
(* again.                                                                  *)
(*                                                                         *)
(* Fields are bytes here, as the container keeps those of both headers in  *)
(* one buffer and finds them again by their lengths.  An id is one byte    *)
(* followed by a 0.                                                        *)
(***************************************************************************)
EXTENDS Integers, Sequences, SequencesExt

CONSTANTS
  Fields,           (* fields a caller may add: id, body, locations        *)
  MaxFields,        (* bound: fields a caller adds                         *)
  MaxExtra,         (* u16::MAX, made small                                *)
  InlineEntries,    (* entries the container holds inline (5)              *)
  InlineBytes,      (* bytes the container holds inline (15)               *)
  MaxWords          (* bound: words of the zip64 field (3)                 *)

\* Where a field goes; LOCAL & CENTRAL, no header, is a value too.
Headers == {"local", "central"}

Field == [id : 0..255, body : Seq(0..255), locations : SUBSET Headers]

ASSUME FieldsAssumption ==
  /\ Fields \subseteq Field
  /\ MaxFields \in Nat /\ MaxExtra \in Nat /\ MaxExtra <= 65535 /\ MaxWords \in Nat
  /\ InlineEntries \in Nat /\ InlineBytes \in Nat

VARIABLES
  container,        (* ExtraFieldsContainer                                *)
  stage,            (* what was done with it                               *)
  headers,          (* the local and the central header, when written      *)
  added             (* history: the fields added, in order                 *)

fieldVars == <<container, stage, headers, added>>

ZIP64 == 1
NTFS == 10
EXTENDED_TIMESTAMP == 85
INFO_ZIP_UNIX_ORIGINAL == 88

-----------------------------------------------------------------------------
(* StackVec.                                                               *)

NewVec(n, default) ==
  [large |-> FALSE, data |-> [i \in 1..n |-> default], len |-> 0]

AsSlice(v) == IF v.large THEN v.data ELSE SubSeq(v.data, 1, v.len)

Large(items) == [large |-> TRUE, data |-> items, len |-> 0]

Push(v, item) ==
  IF v.large THEN Large(Append(v.data, item))
  ELSE IF v.len < Len(v.data)
       THEN [v EXCEPT !.data[v.len + 1] = item, !.len = @ + 1]
       ELSE Large(Append(v.data, item))

\* Mutant: all of the inline array is moved to the heap.
ExtendWhole(v, items) ==
  IF v.large \/ v.len + Len(items) > Len(v.data) THEN Large(v.data \o items)
  ELSE [v EXCEPT !.data = [i \in DOMAIN @ |-> IF i - v.len \in DOMAIN items
                                              THEN items[i - v.len] ELSE @[i]],
                 !.len = @ + Len(items)]

Extend(v, items) ==
  IF v.large \/ v.len + Len(items) > Len(v.data) THEN Large(AsSlice(v) \o items)
  ELSE [v EXCEPT !.data = [i \in DOMAIN @ |-> IF i - v.len \in DOMAIN items
                                              THEN items[i - v.len] ELSE @[i]],
                 !.len = @ + Len(items)]

-----------------------------------------------------------------------------
(* ExtraFields: the iterator.                                              *)

LeU16(s, i) == s[i] + 256 * s[i + 1]

\* next_data: the length of the first field of s, 0 if it is not whole.
NextLength(s) ==
  IF Len(s) < 4 \/ Len(s) < 4 + LeU16(s, 3) THEN 0 ELSE 4 + LeU16(s, 3)

\* next, of an iterator that has given fields and has rest before it.
Advance(iterator) ==
  LET n == NextLength(iterator.rest)
  IN  IF n = 0 THEN iterator
      ELSE [fields |-> Append(iterator.fields, SubSeq(iterator.rest, 1, n)),
            rest |-> SubSeq(iterator.rest, n + 1, Len(iterator.rest))]

\* All fields of s, as bytes, and the remaining bytes.  A field has at least
\* four bytes, which bounds the calls of next.
MostFields(s) == Len(s) \div 4

Parse(s) ==
  LET after[k \in 0..MostFields(s)] ==
        IF k = 0 THEN [fields |-> <<>>, rest |-> s] ELSE Advance(after[k - 1])
  IN  after[MostFields(s)]

-----------------------------------------------------------------------------
(* ExtraFieldsContainer.                                                   *)

NewContainer == [entries |-> NewVec(InlineEntries, {}),
                 data_buffer |-> NewVec(InlineBytes, 0),
                 local |-> 0, central |-> 0]

\* current_size: the larger size of the headers the field goes to.
Current(c, f) ==
  LET l == IF "local" \in f.locations THEN c.local ELSE 0
  IN  IF "central" \in f.locations /\ c.central > l THEN c.central ELSE l

Fits(c, f) == 4 + Len(f.body) + Current(c, f) <= MaxExtra

HeadBytes(f) == <<f.id, 0, Len(f.body) % 256, Len(f.body) \div 256>>

\* add_field, when the field fits.
Adding(c, f) ==
  LET grown(h) == IF h \in f.locations
                  THEN (c[h] + 4 + Len(f.body)) % (MaxExtra + 1) ELSE c[h]
  IN  [entries |-> Push(c.entries, f.locations),
       data_buffer |-> Extend(Extend(c.data_buffer, HeadBytes(f)), f.body),
       local |-> grown("local"), central |-> grown("central")]

\* write_extra_fields_iter
Filtered(c, h) ==
  LET fields == Parse(AsSlice(c.data_buffer)).fields
      entries == AsSlice(c.entries)
  IN  FlattenSeq([i \in DOMAIN entries |->
                    IF h \in entries[i] THEN fields[i] ELSE <<>>])

\* write_extra_fields
Written(c, h) ==
  IF c[h] = 0 THEN <<>>
  ELSE IF c.local = 0 \/ c.central = 0 THEN AsSlice(c.data_buffer)
  ELSE Filtered(c, h)

-----------------------------------------------------------------------------
(* Timestamps (time.rs).                                                   *)

\* What parse_*_timestamp find in a body: a time, or nothing.
Times(id, b) ==
  CASE id = NTFS ->
         IF /\ Len(b) >= 32 /\ LeU16(b, 5) = 1 /\ LeU16(b, 7) >= 24
            /\ Len(b) >= 8 + LeU16(b, 7)
         THEN <<b[9]>> ELSE <<>>
    [] id = EXTENDED_TIMESTAMP ->
         IF Len(b) >= 5 /\ b[1] % 2 = 1 THEN <<b[2]>> ELSE <<>>
    [] id = INFO_ZIP_UNIX_ORIGINAL ->
         IF Len(b) >= 8 THEN <<b[5]>> ELSE <<>>
    [] OTHER -> <<>>

TimesOf(f) == Times(LeU16(f, 1), SubSeq(f, 5, Len(f)))

\* Mutant: the first timestamp wins.
BestFirst(s) ==
  LET fields == Parse(s).fields
      best[k \in 0..Len(fields)] ==
        IF k = 0 THEN <<>>
        ELSE IF best[k - 1] = <<>> THEN TimesOf(fields[k]) ELSE best[k - 1]
  IN  best[Len(fields)]

\* extract_best_timestamp; nothing stands for the words of MS-DOS.
BestTimestamp(s) ==
  LET fields == Parse(s).fields
      best[k \in 0..Len(fields)] ==
        IF k = 0 THEN <<>>
        ELSE IF TimesOf(fields[k]) = <<>> THEN best[k - 1] ELSE TimesOf(fields[k])
  IN  best[Len(fields)]

-----------------------------------------------------------------------------
(* One entry.                                                              *)

FieldsInit ==
  /\ container = NewContainer
  /\ stage = "building"
  /\ headers = <<>>
  /\ added = <<>>

Keep(f) == container' = Adding(container, f) /\ added' = Append(added, f)

\* extra_field: an error takes the builder with it.
AddField(f) ==
  /\ stage = "building" /\ Len(added) < MaxFields
  /\ IF Fits(container, f) THEN Keep(f) /\ UNCHANGED stage
     ELSE stage' = "failed" /\ UNCHANGED <<container, added>>
  /\ UNCHANGED headers

\* The seconds are one byte here: 7, which no caller uses.
TimeField == [id |-> EXTENDED_TIMESTAMP, body |-> <<1, 7, 0, 0, 0>>,
              locations |-> {"central"}]

\* A header as written; the number of fields so far is kept as history.
Header(c, h) == [len |-> c[h], bytes |-> Written(c, h), fields |-> Len(added')]

\* write_local_header, for an entry with and without modification time.
Start(mtime) ==
  /\ stage = "building"
  /\ IF mtime /\ ~Fits(container, TimeField)
     THEN stage' = "failed" /\ UNCHANGED <<container, added, headers>>
     ELSE /\ IF mtime THEN Keep(TimeField) ELSE UNCHANGED <<container, added>>
          /\ stage' = IF mtime THEN "timed" ELSE "started"
          /\ headers' = <<Header(container', "local")>>

\* The zip64 field of an entry with n large values.
Zip64Field(n) == [id |-> ZIP64, body |-> [i \in 1..(8 * n) |-> 9],
                  locations |-> {"central"}]

\* finalize_extra_fields, and the record of the central directory.
Finish(n) ==
  /\ stage \in {"started", "timed"}
  /\ IF n > 0 /\ ~Fits(container, Zip64Field(n))
     THEN stage' = "failed" /\ UNCHANGED <<container, added, headers>>
     ELSE /\ IF n > 0 THEN Keep(Zip64Field(n)) ELSE UNCHANGED <<container, added>>
          /\ stage' = IF stage = "timed" THEN "dated" ELSE "done"
          /\ headers' = Append(headers, Header(container', "central"))

FieldsNext ==
  \/ \E f \in Fields : AddField(f)
  \/ \E mtime \in BOOLEAN : Start(mtime)
  \/ \E n \in 0..MaxWords : Finish(n)

FieldsSpec == FieldsInit /\ [][FieldsNext]_fieldVars

-----------------------------------------------------------------------------
(* Properties.                                                             *)

\* The first header written is the local one.
Kind(k) == IF k = 1 THEN "local" ELSE "central"

Bytes(f) == HeadBytes(f) \o f.body

\* Those of the fields that go to the header h.
For(h, fields) ==
  LET chosen[i \in 0..Len(fields)] ==
        IF i = 0 THEN <<>>
        ELSE IF h \in fields[i].locations THEN Append(chosen[i - 1], Bytes(fields[i]))
                                          ELSE chosen[i - 1]
  IN  chosen[Len(fields)]

\* The fields of the k-th header that the caller or the writer asked for.
Asked(k) == For(Kind(k), added)

\* A field is for no header at all, and all others are for one and the same.
Stray(fields) ==
  /\ \E i \in 1..Len(fields) : fields[i].locations = {}
  /\ \E h \in Headers : \A i \in 1..Len(fields) : h \notin fields[i].locations

\* The fields in the container when the k-th header was written.
Then(k) == SubSeq(added, 1, headers[k].fields)

(***************************************************************************)
(* What follows a header is as long as the length in it says, and is taken *)
(* apart into the fields that were asked for that header, in order and     *)
(* with nothing left, whether the container dumps its buffer or filters    *)
(* it, on the stack or on the heap; cut anywhere, into the whole fields    *)
(* before the cut, and remaining_bytes gives the rest.  Not so with Stray: *)
(* a field for neither header is dumped too when all others are for one,   *)
(* and the length does not count it.                                       *)
(***************************************************************************)
FieldsAsAsked ==
  \A k \in DOMAIN headers : ~Stray(Then(k)) =>
    /\ headers[k].len = Len(headers[k].bytes)
    /\ Parse(headers[k].bytes) = [fields |-> Asked(k), rest |-> <<>>]
    /\ \A n \in 0..Len(headers[k].bytes) :
         LET cut == SubSeq(headers[k].bytes, 1, n)
             parsed == Parse(cut)
         IN  /\ IsPrefix(parsed.fields, Asked(k))
             /\ FlattenSeq(parsed.fields) \o parsed.rest = cut

(***************************************************************************)
(* An entry given a modification time is read with that time, whatever     *)
(* timestamps of whatever form the caller added, also broken ones.         *)
(***************************************************************************)
OwnTimeWins ==
  stage = "dated" => BestTimestamp(headers[2].bytes) = <<TimeField.body[2]>>

=============================================================================
