--------------------------- MODULE MCEntryReader ---------------------------
(***************************************************************************)
(* Files of one header, up to three bytes of data and maybe one behind     *)
(* them; entries that describe them rightly and wrongly.                   *)
(***************************************************************************)
EXTENDS EntryReader

BytesUpTo(n) == UNION {[1..k -> {1, 2}] : k \in 0..n}

\* A byte in front, the header, its name, the data.
SmallFiles ==
  {[bytes |-> <<9, 9>> \o [i \in 1..v |-> 9] \o d, headers |-> [p \in {1} |-> v]] :
     v \in 0..1, d \in BytesUpTo(3)}

SmallEntries ==
  {[local_header_offset |-> o, compressed_size |-> c, uncompressed_size |-> u,
    crc |-> d] :
     o \in {1}, c \in {0, 2, 3, U64MAX - 2}, u \in {0, 1, 2, 3}, d \in BytesUpTo(3)}
  \cup
  {[local_header_offset |-> o, compressed_size |-> 2, uncompressed_size |-> 2,
    crc |-> <<1, 2>>] : o \in {0, 1, 9}}

=============================================================================
