----------------------------- MODULE MCZipWriter -----------------------------
(***************************************************************************)
(* Small instances of ZipWriter.                                           *)
(***************************************************************************)
EXTENDS ZipWriter

File(name, comment) ==
  [kind |-> "file", slash |-> FALSE, name_len |-> name, comment_len |-> comment,
   local |-> 0, central |-> 0, mtime |-> FALSE, stored |-> TRUE,
   calculate |-> TRUE]

Dir(name, comment) ==
  [File(name, comment) EXCEPT !.kind = "dir", !.slash = TRUE]

\* Every way a call can end: plain files, one with an encoder, directories,
\* a path without its slash, a name, a comment or extra fields too long.
AllCalls ==
  {File(1, 0),
   [File(2, 1) EXCEPT !.stored = FALSE],
   [File(1, 1) EXCEPT !.calculate = FALSE, !.local = 1],
   [File(0, 1) EXCEPT !.mtime = TRUE, !.central = 1],
   Dir(1, 1),
   [Dir(1, 0) EXCEPT !.slash = FALSE],
   File(U16MAX + 1, 0),
   File(1, U16MAX + 1),
   [File(2, 0) EXCEPT !.mtime = TRUE, !.central = U16MAX]}

\* Calls that succeed or fail at each of the two late checks.
NameCalls ==
  {File(1, 1), File(2, 0), File(1, U16MAX + 1), Dir(1, 2),
   [File(1, 1) EXCEPT !.mtime = TRUE, !.central = U16MAX]}

\* One that finish() refuses; without a call it is empty.
LongComment == {U16MAX + 1}
OneComment == {1}

=============================================================================
