--------------------------- MODULE MCZipRoundTrip ---------------------------
EXTENDS ZipRoundTrip

File(name, stored) ==
  [kind |-> "file", slash |-> FALSE, name_len |-> name, comment_len |-> 0,
   local |-> 0, central |-> 0, mtime |-> FALSE, stored |-> stored,
   calculate |-> TRUE]

\* Stored and encoded files and a directory, all of which start() accepts.
SmallCalls ==
  {File(1, TRUE), File(0, FALSE), [File(1, TRUE) EXCEPT !.kind = "dir", !.slash = TRUE]}

\* Calls that succeed unless the sink fails: with an encoder the sizes of an
\* entry cross the 32-bit limit independently.
SizeCalls ==
  {[File(1, FALSE) EXCEPT !.comment_len = 1],
   [File(1, FALSE) EXCEPT !.central = U16MAX - FieldHead - Word64],
   [File(1, TRUE) EXCEPT !.kind = "dir", !.slash = TRUE]}

NoComments == {}
OneComment == {1}

=============================================================================
