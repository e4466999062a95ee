---------------------------- MODULE MCCdIterator ----------------------------
(***************************************************************************)
(* Directories of up to three records, well-formed or not, and buffers     *)
(* from too short for a header to longer than the directory.               *)
(***************************************************************************)
EXTENDS CdIterator

\* Records with variable parts u, v, w, one after the other, each at most
\* once, and an end that is right or off by a few bytes.
Chain(parts) ==
  LET At[k \in 1..(Len(parts) + 1)] ==
        IF k = 1 THEN 0 ELSE At[k - 1] + Fixed + parts[k - 1]
      Index(h) == CHOOSE k \in 1..Len(parts) : At[k] = h
  IN  [variable |-> [h \in {At[k] : k \in 1..Len(parts)} |-> parts[Index(h)]],
       end |-> At[Len(parts) + 1]]

Parts == UNION {[1..n -> 0..MaxVariable] : n \in 0..3}

WellFormedOnes == {Chain(p) : p \in Parts}

\* Truncated, or followed by bytes that are no record.
Damaged ==
  {[Chain(p) EXCEPT !.end = @ + x] : p \in {q \in Parts : Len(q) <= 2},
                                     x \in {-3, -1, 1, 3}}

AllDirectories == WellFormedOnes \cup {d \in Damaged : d.end >= 0}

AllBuffers == 1..7
BigBuffer == {Fixed + MaxVariable}

=============================================================================
