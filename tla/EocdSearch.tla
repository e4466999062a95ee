----------------------------- MODULE EocdSearch -----------------------------
(***************************************************************************)
(* find_end_of_central_dir (locator/reader.rs): the backward search for    *)
(* the signature of the end of central directory, one buffer at a time.    *)
(*                                                                         *)
(* The file is modelled by the positions at which the signature stands.    *)
(* rfind is modelled by what it returns: the last of them in the bytes it  *)
(* is given.                                                               *)
(***************************************************************************)
EXTENDS Integers

CONSTANTS
  Sig,          (* bytes of the signature: 4                               *)
  InitWindow,   (* INIT_SCAN_WINDOW: 1024                                  *)
  MaxWindow,    (* MAX_SCAN_WINDOW: 65536                                  *)
  Files,        (* sets of positions                                       *)
  Ends,         (* where a caller may let the search start                 *)
  Buffers,      (* lengths of the caller's buffer                          *)
  SearchSpaces, (* values of max_search_space                              *)
  IoFaults      (* may a read fail?                                        *)

ASSUME SearchAssumption ==
  /\ Sig \in Nat \ {0}
  /\ InitWindow \in Nat /\ InitWindow >= Sig
  /\ MaxWindow \in Nat /\ MaxWindow >= Sig
  /\ \A f \in Files : f \subseteq Nat
  /\ Ends \subseteq Nat /\ Buffers \subseteq Nat /\ SearchSpaces \subseteq Nat
  /\ IoFaults \in BOOLEAN

VARIABLES
  signatures,  (* where the file has the signature                         *)
  end_offset,  (* the search begins here and goes backward                 *)
  max_back,    (* and ends here                                            *)
  len,         (* length of the buffer that is used                        *)
  chunk_end,   (* end of the next piece to look at                         *)
  window,      (* its greatest length                                      *)
  state,       (* "searching", or how the search ended                     *)
  found        (* what was returned: position, index in buffer, its length *)

given == <<signatures, end_offset, max_back, len>>
vars == <<given, chunk_end, window, state, found>>

Least(a, b) == IF a <= b THEN a ELSE b

\* Mutant: the subtraction does not stop at 0.
PlainSub(a, b) == a - b

SaturatingSub(a, b) == IF a >= b THEN a - b ELSE 0

Nothing == [at |-> 0, index |-> 0, valid |-> 0]

Init ==
  /\ signatures \in Files /\ end_offset \in Ends
  /\ \E b \in Buffers, space \in SearchSpaces :
       /\ max_back = SaturatingSub(end_offset, space)
       /\ len = Least(b, MaxWindow)
       /\ state = IF b < Sig THEN "refused" ELSE "searching"
  /\ chunk_end = end_offset
  /\ window = Least(InitWindow, len)
  /\ found = Nothing

ReadSize == Least(window, chunk_end - max_back)

ChunkStart == chunk_end - ReadSize

\* The signatures that lie completely in the piece.
Hits == {p \in signatures : ChunkStart <= p /\ p + Sig <= chunk_end}

Looking == state = "searching" /\ chunk_end > max_back

Hit(p) ==
  /\ Looking
  /\ p \in Hits /\ \A q \in Hits : q <= p
  /\ state' = "found"
  /\ found' = [at |-> p, index |-> p - ChunkStart, valid |-> ReadSize]
  /\ UNCHANGED <<given, chunk_end, window>>

\* Mutants: the pieces do not overlap; the same end is looked at again with
\* the larger window.
Abutting == ChunkStart
SameEnd == chunk_end

\* The next piece ends so that a signature across the border lies in it.
NextEnd == ChunkStart + Sig - 1

Miss ==
  /\ Looking
  /\ Hits = {}
  /\ IF ChunkStart = max_back
     THEN state' = "none" /\ UNCHANGED <<chunk_end, window>>
     ELSE chunk_end' = NextEnd /\ window' = len /\ UNCHANGED state
  /\ UNCHANGED <<given, found>>

\* The loop is not entered: nothing is to be searched.
NothingToSearch ==
  /\ state = "searching" /\ chunk_end <= max_back
  /\ state' = "none"
  /\ UNCHANGED <<given, chunk_end, window, found>>

ReadFails ==
  /\ Looking /\ IoFaults
  /\ state' = "io"
  /\ UNCHANGED <<given, chunk_end, window, found>>

Search == (\E p \in signatures : Hit(p)) \/ Miss \/ NothingToSearch

Next == Search \/ ReadFails

Spec == Init /\ [][Next]_vars

-----------------------------------------------------------------------------
(* Properties.                                                             *)

TypeOK ==
  /\ signatures \subseteq Nat
  /\ end_offset \in Nat /\ max_back \in Nat /\ len \in Nat
  /\ chunk_end \in Nat /\ window \in Nat
  /\ state \in {"searching", "found", "none", "io", "refused"}
  /\ found \in [at : Nat, index : Nat, valid : Nat]

InRange(p) == p \in signatures /\ max_back <= p /\ p + Sig <= end_offset

(***************************************************************************)
(* The answer is that of the search in a slice (rfind over the whole of    *)
(* the search space): the last signature that lies completely in it, or    *)
(* none if there is none, wherever the borders of the pieces fall.         *)
(***************************************************************************)
FindsLast ==
  /\ state = "found" =>
       InRange(found.at) /\ \A p \in signatures : InRange(p) => p <= found.at
  /\ state = "none" => \A p \in signatures : ~InRange(p)

(***************************************************************************)
(* locate_in_reader goes on with the bytes in the buffer: the signature is *)
(* at the returned index, and the returned length does not leave the       *)
(* buffer or the search range.                                             *)
(***************************************************************************)
TupleFits ==
  state = "found" =>
    /\ found.index + Sig <= found.valid
    /\ found.valid <= len
    /\ found.at - found.index >= max_back
    /\ found.at - found.index + found.valid <= end_offset

(***************************************************************************)
(* Each piece that holds no signature brings the search nearer to its end, *)
(* whatever part of the piece has to be looked at again.                   *)
(***************************************************************************)
Shrinks ==
  [][state' = "searching" => chunk_end' < chunk_end]_vars

=============================================================================
