-------------------------- MODULE DirectoryListing --------------------------
(***************************************************************************)
(* What an iterator over the central directory promises: each call answers *)
(* with the record that begins where the previous one ended, with the end, *)
(* or with an error.                                                       *)
(*                                                                         *)
(* A position counts from the start of the directory.  A directory is      *)
(* given by where its records begin, how long the variable part of each    *)
(* is, and where the end of central directory claims that it ends; any     *)
(* other byte in it is garbage.                                            *)
(***************************************************************************)
EXTENDS Integers, Sequences

CONSTANTS
  Fixed,        (* bytes of the fixed part of a record: 46                 *)
  Directories,  (* what the directory may be                               *)
  Slack         (* bytes that may be left over when the end is reported    *)

VARIABLES
  directory,  (* fixed for the life of the iterator                        *)
  cursor,     (* where the next record is expected                         *)
  yielded,    (* the records returned so far, by their positions           *)
  failed      (* was an error returned?                                    *)

vars == <<directory, cursor, yielded, failed>>

\* A complete record begins at p.
RecordAt(p) ==
  /\ p \in DOMAIN directory.variable
  /\ p + Fixed + directory.variable[p] <= directory.end

Init ==
  /\ directory \in Directories
  /\ cursor = 0 /\ yielded = <<>> /\ failed = FALSE

Yield ==
  /\ ~failed /\ RecordAt(cursor)
  /\ yielded' = Append(yielded, cursor)
  /\ cursor' = cursor + Fixed + directory.variable[cursor]
  /\ UNCHANGED failed

\* Errors are the implementation's own, and nothing is said of later calls.
Fail == failed' = TRUE

Next == UNCHANGED directory /\ (Yield \/ Fail)

Spec == Init /\ [][Next]_vars

\* The answer "no more records" is allowed only here.
AtEnd == directory.end - cursor <= Slack

=============================================================================
