------------------------------ MODULE Extraction ------------------------------
(***************************************************************************)
(* examples/extract.rs: all of an archive is extracted into a directory.   *)
(* One step is one entry of the central directory, or the end of it.  The  *)
(* parts of rawzip that it calls are modelled elsewhere and answer here as *)
(* they may: next_entry, try_normalize, get_entry, the verifier.           *)
(*                                                                         *)
(* What the directory lists is chosen as it is read; the file system may   *)
(* refuse a write at any time.  zip_start_offset, which is only printed,   *)
(* is left out.                                                            *)
(***************************************************************************)
EXTENDS Integers, Sequences, SequencesExt

CONSTANTS
  Listed,          (* entries that a directory may list                    *)
  MaxListed        (* bound: entries of it                                 *)

(***************************************************************************)
(* path: normalised, or {} if try_normalize refuses it.  opens: does       *)
(* get_entry find a local header?  start, end: compressed_data_range.      *)
(* bomb: DEFLATE beyond 1032 to 1.  supported: the compression method.     *)
(* sound: does the data decompress to what the directory claims?           *)
(***************************************************************************)
ASSUME ExtractionAssumption ==
  /\ MaxListed \in Nat
  /\ \A e \in Listed :
       /\ e.start \in Nat /\ e.end \in Nat /\ e.start <= e.end
       /\ {e.dir, e.opens, e.bomb, e.supported, e.sound} \subseteq BOOLEAN

VARIABLES
  expected_entries,    (* entries_hint                                     *)
  listed,              (* history: the entries read, entries_processed     *)
  compressed_ranges,
  files,               (* what was made of paths: an entry's number and    *)
                       (* how much of it                                   *)
  reported,            (* history: entries skipped with a message          *)
  outcome              (* "running", "done" or "failed"                    *)

extractVars ==
  <<expected_entries, listed, compressed_ranges, files, reported, outcome>>

ExtractInit ==
  /\ expected_entries \in 0..MaxListed
  /\ listed = <<>> /\ compressed_ranges = <<>> /\ files = <<>>
  /\ reported = {} /\ outcome = "running"

-----------------------------------------------------------------------------
(* Overlaps.                                                               *)

\* binary_search_by_key: any range with that start, or the place between
\* those with a lower and those with a higher one.
Positions(start) ==
  LET equal == {i \in DOMAIN compressed_ranges : compressed_ranges[i][1] = start}
  IN  IF equal # {} THEN equal
      ELSE {p \in 1..(Len(compressed_ranges) + 1) :
              \A i \in DOMAIN compressed_ranges : i < p <=> compressed_ranges[i][1] < start}

\* Mutant: only the range in front of it is looked at.
OverlapsPrevious(e, pos) == pos > 1 /\ compressed_ranges[pos - 1][2] > e.start

\* With the range before or behind its place in the sorted list.
Overlapping(e, pos) ==
  \/ pos > 1 /\ compressed_ranges[pos - 1][2] > e.start
  \/ pos <= Len(compressed_ranges) /\ e.end > compressed_ranges[pos][1]

-----------------------------------------------------------------------------
(* The loop.                                                               *)

Number == Len(listed) + 1

Skip == reported' = reported \cup {Number} /\ UNCHANGED outcome
Fail == outcome' = "failed" /\ UNCHANGED reported
Continue == UNCHANGED <<reported, outcome>>

\* The directory that the file goes into cannot be made.
NoParent == Fail /\ UNCHANGED <<files, compressed_ranges>>

\* How much of the entry is at the path now; made in place of what was there.
Make(path, how) ==
  files' = [p \in DOMAIN files \cup {path} |->
              IF p = path THEN [entry |-> Number, is |-> how] ELSE files[p]]

MadeAs(path, how) == path \in DOMAIN files /\ files[path].is = how

\* Mutant: a failed copy is passed over.
WriteOutLeniently(e) ==
  \/ Fail /\ UNCHANGED files
  \/ ~MadeAs(e.path, "directory") /\
       \/ ~e.supported /\ Make(e.path, "empty") /\ Skip
       \/ e.supported /\ Make(e.path, "part") /\ Continue
       \/ e.supported /\ e.sound /\ Make(e.path, "whole") /\ (Fail \/ Continue)

\* File::create, then the data through the verifier, then time and mode.
WriteOut(e) ==
  \/ Fail /\ UNCHANGED files
  \/ ~MadeAs(e.path, "directory") /\
       \/ ~e.supported /\ Make(e.path, "empty") /\ Skip
       \/ e.supported /\ Make(e.path, "part") /\ Fail
       \/ e.supported /\ e.sound /\ Make(e.path, "whole") /\ (Fail \/ Continue)

ExtractFile(e) ==
  \E pos \in Positions(e.start) :
    IF Overlapping(e, pos)
    THEN Skip /\ UNCHANGED <<compressed_ranges, files>>
    ELSE /\ compressed_ranges' = InsertAt(compressed_ranges, pos, <<e.start, e.end>>)
         /\ IF e.bomb THEN Skip /\ UNCHANGED files ELSE WriteOut(e)

\* create_dir_all: what is there may stay, if it is a directory.
MakeDirectory(e) ==
  \/ Fail /\ UNCHANGED files
  \/ /\ e.path \notin DOMAIN files \/ MadeAs(e.path, "directory")
     /\ Make(e.path, "directory") /\ Continue

Entered(e) == e.path # {} /\ e.opens

ExtractEntry(e) ==
  /\ outcome = "running" /\ Len(listed) < MaxListed
  /\ listed' = Append(listed, e)
  /\ \/ e.path = {} /\ Skip /\ UNCHANGED <<files, compressed_ranges>>
     \/ e.path # {} /\ ~e.opens /\ Fail /\ UNCHANGED <<files, compressed_ranges>>
     \/ Entered(e) /\ e.dir /\ MakeDirectory(e) /\ UNCHANGED compressed_ranges
     \/ Entered(e) /\ ~e.dir /\ (ExtractFile(e) \/ NoParent)
  /\ UNCHANGED expected_entries

DirectoryEnds ==
  /\ outcome = "running" /\ outcome' = "done"
  /\ UNCHANGED <<expected_entries, listed, compressed_ranges, files, reported>>

\* next_entry answers an error: the end, if all entries have been seen.
NextEntryFails ==
  /\ outcome = "running"
  /\ outcome' = IF Len(listed) = expected_entries THEN "done" ELSE "failed"
  /\ UNCHANGED <<expected_entries, listed, compressed_ranges, files, reported>>

ExtractNext ==
  \/ \E e \in Listed : ExtractEntry(e)
  \/ DirectoryEnds
  \/ NextEntryFails

ExtractSpec == ExtractInit /\ [][ExtractNext]_extractVars

-----------------------------------------------------------------------------
(* What extraction promises.                                               *)

\* Entries whose data went, or began to go, into a file: neither directories
\* nor skipped, nor the one at which the extraction may have failed.
Unpacked ==
  {n \in DOMAIN listed :
     /\ Entered(listed[n]) /\ ~listed[n].dir /\ n \notin reported
     /\ outcome = "failed" => n < Len(listed)}

(***************************************************************************)
(* No byte of the archive comes out in two files, in whatever order the    *)
(* data of the entries lies and however it overlaps: "compressed data      *)
(* ranges to detect overlaps" (a bomb is made of them).                    *)
(***************************************************************************)
RangesDisjoint ==
  \A i, j \in Unpacked :
    i # j => \/ listed[i].end <= listed[j].start
             \/ listed[j].end <= listed[i].start

(***************************************************************************)
(* If the extraction ends well, every entry that was listed is there, as   *)
(* whole as the directory claims, or has been reported, or a later entry   *)
(* has its place (the code does not look for names it has made before).    *)
(***************************************************************************)
ExtractedOrReported ==
  outcome = "done" =>
    \A i \in DOMAIN listed \ reported :
      /\ listed[i].path \in DOMAIN files
      /\ LET made == files[listed[i].path]
         IN  \/ made.entry > i
             \/ /\ made.entry = i
                /\ made.is = IF listed[i].dir THEN "directory" ELSE "whole"
                /\ listed[i].dir \/ listed[i].sound

=============================================================================
