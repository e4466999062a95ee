----------------------------- MODULE EntryPaths -----------------------------
(***************************************************************************)
(* path.rs: the normalization of an entry's path when it is written or     *)
(* when a reader asks for it.  A path is a sequence of symbols: the two    *)
(* separators, the colon, the dot and a letter; it is typed symbol by      *)
(* symbol.                                                                 *)
(***************************************************************************)
EXTENDS Naturals, Sequences, SequencesExt

CONSTANTS
  Letters,          (* symbols without a meaning of their own              *)
  MaxPath           (* bound: symbols of a path                            *)

Slash == "/"
Backslash == "\\"
Colon == ":"
Dot == "."
Symbols == {Slash, Backslash, Colon, Dot} \cup Letters

ASSUME PathAssumption ==
  MaxPath \in Nat /\ Letters \cap {Slash, Backslash, Colon, Dot} = {}

VARIABLE name       (* what was typed so far                               *)

-----------------------------------------------------------------------------
(* normalize_alloc: the slow path.                                         *)

\* The text behind the last colon.
Undriven(s) ==
  LET colon == SelectLastInSeq(s, LAMBDA c : c = Colon)
  IN  SubSeq(s, colon + 1, Len(s))

\* split('/'): the components, empty ones included.
Split(s) ==
  FoldLeft(LAMBDA parts, c : IF c = Slash THEN Append(parts, <<>>)
                                          ELSE Front(parts) \o <<Append(Last(parts), c)>>,
           << <<>> >>, s)

\* Mutant: `..` of the empty result is kept.
ResolveUpwards(result, split) ==
  CASE split \in {<<>>, <<Dot>>} -> result
    [] split = <<Dot, Dot>> /\ result # <<>> -> Front(result)
    [] OTHER -> Append(result, split)

\* One round of the loop over the components, for those kept so far.
Resolve(result, split) ==
  CASE split \in {<<>>, <<Dot>>} -> result
    [] split = <<Dot, Dot>> -> IF result = <<>> THEN <<>> ELSE Front(result)
    [] OTHER -> Append(result, split)

Join(parts) ==
  FoldLeft(LAMBDA s, part : IF s = <<>> THEN part ELSE s \o <<Slash>> \o part,
           <<>>, parts)

EndsInSlash(s) == s # <<>> /\ Last(s) = Slash

\* Mutant: the slash at the end is lost.
NormalizeAllocBare(name_) ==
  Join(FoldLeft(Resolve, <<>>, Split(Undriven(ReplaceAll(name_, Backslash, Slash)))))

NormalizeAlloc(name_) ==
  LET s == Undriven(ReplaceAll(name_, Backslash, Slash))
      result == Join(FoldLeft(Resolve, <<>>, Split(s)))
  IN  IF EndsInSlash(s) /\ result # <<>> THEN Append(result, Slash) ELSE result

-----------------------------------------------------------------------------
(* from_str: the fast path.                                                *)

\* Mutant: a run of slashes is left to the fast path.
IntrusiveNoRuns(s) ==
  \E i \in 1..Len(s) :
    \/ s[i] \in {Backslash, Colon}
    \/ i > 1 /\ <<s[i - 1], s[i]>> \in {<<Dot, Dot>>, <<Slash, Dot>>}

\* Symbols that call for the slow path.
Intrusive(s) ==
  \E i \in 1..Len(s) :
    \/ s[i] \in {Backslash, Colon}
    \/ i > 1 /\ <<s[i - 1], s[i]>> \in
                  {<<Slash, Slash>>, <<Dot, Dot>>, <<Slash, Dot>>}

\* trim_start_matches: p is taken off as often as s begins with it.
TrimStart(s, p) ==
  FoldLeft(LAMBDA t, i : IF IsPrefix(p, t) THEN SubSeq(t, Len(p) + 1, Len(t)) ELSE t,
           s, [i \in 1..Len(s) |-> i])

\* One round of the loop that trims.
Trim(s) ==
  LET heads == {<<Dot, Dot, Slash>>, <<Dot, Slash>>, <<Slash>>}
  IN  IF \E p \in heads : IsPrefix(p, s)
      THEN TrimStart(s, CHOOSE p \in heads : IsPrefix(p, s))
      ELSE s

FromStr(s) ==
  IF Intrusive(s) THEN NormalizeAlloc(s)
  ELSE FoldLeft(LAMBDA t, i : Trim(t), s, [i \in 1..Len(s) |-> i])

-----------------------------------------------------------------------------
(* What the writer makes of it.                                            *)

IsDir(s) == EndsInSlash(s)

TrimTrailingSlash(s) == IF EndsInSlash(s) THEN Front(s) ELSE s

\* with_resolved_entry_path of a conformant path, for new_file.
FileName(s) == TrimTrailingSlash(FromStr(s))

\* trim_end_matches('/') of a normalized path.
NormalizedFileName(s) ==
  SubSeq(s, 1, SelectLastInSeq(s, LAMBDA c : c # Slash))

-----------------------------------------------------------------------------

PathInit == name = <<>>

Type(c) == Len(name) < MaxPath /\ name' = Append(name, c)

-----------------------------------------------------------------------------
(* Properties.                                                             *)

(***************************************************************************)
(* A normalized path is relative and stays below the archive's root: no    *)
(* backslash, no colon, no component that is empty or `..`, no slash in    *)
(* front.  (Only an end may be empty: that of a directory.)                *)
(* Written and read back it is normalized to itself.                       *)
(***************************************************************************)
Confined ==
  LET s == FromStr(name)
      parts == Split(s)
  IN  /\ \A i \in 1..Len(s) : s[i] \notin {Backslash, Colon}
      /\ s # <<>> =>
           \A i \in 1..Len(parts) :
             /\ parts[i] # <<Dot, Dot>>
             /\ parts[i] = <<>> => i = Len(parts) /\ i > 1
      /\ FromStr(s) = s

(***************************************************************************)
(* The fast path gives what the slow path would give, so that it does not  *)
(* matter which one a separator or a dot elsewhere in the name leads to;   *)
(* the single exception is the name ".", which the fast path keeps.        *)
(***************************************************************************)
FastIsSlow == name # <<Dot>> => FromStr(name) = NormalizeAlloc(name)

(***************************************************************************)
(* A file stays a file and a directory one: new_file never creates what a  *)
(* reader takes for a directory; what ends in a separator stays a          *)
(* directory unless nothing is left; and the path of an entry read from    *)
(* another archive gets the same name whether it is passed on normalized   *)
(* or as text.                                                             *)
(***************************************************************************)
KindKept ==
  LET s == FromStr(name)
      file == FileName(name)
  IN  /\ ~IsDir(file) /\ NormalizedFileName(s) = file
      /\ name # <<>> /\ Last(name) \in {Slash, Backslash} /\ s # <<>> => IsDir(s)

(***************************************************************************)
(* Both together: what normalization promises of every text, whichever     *)
(* path through from_str it takes.                                         *)
(***************************************************************************)
PathSound == Confined /\ KindKept

=============================================================================
