------------------------------ MODULE ReadLoop ------------------------------
(***************************************************************************)
(* read_exact_at, try_read_at_least_at and read_at_least_at (reader_at.rs) *)
(* round by round: each round is one read_at into the rest of the buffer,  *)
(* which may bring fewer bytes than there are, and brings none only at the *)
(* end of the data.                                                        *)
(***************************************************************************)
EXTENDS Integers

CONSTANTS
  Length,    (* bytes the reader has                                       *)
  Calls,     (* calls that may be made: see WholeRead                      *)
  ReadFaults (* may a read fail?                                           *)

VARIABLES
  call,      (* the call: its kind, and its len, size and offset           *)
  buffer,    (* the call's buffer                                          *)
  filled,    (* how much of it is filled (read, or pos)                    *)
  outcome    (* what the call returned, or pending                         *)

loopVars == <<call, buffer, filled, outcome>>

Looping == outcome.kind = "pending"

\* The caller looks at its buffer when it has it back.
Seen == IF Looping THEN [i \in DOMAIN buffer |-> -1] ELSE buffer

Whole == INSTANCE WholeRead WITH buffer <- Seen

ASSUME LoopAssumption ==
  /\ Length \in Nat /\ ReadFaults \in BOOLEAN
  /\ Calls \subseteq Whole!Call

\* No call was made yet.
LoopInit ==
  /\ call = Whole!NoCall
  /\ buffer = Whole!Empty(call)
  /\ filled = 0
  /\ outcome = Whole!Ok(0)

Enter(c) ==
  /\ ~Looping
  /\ call' = c
  /\ buffer' = Whole!Empty(c)
  /\ filled' = 0
  /\ outcome' = Whole!Pending

\* What read_at may return for room bytes at a position: it can be short.
Brings(at, room) ==
  IF room = 0 \/ at >= Length THEN {0}
  ELSE {k \in 1..room : at + k <= Length}

\* How long the loop goes on: read < buf.len(), or pos < size.min(buffer.len()).
Goal == IF call.kind = "exact" THEN call.len
        ELSE Whole!Least(call.size, call.len)

\* read_at_least_at: the buffer is too small to begin with.
Refuse ==
  /\ Looping /\ call.kind = "least" /\ call.len < call.size
  /\ outcome' = Whole!Error("BufferTooSmall")
  /\ UNCHANGED <<call, buffer, filled>>

InLoop == Looping /\ (call.kind = "least" => call.len >= call.size)

\* Mutant: every round reads at the offset of the call.
ReadsFromStart == call.offset

ReadsFrom == call.offset + filled

\* A round that brings bytes.
ReadSome ==
  /\ InLoop /\ filled < Goal
  /\ \E k \in Brings(ReadsFrom, call.len - filled) \ {0} :
       /\ buffer' = [i \in DOMAIN buffer |->
                       IF i >= filled /\ i < filled + k
                       THEN ReadsFrom + (i - filled)
                       ELSE buffer[i]]
       /\ filled' = filled + k
  /\ UNCHANGED <<call, outcome>>

\* A round that brings nothing.
Nothing ==
  InLoop /\ filled < Goal /\ 0 \in Brings(ReadsFrom, call.len - filled)

\* Mutant: it is followed by another.
ReadNothingAgain == Nothing /\ UNCHANGED loopVars

\* It ends the loop: the data is at its end.  (Eof stands for the
\* UnexpectedEof of read_exact_at as well.)
ReadNothing ==
  /\ Nothing
  /\ outcome' = IF call.kind = "try" THEN Whole!Ok(filled)
                ELSE Whole!Error("Eof")
  /\ UNCHANGED <<call, buffer, filled>>

ReadFails ==
  /\ InLoop /\ filled < Goal /\ ReadFaults
  /\ outcome' = Whole!Error("Io")
  /\ UNCHANGED <<call, buffer, filled>>

\* The loop has what it needs.  (An exact read returns no count.)
Done ==
  /\ InLoop /\ filled >= Goal
  /\ outcome' = Whole!Ok(filled)
  /\ UNCHANGED <<call, buffer, filled>>

Step == Refuse \/ ReadSome \/ ReadNothing \/ Done

LoopNext ==
  \/ \E c \in Calls : Enter(c)
  \/ Step
  \/ ReadFails

\* A thread in the loop goes on with it; no read has to fail, and nobody has
\* to call again.
LoopSpec == LoopInit /\ [][LoopNext]_loopVars /\ WF_loopVars(Step)

-----------------------------------------------------------------------------
(* Properties.                                                             *)

(***************************************************************************)
(* However the data comes in pieces, the loops do what their callers take  *)
(* for one read (and the other modules for one step): the bytes stand in   *)
(* the order of the data at the front of the buffer and nothing else of it *)
(* was touched; a success has as many as are needed, or for a try all      *)
(* there are; the end of the data is reported when it is the end.  And a   *)
(* loop does not wait for bytes that never come: when read_at brings       *)
(* nothing, because the file is shorter than the archive says, it ends.    *)
(***************************************************************************)
LoopIsOneRead == Whole!Spec

=============================================================================
