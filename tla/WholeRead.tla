------------------------------ MODULE WholeRead ------------------------------
(***************************************************************************)
(* What the callers of read_exact_at, try_read_at_least_at and             *)
(* read_at_least_at (reader_at.rs) rely on: one read that fills the buffer *)
(* from its front with the bytes at the offset, as many as are needed.     *)
(* CdIterator, ReaderLocation and Records take such reads as single steps. *)
(*                                                                         *)
(* A byte is modelled by its position in the data (Junk before a read).    *)
(***************************************************************************)
EXTENDS Integers

CONSTANTS
  Length,    (* bytes the reader has                                       *)
  Calls,     (* calls that may be made                                     *)
  ReadFaults (* may a read fail?                                           *)

(***************************************************************************)
(* A call: which of the three, the length of its buffer, how many bytes it *)
(* must have at least (an exact read needs all), and from where.           *)
(***************************************************************************)
Call ==
  [kind : {"exact", "try", "least"}, len : Nat, size : Nat, offset : Nat]

VARIABLES
  call,      (* the call                                                   *)
  buffer,    (* its buffer                                                 *)
  outcome    (* what it returned, or Pending                               *)

vars == <<call, buffer, outcome>>

Junk == -1

NoCall == [kind |-> "none", len |-> 0, size |-> 0, offset |-> 0]

Pending == [kind |-> "pending", n |-> 0]
Ok(n) == [kind |-> "ok", n |-> n]
Error(what) == [kind |-> what, n |-> 0]

Least(a, b) == IF a <= b THEN a ELSE b

\* read_at_least_at refuses a buffer that cannot hold what it must have.
TooSmall(c) == c.kind = "least" /\ c.len < c.size

\* try_read_at_least_at asks for no more than the buffer holds.
Need(c) == IF c.kind = "exact" THEN c.len ELSE Least(c.size, c.len)

\* The bytes there are for it.
AtHand(c) ==
  IF c.offset >= Length THEN 0 ELSE Least(c.len, Length - c.offset)

Empty(c) == [i \in 0..(c.len - 1) |-> Junk]

Front(c, n) ==
  [i \in 0..(c.len - 1) |-> IF i < n THEN c.offset + i ELSE Junk]

Init ==
  /\ call = NoCall
  /\ buffer = Empty(call)
  /\ outcome = Ok(0)

Begin(c) ==
  /\ outcome # Pending
  /\ call' = c /\ buffer' = Empty(c) /\ outcome' = Pending

Return(n, a) ==
  /\ buffer' = Front(call, n) /\ outcome' = a
  /\ UNCHANGED call

Waits == outcome = Pending /\ ~TooSmall(call)

Refused ==
  /\ outcome = Pending /\ TooSmall(call)
  /\ Return(0, Error("BufferTooSmall"))

\* At least what is needed, at most what the buffer and the data have.
Enough == Waits /\ \E n \in Need(call)..AtHand(call) : Return(n, Ok(n))

\* The data ends before: only a try is content with all there is.
TooFew ==
  /\ Waits /\ AtHand(call) < Need(call)
  /\ Return(AtHand(call),
            IF call.kind = "try" THEN Ok(AtHand(call)) ELSE Error("Eof"))

\* A read fails, with what was read before it in the buffer.
Fails ==
  /\ Waits /\ ReadFaults
  /\ \E n \in 0..(Need(call) - 1) :
       n <= AtHand(call) /\ Return(n, Error("Io"))

Next ==
  \/ \E c \in Calls : Begin(c)
  \/ Refused
  \/ Enough
  \/ TooFew
  \/ Fails

\* Every call is answered.
Answers == outcome = Pending ~> outcome # Pending

Spec == Init /\ [][Next]_vars /\ Answers

=============================================================================
