----------------------------- MODULE MCReaderAt -----------------------------
(***************************************************************************)
(* The two parts of reader_at.rs that read in several steps: threads under *)
(* a mutex, and the loops for a least number of bytes.  They share no      *)
(* state, so one of them moves and the other stands still.                 *)
(***************************************************************************)
EXTENDS MutexReader, ReadLoop

VARIABLE part

ReaderAtInit ==
  /\ part \in {"threads", "loop"}
  /\ Init /\ LoopInit

ReaderAtNext ==
  /\ UNCHANGED part
  /\ \/ part = "threads" /\ Next /\ UNCHANGED loopVars
     \/ part = "loop" /\ LoopNext /\ UNCHANGED vars

\* The fairness of FairSpec and LoopSpec.
ReaderAtSpec ==
  /\ ReaderAtInit /\ [][ReaderAtNext]_<<part, vars, loopVars>>
  /\ \A t \in Threads : WF_vars(Proceed(t))
  /\ WF_vars(\E t \in Threads : Lock(t) \/ UnwrapPanics(t))
  /\ WF_loopVars(Step)

\* Reads in the middle, across and behind the end of three bytes.
SomeRequests ==
  {[offset |-> 0, len |-> 2], [offset |-> 2, len |-> 2],
   [offset |-> 5, len |-> 1]}

\* Buffers at any place of the data, its end and behind it, for sizes up to
\* more than they hold.
SomeCalls ==
  {c \in [kind : {"exact", "try", "least"}, len : 0..3, size : 0..4,
          offset : 0..(Length + 1)] :
     c.kind = "exact" => c.size = c.len}

=============================================================================
