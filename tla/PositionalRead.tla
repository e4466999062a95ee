--------------------------- MODULE PositionalRead ---------------------------
(***************************************************************************)
(* What ReaderAt::read_at promises to threads that share a reader: a call  *)
(* is answered with bytes from the offset it asked for, or with an error,  *)
(* as if it had the reader to itself.                                      *)
(***************************************************************************)
EXTENDS Integers

CONSTANTS Threads, Requests, Size

VARIABLES
  request,  (* what a thread has asked for, or Idle                        *)
  answer    (* what its last call was answered with                        *)

vars == <<request, answer>>

Idle == [offset |-> -1, len |-> 0]

None == [kind |-> "none", from |-> 0, count |-> 0]

\* A thread that died in a call asks and answers no more.
Dead == [offset |-> -2, len |-> 0]

Init ==
  /\ request = [t \in Threads |-> Idle]
  /\ answer = [t \in Threads |-> None]

Call(t, r) ==
  /\ request[t] = Idle
  /\ request' = [request EXCEPT ![t] = r]
  /\ UNCHANGED answer

\* A call may return fewer bytes than asked for, but none only at the end of
\* the data.
Counts(offset, len) ==
  IF len = 0 \/ offset >= Size THEN {0}
  ELSE {k \in 1..len : offset + k <= Size}

Bytes(t, k) ==
  [kind |-> "bytes", from |-> request[t].offset, count |-> k]

Failure == [kind |-> "error", from |-> 0, count |-> 0]

Return(t) ==
  /\ request[t] \notin {Idle, Dead}
  /\ request' = [request EXCEPT ![t] = Idle]
  /\ \/ \E k \in Counts(request[t].offset, request[t].len) :
          answer' = [answer EXCEPT ![t] = Bytes(t, k)]
     \/ answer' = [answer EXCEPT ![t] = Failure]

Die(t) ==
  /\ request[t] \notin {Idle, Dead}
  /\ request' = [request EXCEPT ![t] = Dead]
  /\ UNCHANGED answer

Next == \E t \in Threads :
  \/ \E r \in Requests : Call(t, r)
  \/ Return(t)
  \/ Die(t)

Spec == Init /\ [][Next]_vars

=============================================================================
