----------------------------- MODULE MutexReader -----------------------------
(***************************************************************************)
(* MutexReader::read_at (reader_at.rs): threads that share a reader with   *)
(* one position, by seeking, reading and seeking back under a mutex.       *)
(*                                                                         *)
(* A byte is modelled by its offset, so the bytes of one read are modelled *)
(* by where they begin and how many they are.  The inner reader may fail   *)
(* or panic in any of its calls; a panic under the lock poisons the mutex, *)
(* and lock().unwrap() then panics too.                                    *)
(***************************************************************************)
EXTENDS Integers

CONSTANTS
  Threads,    (* the threads that share the reader                         *)
  Requests,   (* the offsets and buffer lengths they may ask for           *)
  Size,       (* bytes in the inner reader                                 *)
  Home,       (* its position when the threads start                       *)
  Nobody,     (* the owner of a free lock                                  *)
  IoFaults,   (* may the inner reader fail?                                *)
  Panics      (* may it panic?                                             *)

ASSUME ReaderAssumption ==
  /\ Size \in Nat /\ Home \in Nat
  /\ Requests \subseteq [offset : Nat, len : Nat]
  /\ Nobody \notin Threads
  /\ IoFaults \in BOOLEAN /\ Panics \in BOOLEAN

VARIABLES
  pc,         (* where each thread is: see Steps                           *)
  request,    (* its arguments                                             *)
  lock,       (* who holds the lock                                        *)
  poisoned,
  position,   (* of the inner reader                                       *)
  original,   (* each thread's original_position                           *)
  result,     (* each thread's result                                      *)
  answer,     (* what its last call returned                               *)
  faulted     (* history: did an inner call fail or panic?                 *)

mutex == <<lock, poisoned>>
vars == <<pc, request, mutex, position, original, result, answer, faulted>>

Idle == [offset |-> -1, len |-> 0]
Dead == [offset |-> -2, len |-> 0]
None == [kind |-> "none", from |-> 0, count |-> 0]
Failure == [kind |-> "error", from |-> 0, count |-> 0]

Inside == {"locked", "seek", "read", "restore"}
Steps == {"idle", "wait", "dead"} \cup Inside

Init ==
  /\ pc = [t \in Threads |-> "idle"]
  /\ request = [t \in Threads |-> Idle]
  /\ lock = Nobody /\ poisoned = FALSE
  /\ position = Home
  /\ original = [t \in Threads |-> 0]
  /\ result = [t \in Threads |-> None]
  /\ answer = [t \in Threads |-> None]
  /\ faulted = FALSE

Goto(t, step) == pc' = [pc EXCEPT ![t] = step]

\* The local variables of read_at go out of scope.
DropLocals(t) ==
  /\ original' = [original EXCEPT ![t] = 0]
  /\ result' = [result EXCEPT ![t] = None]

\* read_at returns: the guard is dropped.
Return(t, a) ==
  /\ Goto(t, "idle")
  /\ request' = [request EXCEPT ![t] = Idle]
  /\ answer' = [answer EXCEPT ![t] = a]
  /\ lock' = Nobody /\ UNCHANGED poisoned
  /\ DropLocals(t)

-----------------------------------------------------------------------------

\* A thread calls read_at.
Call(t, r) ==
  /\ pc[t] = "idle"
  /\ Goto(t, "wait")
  /\ request' = [request EXCEPT ![t] = r]
  /\ UNCHANGED <<mutex, position, original, result, answer, faulted>>

\* Mutants: the lock is not waited for; its poison is ignored.
BargeIn(t) ==
  /\ pc[t] = "wait" /\ ~poisoned
  /\ Goto(t, "locked")
  /\ lock' = t
  /\ UNCHANGED <<request, poisoned, position, original, result, answer, faulted>>

LockPoisoned(t) ==
  /\ pc[t] = "wait" /\ lock = Nobody
  /\ Goto(t, "locked")
  /\ lock' = t
  /\ UNCHANGED <<request, poisoned, position, original, result, answer, faulted>>

Lock(t) ==
  /\ pc[t] = "wait" /\ lock = Nobody /\ ~poisoned
  /\ Goto(t, "locked")
  /\ lock' = t
  /\ UNCHANGED <<request, poisoned, position, original, result, answer, faulted>>

\* lock().unwrap() on a poisoned mutex.
UnwrapPanics(t) ==
  /\ pc[t] = "wait" /\ lock = Nobody /\ poisoned
  /\ Goto(t, "dead")
  /\ request' = [request EXCEPT ![t] = Dead]
  /\ UNCHANGED <<mutex, position, original, result, answer, faulted>>

\* Mutant: the saved position is that of the last seek.
StreamPositionStale(t) ==
  /\ pc[t] = "locked"
  /\ original' = [original EXCEPT ![t] = request[t].offset]
  /\ Goto(t, "seek")
  /\ UNCHANGED <<request, mutex, position, result, answer, faulted>>

StreamPosition(t) ==
  /\ pc[t] = "locked"
  /\ original' = [original EXCEPT ![t] = position]
  /\ Goto(t, "seek")
  /\ UNCHANGED <<request, mutex, position, result, answer, faulted>>

\* Mutant: the offset is taken back from the current position.
SeekBack(t) ==
  /\ pc[t] = "seek"
  /\ position' = position - request[t].offset
  /\ Goto(t, "read")
  /\ UNCHANGED <<request, mutex, original, result, answer, faulted>>

Seek(t) ==
  /\ pc[t] = "seek"
  /\ position' = request[t].offset
  /\ Goto(t, "read")
  /\ UNCHANGED <<request, mutex, original, result, answer, faulted>>

\* How many bytes the inner reader may return for a buffer of n bytes.
Counts(at, n) ==
  IF n = 0 \/ at >= Size THEN {0} ELSE {k \in 1..n : at + k <= Size}

\* A failed call of the inner reader leaves it anywhere.
Misplaced == faulted' = TRUE /\ position' \in 0..Size

\* The result is kept, success or not.
Read(t) ==
  /\ pc[t] = "read"
  /\ \/ \E k \in Counts(position, request[t].len) :
          /\ result' = [result EXCEPT ![t] =
                          [kind |-> "bytes", from |-> position, count |-> k]]
          /\ position' = position + k
          /\ UNCHANGED faulted
     \/ /\ IoFaults
        /\ result' = [result EXCEPT ![t] = Failure]
        /\ Misplaced
  /\ Goto(t, "restore")
  /\ UNCHANGED <<request, mutex, original, answer>>

Restore(t) ==
  /\ pc[t] = "restore"
  /\ position' = original[t]
  /\ Return(t, result[t])
  /\ UNCHANGED faulted

\* A seek fails: the call returns its error at once, and drops a result it
\* may have.
SeekFails(t) ==
  /\ IoFaults /\ pc[t] \in {"locked", "seek", "restore"}
  /\ Return(t, Failure)
  /\ Misplaced

\* Mutant: the panic does not unlock.
PanicLocked(t) ==
  /\ Panics /\ pc[t] \in Inside
  /\ Goto(t, "dead")
  /\ request' = [request EXCEPT ![t] = Dead]
  /\ poisoned' = TRUE /\ UNCHANGED lock
  /\ Misplaced
  /\ DropLocals(t)
  /\ UNCHANGED answer

Panic(t) ==
  /\ Panics /\ pc[t] \in Inside
  /\ Goto(t, "dead")
  /\ request' = [request EXCEPT ![t] = Dead]
  /\ lock' = Nobody /\ poisoned' = TRUE
  /\ Misplaced
  /\ DropLocals(t)
  /\ UNCHANGED answer

\* What a thread does once it has the lock.
Proceed(t) ==
  \/ StreamPosition(t)
  \/ Seek(t)
  \/ Read(t)
  \/ Restore(t)
  \/ SeekFails(t)
  \/ Panic(t)

Next == \E t \in Threads :
  \/ \E r \in Requests : Call(t, r)
  \/ Lock(t)
  \/ UnwrapPanics(t)
  \/ Proceed(t)

Spec == Init /\ [][Next]_vars

(***************************************************************************)
(* A running thread is scheduled, and a free lock is given to somebody who *)
(* waits for it; that is not always the same thread's turn, so a thread    *)
(* may wait for ever when others keep calling.                             *)
(***************************************************************************)
FairSpec ==
  /\ Spec
  /\ \A t \in Threads : WF_vars(Proceed(t))
  /\ WF_vars(\E t \in Threads : Lock(t) \/ UnwrapPanics(t))

-----------------------------------------------------------------------------
(* Properties.                                                             *)

Asked == Requests \cup {Idle, Dead}

Result == [kind : {"none", "bytes", "error"}, from : Nat, count : Nat]

TypeOK ==
  /\ pc \in [Threads -> Steps]
  /\ request \in [Threads -> Asked]
  /\ lock \in Threads \cup {Nobody} /\ poisoned \in BOOLEAN
  /\ position \in Nat
  /\ original \in [Threads -> Nat]
  /\ result \in [Threads -> Result] /\ answer \in [Threads -> Result]
  /\ faulted \in BOOLEAN

(***************************************************************************)
(* Threads do not disturb each other: each call returns what an atomic     *)
(* positional read may return, although all of them move one position.     *)
(***************************************************************************)
Positional == INSTANCE PositionalRead

ReadsPositionally == Positional!Spec

(***************************************************************************)
(* Unless the inner reader failed, the position is back where it was       *)
(* whenever the lock is free, so that reads through it (MutexReader is     *)
(* Read and Seek too) go on where they stood.                              *)
(***************************************************************************)
PositionKept == lock = Nobody /\ ~faulted => position = Home

(***************************************************************************)
(* That, and the types: of a thread, the step it has come to under the     *)
(* lock and what it has read so far.                                       *)
(***************************************************************************)
SharedSound == TypeOK /\ PositionKept

(***************************************************************************)
(* After a panic under the lock nobody gets an answer any more, so nobody  *)
(* reads from a position that the panic left behind.                       *)
(***************************************************************************)
PoisonStops == [][poisoned => answer' = answer]_vars

(***************************************************************************)
(* Whoever takes the lock gives it back, on every way out of read_at, and  *)
(* it is never lost: as long as a thread waits, again and again it gets    *)
(* its turn (if only to die of the poison) or somebody is inside.          *)
(***************************************************************************)
LockGoesRound ==
  \A t \in Threads :
    /\ lock = t ~> lock # t
    /\ pc[t] = "wait" ~> (pc[t] # "wait" \/ \E u \in Threads : pc[u] \in Inside)

=============================================================================
