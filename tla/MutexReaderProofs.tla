------------------------- MODULE MutexReaderProofs --------------------------
(***************************************************************************)
(* Any number of threads can share a MutexReader: their reads are those of *)
(* PositionalRead, and the position comes back.                            *)
(***************************************************************************)
EXTENDS MutexReader, TLAPS

(***************************************************************************)
(* What holds of a thread: it is inside exactly as long as it has the      *)
(* lock, reads where it was asked to, and remembers where the position     *)
(* was.                                                                    *)
(***************************************************************************)
Owns(t) == pc[t] \in Inside <=> lock = t

Asking(t) ==
  /\ pc[t] = "idle" => request[t] = Idle
  /\ pc[t] = "dead" => request[t] = Dead
  /\ pc[t] \notin {"idle", "dead"} => request[t] \in Requests

InPlace(t) ==
  /\ pc[t] = "locked" /\ ~faulted => position = Home
  /\ pc[t] \in {"seek", "read", "restore"} /\ ~faulted => original[t] = Home
  /\ pc[t] = "read" => position = request[t].offset

Right(t) ==
  pc[t] = "restore" =>
    \/ result[t] = Failure
    \/ \E k \in Counts(request[t].offset, request[t].len) :
         result[t] = [kind |-> "bytes", from |-> request[t].offset, count |-> k]

ThreadInv(t) == Owns(t) /\ Asking(t) /\ InPlace(t) /\ Right(t)

PoisonFrees == poisoned => lock = Nobody

MutexInv ==
  /\ TypeOK /\ PositionKept /\ PoisonFrees
  /\ \A t \in Threads : ThreadInv(t)

USE DEF MutexInv, ThreadInv, mutex

\* What the constants and the other constructors are.
LEMMA Values ==
  /\ Size \in Nat /\ Home \in Nat /\ Nobody \notin Threads
  /\ Requests \subseteq [offset : Nat, len : Nat]
  /\ Idle \notin Requests /\ Dead \notin Requests /\ Idle # Dead
  /\ Failure \in Result /\ None \in Result
  /\ \A at \in Nat, n \in Nat : Counts(at, n) \subseteq Nat
  /\ 0..Size \subseteq Nat
<1>1. /\ Size \in Nat /\ Home \in Nat /\ Nobody \notin Threads
      /\ Requests \subseteq [offset : Nat, len : Nat]
  BY ReaderAssumption
<1>2. Idle \notin Requests /\ Dead \notin Requests
  <2>1. \A r \in Requests : r.offset \in Nat
    BY <1>1
  <2>2. Idle.offset = -1 /\ Dead.offset = -2
    BY DEF Idle, Dead
  <2>3. QED
    BY <2>1, <2>2
<1>3. Idle # Dead
  <2>1. Idle.offset = -1 /\ Dead.offset = -2
    BY DEF Idle, Dead
  <2>2. QED
    BY <2>1
<1>4. Failure \in Result /\ None \in Result
  BY DEF Failure, None, Result
<1>5. \A at \in Nat, n \in Nat : Counts(at, n) \subseteq Nat
  BY DEF Counts
<1>6. 0..Size \subseteq Nat
  BY <1>1
<1>7. QED
  BY <1>1, <1>2, <1>3, <1>4, <1>5, <1>6

\* Nobody else is inside.
LEMMA Alone ==
  ASSUME MutexInv, NEW t \in Threads, pc[t] \in Inside
  PROVE  /\ lock = t /\ ~poisoned
         /\ \A u \in Threads \ {t} : pc[u] \notin Inside
BY Values DEF Owns, PoisonFrees

\* A thread that is not inside does not mind what happens inside.
LEMMA Bystander ==
  ASSUME MutexInv, NEW u \in Threads, pc[u] \notin Inside,
         pc'[u] = pc[u], request'[u] = request[u], lock' # u
  PROVE  ThreadInv(u)'
BY DEF Owns, Asking, InPlace, Right, Inside

LEMMA MutexInit == Init => MutexInv
<1> SUFFICES ASSUME Init PROVE MutexInv
  OBVIOUS
<1>1. TypeOK
  BY Values DEF Init, TypeOK, Asked, Steps, Inside
<1>2. \A t \in Threads : ThreadInv(t)
  BY Values DEF Init, Owns, Asking, InPlace, Right, Inside
<1>3. QED
  BY <1>1, <1>2 DEF Init, PositionKept, PoisonFrees

-----------------------------------------------------------------------------
(* Outside of the lock.                                                    *)

LEMMA CallStep ==
  ASSUME MutexInv, NEW t \in Threads, NEW r \in Requests, Call(t, r)
  PROVE  MutexInv'
<1>1. TypeOK'
  BY DEF Call, Goto, TypeOK, Asked, Steps, Inside
<1>2. ASSUME NEW u \in Threads PROVE ThreadInv(u)'
  <2>1. CASE u = t
    BY <2>1 DEF Call, Goto, TypeOK, Owns, Asking, InPlace, Right, Inside
  <2>2. CASE u # t
    BY <2>2 DEF Call, Goto, TypeOK, Owns, Asking, InPlace, Right
  <2>3. QED
    BY <2>1, <2>2
<1>3. (PositionKept /\ PoisonFrees)'
  BY DEF Call, PositionKept, PoisonFrees
<1>4. QED
  BY <1>1, <1>2, <1>3

LEMMA LockStep ==
  ASSUME MutexInv, NEW t \in Threads, Lock(t)
  PROVE  MutexInv'
<1>1. TypeOK'
  BY DEF Lock, Goto, TypeOK, Steps, Inside
<1>2. ASSUME NEW u \in Threads PROVE ThreadInv(u)'
  <2>1. CASE u = t
    BY <2>1 DEF Lock, Goto, TypeOK, Owns, Asking, InPlace, Right, Inside,
                PositionKept
  <2>2. CASE u # t
    <3>1. pc[u] \notin Inside
      BY Values DEF Lock, Owns
    <3>2. QED
      BY <2>2, <3>1, Bystander DEF Lock, Goto, TypeOK
  <2>3. QED
    BY <2>1, <2>2
<1>3. (PositionKept /\ PoisonFrees)'
  BY Values DEF Lock, PositionKept, PoisonFrees
<1>4. QED
  BY <1>1, <1>2, <1>3

LEMMA UnwrapStep ==
  ASSUME MutexInv, NEW t \in Threads, UnwrapPanics(t)
  PROVE  MutexInv'
<1>1. TypeOK'
  BY DEF UnwrapPanics, Goto, TypeOK, Asked, Steps
<1>2. ASSUME NEW u \in Threads PROVE ThreadInv(u)'
  <2>1. CASE u = t
    BY <2>1, Values DEF UnwrapPanics, Goto, TypeOK, Owns, Asking, InPlace, Right, Inside
  <2>2. CASE u # t
    BY <2>2 DEF UnwrapPanics, Goto, TypeOK, Owns, Asking, InPlace, Right
  <2>3. QED
    BY <2>1, <2>2
<1>3. (PositionKept /\ PoisonFrees)'
  BY DEF UnwrapPanics, PositionKept, PoisonFrees
<1>4. QED
  BY <1>1, <1>2, <1>3

-----------------------------------------------------------------------------
(* Under the lock.                                                         *)

\* It suffices to look at the thread that takes the step.
LEMMA InsideStep ==
  ASSUME MutexInv, NEW t \in Threads, pc[t] \in Inside,
         TypeOK', ThreadInv(t)', (PositionKept /\ PoisonFrees)',
         lock' \in {t, Nobody},
         \A u \in Threads \ {t} : pc'[u] = pc[u] /\ request'[u] = request[u]
  PROVE  MutexInv'
<1>1. ASSUME NEW u \in Threads, u # t PROVE ThreadInv(u)'
  <2>1. pc[u] \notin Inside /\ lock' # u
    BY <1>1, Alone, Values
  <2>2. QED
    BY <1>1, <2>1, Bystander
<1>2. QED
  BY <1>1

LEMMA StreamPositionStep ==
  ASSUME MutexInv, NEW t \in Threads, StreamPosition(t)
  PROVE  MutexInv'
<1>1. pc[t] \in Inside /\ lock = t /\ ~poisoned
  BY Alone DEF StreamPosition, Inside
<1>2. TypeOK'
  BY DEF StreamPosition, Goto, TypeOK, Steps, Inside
<1>3. ThreadInv(t)'
  BY DEF StreamPosition, Goto, TypeOK, Owns, Asking, InPlace, Right, Inside
<1>4. (PositionKept /\ PoisonFrees)'
  BY <1>1, Values DEF StreamPosition, PositionKept, PoisonFrees
<1>5. \A u \in Threads \ {t} : pc'[u] = pc[u] /\ request'[u] = request[u]
  BY DEF StreamPosition, Goto, TypeOK
<1>6. lock' \in {t, Nobody}
  BY <1>1 DEF StreamPosition
<1>7. QED
  BY <1>1, <1>2, <1>3, <1>4, <1>5, <1>6, InsideStep

LEMMA SeekStep ==
  ASSUME MutexInv, NEW t \in Threads, Seek(t)
  PROVE  MutexInv'
<1>1. pc[t] \in Inside /\ lock = t /\ ~poisoned
  BY Alone DEF Seek, Inside
<1>2. request[t] \in [offset : Nat, len : Nat]
  BY Values DEF Seek, Asking
<1>3. TypeOK'
  BY <1>2 DEF Seek, Goto, TypeOK, Steps, Inside
<1>4. ThreadInv(t)'
  BY DEF Seek, Goto, TypeOK, Owns, Asking, InPlace, Right, Inside
<1>5. (PositionKept /\ PoisonFrees)'
  BY <1>1, Values DEF Seek, PositionKept, PoisonFrees
<1>6. \A u \in Threads \ {t} : pc'[u] = pc[u] /\ request'[u] = request[u]
  BY DEF Seek, Goto, TypeOK
<1>7. lock' \in {t, Nobody}
  BY <1>1 DEF Seek
<1>8. QED
  BY <1>1, <1>3, <1>4, <1>5, <1>6, <1>7, InsideStep

LEMMA ReadStep ==
  ASSUME MutexInv, NEW t \in Threads, Read(t)
  PROVE  MutexInv'
<1>1. pc[t] \in Inside /\ lock = t /\ ~poisoned /\ pc[t] = "read"
  BY Alone DEF Read, Inside
<1>2. /\ request[t] \in [offset : Nat, len : Nat] /\ request[t] \in Requests
      /\ position = request[t].offset /\ position \in Nat
  BY <1>1, Values DEF Asking, InPlace, TypeOK
<1>3. /\ pc' = [pc EXCEPT ![t] = "restore"]
      /\ UNCHANGED <<request, lock, poisoned, original, answer>>
  BY DEF Read, Goto
<1>4. \/ \E k \in Counts(position, request[t].len) :
           /\ result' = [result EXCEPT ![t] =
                          [kind |-> "bytes", from |-> position, count |-> k]]
           /\ position' = position + k
           /\ UNCHANGED faulted
      \/ /\ result' = [result EXCEPT ![t] = Failure]
         /\ faulted' = TRUE /\ position' \in 0..Size
  BY DEF Read, Misplaced
<1>5. result' \in [Threads -> Result] /\ position' \in Nat /\ faulted' \in BOOLEAN
      /\ (faulted => faulted')
  <2>1. ASSUME NEW k \in Counts(position, request[t].len),
               result' = [result EXCEPT ![t] =
                           [kind |-> "bytes", from |-> position, count |-> k]],
               position' = position + k, UNCHANGED faulted
        PROVE  /\ result' \in [Threads -> Result] /\ position' \in Nat
               /\ faulted' \in BOOLEAN /\ (faulted => faulted')
    <3>1. k \in Nat
      BY <1>2, Values
    <3>2. [kind |-> "bytes", from |-> position, count |-> k] \in Result
      BY <1>2, <3>1 DEF Result
    <3>3. QED
      BY <1>2, <2>1, <3>1, <3>2 DEF TypeOK
  <2>2. CASE /\ result' = [result EXCEPT ![t] = Failure]
             /\ faulted' = TRUE /\ position' \in 0..Size
    BY <2>2, Values DEF TypeOK
  <2>3. QED
    BY <1>4, <2>1, <2>2
<1>6. TypeOK'
  BY <1>3, <1>5 DEF TypeOK, Steps, Inside
<1>7. (Owns(t) /\ Asking(t) /\ InPlace(t))'
  BY <1>1, <1>2, <1>3, <1>5 DEF TypeOK, Owns, Asking, InPlace, Inside
<1>8. Right(t)'
  BY <1>2, <1>3, <1>4 DEF TypeOK, Right
<1>9. (PositionKept /\ PoisonFrees)'
  BY <1>1, <1>3, Values DEF PositionKept, PoisonFrees
<1>10. \A u \in Threads \ {t} : pc'[u] = pc[u] /\ request'[u] = request[u]
  BY <1>3 DEF TypeOK
<1>11. lock' \in {t, Nobody}
  BY <1>1, <1>3
<1>12. QED
  BY <1>1, <1>6, <1>7, <1>8, <1>9, <1>10, <1>11, InsideStep

\* A call that returns leaves the lock free.
LEMMA ReturnStep ==
  ASSUME MutexInv, NEW t \in Threads, pc[t] \in Inside,
         NEW a \in Result, Return(t, a),
         position' \in Nat, faulted' \in BOOLEAN, ~faulted' => position' = Home
  PROVE  MutexInv'
<1>1. lock = t /\ ~poisoned
  BY Alone
<1>2. /\ pc' = [pc EXCEPT ![t] = "idle"]
      /\ request' = [request EXCEPT ![t] = Idle]
      /\ answer' = [answer EXCEPT ![t] = a]
      /\ lock' = Nobody /\ UNCHANGED poisoned
      /\ original' = [original EXCEPT ![t] = 0]
      /\ result' = [result EXCEPT ![t] = None]
  BY DEF Return, Goto, DropLocals
<1>3. TypeOK'
  BY <1>2, Values DEF TypeOK, Asked, Steps
<1>4. ThreadInv(t)'
  BY <1>2, Values DEF TypeOK, Owns, Asking, InPlace, Right, Inside
<1>5. (PositionKept /\ PoisonFrees)'
  BY <1>1, <1>2 DEF PositionKept, PoisonFrees
<1>6. \A u \in Threads \ {t} : pc'[u] = pc[u] /\ request'[u] = request[u]
  BY <1>2 DEF TypeOK
<1>7. QED
  BY <1>2, <1>3, <1>4, <1>5, <1>6, InsideStep

LEMMA RestoreStep ==
  ASSUME MutexInv, NEW t \in Threads, Restore(t)
  PROVE  MutexInv'
<1>1. pc[t] \in Inside /\ pc[t] = "restore"
  BY DEF Restore, Inside
<1>2. position' = original[t] /\ Return(t, result[t]) /\ UNCHANGED faulted
  BY DEF Restore
<1>3. result[t] \in Result /\ position' \in Nat /\ faulted' \in BOOLEAN
  BY <1>2 DEF TypeOK
<1>4. ~faulted' => position' = Home
  BY <1>1, <1>2 DEF InPlace
<1>5. QED
  BY <1>1, <1>2, <1>3, <1>4, ReturnStep

LEMMA SeekFailsStep ==
  ASSUME MutexInv, NEW t \in Threads, SeekFails(t)
  PROVE  MutexInv'
<1>1. pc[t] \in Inside
  BY DEF SeekFails, Inside
<1>2. faulted' = TRUE /\ position' \in Nat /\ Failure \in Result
  BY Values DEF SeekFails, Misplaced
<1>3. QED
  BY <1>1, <1>2, ReturnStep DEF SeekFails

LEMMA PanicStep ==
  ASSUME MutexInv, NEW t \in Threads, Panic(t)
  PROVE  MutexInv'
<1>1. pc[t] \in Inside
  BY DEF Panic
<1>2. /\ pc' = [pc EXCEPT ![t] = "dead"]
      /\ request' = [request EXCEPT ![t] = Dead]
      /\ lock' = Nobody /\ poisoned' = TRUE
      /\ faulted' = TRUE /\ position' \in Nat
      /\ original' = [original EXCEPT ![t] = 0]
      /\ result' = [result EXCEPT ![t] = None]
      /\ UNCHANGED answer
  BY Values DEF Panic, Goto, Misplaced, DropLocals
<1>3. TypeOK'
  BY <1>2, Values DEF TypeOK, Asked, Steps
<1>4. ThreadInv(t)'
  BY <1>2, Values DEF TypeOK, Owns, Asking, InPlace, Right, Inside
<1>5. (PositionKept /\ PoisonFrees)'
  BY <1>2 DEF PositionKept, PoisonFrees
<1>6. \A u \in Threads \ {t} : pc'[u] = pc[u] /\ request'[u] = request[u]
  BY <1>2 DEF TypeOK
<1>7. QED
  BY <1>1, <1>2, <1>3, <1>4, <1>5, <1>6, InsideStep

LEMMA MutexStep == MutexInv /\ [Next]_vars => MutexInv'
<1> SUFFICES ASSUME MutexInv, [Next]_vars
             PROVE  MutexInv'
  OBVIOUS
<1>1. ASSUME NEW t \in Threads, NEW r \in Requests, Call(t, r) PROVE MutexInv'
  BY <1>1, CallStep
<1>2. ASSUME NEW t \in Threads, Lock(t) \/ UnwrapPanics(t) PROVE MutexInv'
  BY <1>2, LockStep, UnwrapStep
<1>3. ASSUME NEW t \in Threads, Proceed(t) PROVE MutexInv'
  BY <1>3, StreamPositionStep, SeekStep, ReadStep, RestoreStep, SeekFailsStep,
     PanicStep DEF Proceed
<1>4. CASE UNCHANGED vars
  BY <1>4 DEF vars, TypeOK, PositionKept, PoisonFrees, Owns, Asking, InPlace, Right
<1>5. QED
  BY <1>1, <1>2, <1>3, <1>4 DEF Next

-----------------------------------------------------------------------------
(* Every step is one of PositionalRead, or changes nothing there.          *)

PositionalStep == Positional!Next \/ UNCHANGED Positional!vars

LEMMA ImplementsCall ==
  ASSUME MutexInv, NEW t \in Threads, NEW r \in Requests, Call(t, r)
  PROVE  PositionalStep
<1>1. request[t] = Positional!Idle
  BY DEF Call, Asking, Idle, Positional!Idle
<1>2. Positional!Call(t, r)
  BY <1>1 DEF Call, Positional!Call
<1>3. QED
  BY <1>2 DEF PositionalStep, Positional!Next

LEMMA ImplementsReturn ==
  ASSUME MutexInv, NEW t \in Threads, pc[t] \in Inside, NEW a, Return(t, a),
         a = Failure \/ \E k \in Counts(request[t].offset, request[t].len) :
           a = [kind |-> "bytes", from |-> request[t].offset, count |-> k]
  PROVE  PositionalStep
<1>1. request[t] \in Requests
  BY DEF Asking, Inside
<1>2. request[t] \notin {Positional!Idle, Positional!Dead}
  BY <1>1, Values DEF Idle, Dead, Positional!Idle, Positional!Dead
<1>3. Positional!Return(t)
  BY <1>2 DEF Return, Positional!Return, Positional!Bytes, Positional!Failure,
              Failure, Counts, Positional!Counts, Idle, Positional!Idle
<1>4. QED
  BY <1>3 DEF PositionalStep, Positional!Next

LEMMA ImplementsDeath ==
  ASSUME MutexInv, NEW t \in Threads, pc[t] \notin {"idle", "dead"},
         request' = [request EXCEPT ![t] = Dead], UNCHANGED answer
  PROVE  PositionalStep
<1>1. request[t] \in Requests
  BY DEF Asking
<1>2. Positional!Die(t)
  BY <1>1, Values DEF Positional!Die, Idle, Dead, Positional!Idle, Positional!Dead
<1>3. QED
  BY <1>2 DEF PositionalStep, Positional!Next

LEMMA ImplementsStep == MutexInv /\ [Next]_vars => PositionalStep
<1> SUFFICES ASSUME MutexInv, [Next]_vars
             PROVE  PositionalStep
  OBVIOUS
<1>1. ASSUME NEW t \in Threads, NEW r \in Requests, Call(t, r)
      PROVE  PositionalStep
  BY <1>1, ImplementsCall
<1>2. ASSUME UNCHANGED <<request, answer>> PROVE PositionalStep
  BY <1>2 DEF PositionalStep, Positional!vars
<1>3. ASSUME NEW t \in Threads, UnwrapPanics(t) PROVE PositionalStep
  BY <1>3, ImplementsDeath DEF UnwrapPanics
<1>4. ASSUME NEW t \in Threads, Restore(t) PROVE PositionalStep
  <2>1. /\ pc[t] \in Inside /\ Return(t, result[t])
        /\ result[t] = Failure \/
             \E k \in Counts(request[t].offset, request[t].len) :
               result[t] = [kind |-> "bytes", from |-> request[t].offset, count |-> k]
    BY <1>4 DEF Restore, Right, Inside
  <2>2. QED
    BY <2>1, ImplementsReturn
<1>5. ASSUME NEW t \in Threads, SeekFails(t) PROVE PositionalStep
  <2>1. pc[t] \in Inside /\ Return(t, Failure)
    BY <1>5 DEF SeekFails, Inside
  <2>2. QED
    BY <2>1, ImplementsReturn
<1>6. ASSUME NEW t \in Threads, Panic(t) PROVE PositionalStep
  <2>1. pc[t] \notin {"idle", "dead"}
    BY <1>6 DEF Panic, Inside
  <2>2. QED
    BY <1>6, <2>1, ImplementsDeath DEF Panic
<1>7. QED
  BY <1>1, <1>2, <1>3, <1>4, <1>5, <1>6
     DEF Next, Proceed, Lock, StreamPosition, Seek, Read, vars

\* A step that follows a panic answers nobody.
LEMMA PoisonStep == MutexInv /\ [Next]_vars => [poisoned => answer' = answer]_vars
<1> SUFFICES ASSUME MutexInv, Next, poisoned PROVE answer' = answer
  OBVIOUS
<1>1. \A t \in Threads : pc[t] \notin Inside
  BY Values DEF Owns, PoisonFrees
<1>2. \A t \in Threads : ~Restore(t) /\ ~SeekFails(t)
  BY <1>1 DEF Restore, SeekFails, Inside
<1>3. QED
  BY <1>2 DEF Next, Proceed, Call, Lock, UnwrapPanics, StreamPosition, Seek,
              Read, Panic

-----------------------------------------------------------------------------
(* The theorems.                                                           *)

LEMMA MutexInvHolds == Spec => []MutexInv
BY MutexInit, MutexStep, PTL DEF Spec

(***************************************************************************)
(* The variables have their types, and the position is where it was        *)
(* whenever nobody reads and no call of the inner reader ever failed.      *)
(***************************************************************************)
THEOREM PositionIsKept == Spec => []SharedSound
<1>1. MutexInv => SharedSound
  BY DEF SharedSound
<1>2. QED
  BY <1>1, MutexInvHolds, PTL

(***************************************************************************)
(* Reads of any number of threads through one position are positional.     *)
(***************************************************************************)
THEOREM SharedReadsArePositional == Spec => ReadsPositionally
<1>1. Init => Positional!Init
  BY DEF Init, Positional!Init, Idle, Positional!Idle, None, Positional!None
<1>2. MutexInv /\ [Next]_vars => [Positional!Next]_(Positional!vars)
  BY ImplementsStep DEF PositionalStep
<1>3. QED
  BY <1>1, <1>2, MutexInvHolds, PTL DEF Spec, ReadsPositionally, Positional!Spec

(***************************************************************************)
(* Once a thread panicked under the lock, no call returns any more.        *)
(***************************************************************************)
THEOREM NoAnswerAfterPanic == Spec => PoisonStops
BY MutexInvHolds, PoisonStep, PTL DEF Spec, PoisonStops

=============================================================================
