------------------------ MODULE BackendThreads_proofs ------------------------
(***************************************************************************)
(* What a stream of the MLX and MPS backends yields and how promptly it    *)
(* stops, for every number of calls, threads and tokens: ThreadInvariant   *)
(* is inductive.                                                           *)
(***************************************************************************)
EXTENDS BackendThreads, SequenceTheorems, WellFoundedInduction, TLAPS

-----------------------------------------------------------------------------
(* The queue of the thread pool *)

\* A set of naturals has a least element.
LEMMA LeastNatural ==
  ASSUME NEW T \in SUBSET Nat, T # {}
  PROVE  Min(T) \in T
<1>1. PICK n \in T : \A m \in T : ~(<<m, n>> \in OpToRel(<, Nat))
  BY NatLessThanWellFounded, WFMin
<1>2. ASSUME NEW m \in T PROVE n =< m
  <2>1. m \in Nat /\ n \in Nat
    OBVIOUS
  <2>2. m < n => <<m, n>> \in OpToRel(<, Nat)
    BY <2>1 DEF OpToRel
  <2>3. ~(m < n)
    BY <1>1, <2>2, Zenon
  <2> QED BY <2>1, <2>3
<1> QED BY <1>2 DEF Min

\* What remains of a sequence without its entry i.
LEMMA RemoveAtEntries ==
  ASSUME NEW S, NEW s \in Seq(S), NEW i \in 1 .. Len(s)
  PROVE  /\ RemoveAt(s, i) \in Seq(S) /\ Len(RemoveAt(s, i)) = Len(s) - 1
         /\ \A j \in 1 .. Len(s) - 1 :
              RemoveAt(s, i)[j] = IF j < i THEN s[j] ELSE s[j + 1]
<1> DEFINE before == SubSeq(s, 1, i - 1)
           after == SubSeq(s, i + 1, Len(s))
<1>0. Len(s) \in Nat /\ i \in Nat /\ i >= 1 /\ i <= Len(s)
  OBVIOUS
<1>1. /\ before \in Seq(S) /\ Len(before) = i - 1
      /\ \A j \in 1 .. i - 1 : before[j] = s[j]
  BY <1>0
<1>2. /\ after \in Seq(S) /\ Len(after) = Len(s) - i
      /\ \A j \in 1 .. Len(s) - i : after[j] = s[i + j]
  BY <1>0
<1>3. RemoveAt(s, i) = before \o after
  BY DEF RemoveAt
<1> HIDE DEF before, after
<1>4. before \o after \in Seq(S) /\ Len(before \o after) = Len(s) - 1
  <2>1. Len(before \o after) = Len(before) + Len(after)
    BY <1>1, <1>2, ConcatProperties
  <2>2. before \o after \in Seq(S)
    BY <1>1, <1>2
  <2> QED BY <1>0, <1>1, <1>2, <2>1, <2>2
<1>5. ASSUME NEW j \in 1 .. Len(s) - 1
      PROVE  (before \o after)[j] = IF j < i THEN s[j] ELSE s[j + 1]
  <2>1. CASE j < i
    BY <1>0, <1>1, <1>2, <2>1
  <2>2. CASE ~(j < i)
    <3>1. (before \o after)[j] = after[j - (i - 1)]
      BY <1>0, <1>1, <1>2, <2>2
    <3>2. j - (i - 1) \in 1 .. Len(s) - i /\ i + (j - (i - 1)) = j + 1
      BY <1>0, <2>2
    <3> QED BY <1>2, <2>2, <3>1, <3>2
  <2> QED BY <2>1, <2>2
<1> QED BY <1>3, <1>4, <1>5

\* Taking a job from the queue adds none, and removes one that was there once.
LEMMA RemoveFirstKeeps ==
  ASSUME NEW S, NEW s \in Seq(S), NEW e
  PROVE  /\ RemoveFirst(s, e) \in Seq(S)
         /\ \A x : Contains(RemoveFirst(s, e), x) => Contains(s, x)
         /\ \A x : Once(s, x) => Once(RemoveFirst(s, e), x)
         /\ Once(s, e) => ~Contains(RemoveFirst(s, e), e)
<1>1. CASE ~\E i \in 1 .. Len(s) : s[i] = e
  BY <1>1 DEF RemoveFirst, Contains
<1>2. CASE \E i \in 1 .. Len(s) : s[i] = e
  <2> DEFINE T == {i \in 1 .. Len(s) : s[i] = e}
             R == RemoveFirst(s, e)
  <2>1. T \in SUBSET Nat /\ T # {}
    BY <1>2
  <2>2. R = RemoveAt(s, Min(T))
    BY <1>2 DEF RemoveFirst, SelectInSeq
  <2> HIDE DEF T, R
  <2>3. PICK i \in T : R = RemoveAt(s, i)
    BY <2>1, <2>2, LeastNatural
  <2>4. i \in 1 .. Len(s) /\ s[i] = e
    BY DEF T
  <2>5. /\ R \in Seq(S) /\ Len(R) = Len(s) - 1
        /\ \A j \in 1 .. Len(s) - 1 : R[j] = IF j < i THEN s[j] ELSE s[j + 1]
    BY <2>3, <2>4, RemoveAtEntries
  <2> DEFINE at(j) == IF j < i THEN j ELSE j + 1
  <2>6. /\ \A j \in 1 .. Len(R) : at(j) \in 1 .. Len(s) /\ at(j) # i /\ R[j] = s[at(j)]
        /\ \A j, k \in 1 .. Len(R) : at(j) = at(k) => j = k
    BY <2>4, <2>5
  <2> HIDE DEF at
  <2> QED BY <2>4, <2>5, <2>6 DEF R, Contains, Once
<1> QED BY <1>1, <1>2

\* A job is queued behind the others.
LEMMA AppendKeeps ==
  ASSUME NEW S, NEW s \in Seq(S), NEW e \in S
  PROVE  /\ Append(s, e) \in Seq(S)
         /\ \A x : Contains(Append(s, e), x) <=> Contains(s, x) \/ x = e
         /\ \A x : Once(s, x) /\ (x # e \/ ~Contains(s, x)) => Once(Append(s, e), x)
<1>1. /\ Append(s, e) \in Seq(S) /\ Len(Append(s, e)) = Len(s) + 1
      /\ Append(s, e)[Len(s) + 1] = e
      /\ \A i \in 1 .. Len(s) : Append(s, e)[i] = s[i]
  OBVIOUS
<1>2. Len(s) \in Nat /\ \A i \in 1 .. Len(s) + 1 : i \in 1 .. Len(s) \/ i = Len(s) + 1
  OBVIOUS
<1> DEFINE t == Append(s, e)
<1> HIDE DEF t
<1>3. /\ Len(t) = Len(s) + 1 /\ t[Len(s) + 1] = e
      /\ \A i \in 1 .. Len(s) : t[i] = s[i] /\ i \in 1 .. Len(t)
      /\ \A i \in 1 .. Len(t) : i \in 1 .. Len(s) \/ i = Len(s) + 1
      /\ Len(s) + 1 \in 1 .. Len(t)
  BY <1>1, <1>2 DEF t
<1>4. \A x : Contains(t, x) <=> Contains(s, x) \/ x = e
  BY <1>3 DEF Contains
<1>5. \A x : Once(s, x) /\ (x # e \/ ~Contains(s, x)) => Once(t, x)
  BY <1>3 DEF Contains, Once
<1> QED BY <1>1, <1>4, <1>5 DEF t

\* A thread takes the oldest job.
LEMMA TailKeeps ==
  ASSUME NEW S, NEW s \in Seq(S), s # <<>>
  PROVE  /\ Tail(s) \in Seq(S) /\ Head(s) \in S /\ Contains(s, Head(s))
         /\ \A x : Contains(Tail(s), x) => Contains(s, x)
         /\ \A x : Once(s, x) => Once(Tail(s), x)
         /\ \A x : Once(s, x) /\ x = Head(s) => ~Contains(Tail(s), x)
<1>1. /\ Tail(s) \in Seq(S) /\ Len(Tail(s)) = Len(s) - 1 /\ Len(s) \in Nat /\ Len(s) >= 1
      /\ \A i \in 1 .. Len(s) - 1 : Tail(s)[i] = s[i + 1]
      /\ Head(s) = s[1] /\ Head(s) \in S
  OBVIOUS
<1> DEFINE t == Tail(s)
           h == Head(s)
<1> HIDE DEF t, h
<1>2. /\ 1 \in 1 .. Len(s) /\ s[1] = h
      /\ \A i \in 1 .. Len(t) : /\ i + 1 \in 1 .. Len(s) /\ t[i] = s[i + 1] /\ i + 1 # 1
      /\ \A i, j \in 1 .. Len(t) : i + 1 = j + 1 => i = j
  BY <1>1 DEF t, h
<1>3. /\ Contains(s, h) /\ \A x : Contains(t, x) => Contains(s, x)
  BY <1>2 DEF Contains
<1>4. \A x : Once(s, x) => Once(t, x)
  BY <1>2, Zenon DEF Once
<1>5. \A x : Once(s, x) /\ x = h => ~Contains(t, x)
  BY <1>2, SMTT(30) DEF Contains, Once
<1> QED BY <1>1, <1>3, <1>4, <1>5 DEF t, h

-----------------------------------------------------------------------------
(* Types *)

\* The jobs of different calls, and the two of one call, are different.
LEMMA JobsApart ==
  /\ \A c \in Calls : Wait(c) \in Jobs /\ Work(c) \in Jobs /\ Awaited(c) \in Jobs
  /\ \A c, d : Wait(c) # Work(d) /\ (Wait(c) = Wait(d) => c = d)
  BY DEF Wait, Work, Awaited, Jobs

\* A job queued or taken back is a job of the pool's.
LEMMA QueueTypes ==
  ASSUME pool \in Seq(Jobs), NEW job \in Jobs
  PROVE  (Queue(job) => pool' \in Seq(Jobs)) /\ (Unqueue(job) => pool' \in Seq(Jobs))
  BY AppendKeeps, RemoveFirstKeeps DEF Queue, Unqueue

\* The steps of one call.
CallStep(c) ==
  Begin(c) \/ GenerationTaskStarts(c) \/ Thread(c) \/ AskNext(c) \/ Cancel(c) \/ Finalize(c)

\* Every step keeps every type.
LEMMA StepTypes ==
  ASSUME TypeOK, [Next]_vars
  PROVE  TypeOK'
<1> USE DEF TypeOK, vars, callVars, poolVars, modelVars
<1>1. CASE StartLoad \/ LoadEnds \/ Unload
  BY <1>1 DEF StartLoad, LoadEnds, Unload, TaskTypes, PoolTypes, ModelTypes
<1>2. CASE Take
  BY <1>2, TailKeeps DEF Take, TaskTypes, PoolTypes, ModelTypes
<1>3. CASE UNCHANGED vars
  BY <1>3 DEF TaskTypes, PoolTypes, ModelTypes
<1>4. ASSUME NEW c \in Calls, CallStep(c) PROVE TypeOK'
  <2>0. /\ Wait(c) \in Jobs /\ Work(c) \in Jobs /\ Awaited(c) \in Jobs
        /\ pool \in Seq(Jobs) /\ running \subseteq Jobs /\ unstarted \subseteq Calls
    BY JobsApart DEF PoolTypes
  <2>1. CASE Begin(c)
    BY <2>0, <2>1, QueueTypes DEF Begin, TaskTypes, PoolTypes, ModelTypes
  <2>2. CASE GenerationTaskStarts(c)
    BY <2>0, <2>2, QueueTypes DEF GenerationTaskStarts, TaskTypes, PoolTypes, ModelTypes
  <2>3. CASE WholeReturns(c)
    BY <2>3 DEF WholeReturns, Ends, TaskTypes, PoolTypes, ModelTypes
  <2>4. CASE NextEvent(c)
    <3>1. TaskTypes' /\ PoolTypes'
      BY <2>4 DEF NextEvent, Ends, TaskTypes, PoolTypes
    <3>2. /\ late' = late \/ late' = [late EXCEPT ![c] = @ + 1]
          /\ lost' = lost \/ lost' = [lost EXCEPT ![c] = @ + 1]
          /\ UNCHANGED <<generation, fragments, stop, more>>
      BY <2>4 DEF NextEvent
    <3>3. [late EXCEPT ![c] = @ + 1] \in [Calls -> Nat]
          /\ [lost EXCEPT ![c] = @ + 1] \in [Calls -> Nat]
      BY DEF ModelTypes
    <3>4. ModelTypes'
      BY <3>2, <3>3 DEF ModelTypes
    <3> QED BY <3>1, <3>4
  <2>5. CASE PutToken(c)
    <3>1. \A text \in {"text", "empty"} :
            Append(fragments[c], text) \in Seq({"text", "empty", "end"})
      BY DEF ModelTypes
    <3>2. \A isLast \in BOOLEAN : GoesOn(c, isLast) \in BOOLEAN
      BY DEF GoesOn
    <3> QED BY <2>5, <3>1, <3>2 DEF PutToken, TaskTypes, PoolTypes, ModelTypes
  <2>6. CASE EndStreamer(c)
    <3>1. fragments[c] \o EndMarker(c) \in Seq({"text", "empty", "end"})
      BY DEF EndMarker, ModelTypes
    <3> QED BY <2>6, <3>1 DEF EndStreamer, TaskTypes, PoolTypes, ModelTypes
  <2>7. CASE InputsFail(c)
    BY <2>7 DEF InputsFail, TaskTypes, PoolTypes, ModelTypes
  <2>8. CASE WorkReturns(c)
    BY <2>8 DEF WorkReturns, Ends, TaskTypes, PoolTypes, ModelTypes
  <2>9. CASE StreamNext(c)
    <3>1. Tail(fragments[c]) \in Seq({"text", "empty", "end"})
      BY <2>9 DEF StreamNext, ModelTypes
    <3>2. ModelTypes'
      BY <2>9, <3>1 DEF StreamNext, ModelTypes
    <3>3. TaskTypes'
      BY <2>9 DEF StreamNext, Joined, Ends, TaskTypes
    <3>4. PoolTypes'
      BY <2>0, <2>9, QueueTypes DEF StreamNext, PoolTypes
    <3> QED BY <3>2, <3>3, <3>4
  <2>10. CASE AskNext(c)
    BY <2>0, <2>10, QueueTypes DEF AskNext, TaskTypes, PoolTypes, ModelTypes
  <2>11. CASE CancelAwaiting(c)
    <3>1. Piped(c) \in BOOLEAN
      BY DEF Piped, TaskTypes
    <3> QED BY <2>0, <2>11, <3>1, QueueTypes
            DEF CancelAwaiting, Ends, TaskTypes, PoolTypes, ModelTypes
  <2>12. CASE CancelHolding(c)
    BY <2>12 DEF CancelHolding, Ends, TaskTypes, PoolTypes, ModelTypes
  <2>13. CASE CancelJoin(c)
    BY <2>0, <2>13, QueueTypes DEF CancelJoin, Ends, TaskTypes, PoolTypes, ModelTypes
  <2>14. CASE Finalize(c)
    BY <2>14 DEF Finalize, Ends, TaskTypes, PoolTypes, ModelTypes
  <2> QED BY <1>4, <2>1, <2>2, <2>3, <2>4, <2>5, <2>6, <2>7, <2>8, <2>9, <2>10, <2>11, <2>12,
             <2>13, <2>14 DEF CallStep, Thread, Cancel
<1> QED BY <1>1, <1>2, <1>3, <1>4 DEF Next, CallStep

-----------------------------------------------------------------------------
(* The calls *)

\* What ThreadInvariant says of one call.
CallSafe(c) ==
  /\ WaitTracked(c) /\ TextTracked(c) /\ LateTracked(c) /\ late[c] <= 1
  /\ stream[c] /\ outcome[c] = "returned" =>
       lost[c] = 0 /\ fragments[c] = <<>> /\ (Piped(c) => generation[c] = "succeeded")

LEMMA SafetyOfCalls == ThreadInvariant <=> TypeOK /\ \A c \in Calls : CallSafe(c)
  BY DEF ThreadInvariant, CallSafe, StreamsFaithful, StopsPromptly

\* The step leaves the call c alone, and no more jobs of it are queued or running.
Untouched(c) ==
  /\ UNCHANGED <<backend, stream, task[c], outcome[c], generation[c], fragments[c], more[c],
                 stop[c], late[c], lost[c]>>
  /\ Once(pool, Wait(c)) => Once(pool', Wait(c))
  /\ Contains(pool', Wait(c)) => Contains(pool, Wait(c))
  /\ Wait(c) \in running' => Wait(c) \in running

LEMMA UntouchedSafe ==
  ASSUME NEW c \in Calls, CallSafe(c), Untouched(c)
  PROVE  CallSafe(c)'
<1>1. WaitTracked(c)'
  BY DEF CallSafe, Untouched, WaitTracked, Wait
<1>2. TextTracked(c)'
  BY DEF CallSafe, Untouched, TextTracked, Piped
<1>3. LateTracked(c)'
  BY DEF CallSafe, Untouched, LateTracked, Piped, GivenUp, Wait
<1>4. UNCHANGED <<late[c], lost[c], fragments[c], generation[c], stream[c], outcome[c], Piped(c)>>
  BY DEF Untouched, Piped
<1> QED BY <1>1, <1>2, <1>3, <1>4 DEF CallSafe

\* A step of one call leaves the others alone: whatever it queues or takes from the
\* queue is not their wait.
LEMMA OthersUntouched ==
  ASSUME TypeOK, NEW d \in Calls, CallStep(d), NEW c \in Calls, c # d
  PROVE  Untouched(c)
<1>0. /\ pool \in Seq(Jobs) /\ Wait(d) \in Jobs /\ Work(d) \in Jobs /\ Awaited(d) \in Jobs
      /\ Wait(c) # Wait(d) /\ Wait(c) # Work(d) /\ Wait(c) # Awaited(d)
  BY JobsApart DEF TypeOK, PoolTypes, Awaited
<1> DEFINE PoolKept == /\ Once(pool, Wait(c)) => Once(pool', Wait(c))
                       /\ Contains(pool', Wait(c)) => Contains(pool, Wait(c))
<1>1. \A job \in {Wait(d), Work(d), Awaited(d)} :
        (Queue(job) => PoolKept) /\ (Unqueue(job) => PoolKept)
  <2> SUFFICES ASSUME NEW job \in {Wait(d), Work(d), Awaited(d)}
               PROVE  (Queue(job) => PoolKept) /\ (Unqueue(job) => PoolKept)
    OBVIOUS
  <2>1. job \in Jobs /\ Wait(c) # job
    BY <1>0
  <2>2. /\ Contains(Append(pool, job), Wait(c)) <=> Contains(pool, Wait(c))
        /\ Once(pool, Wait(c)) => Once(Append(pool, job), Wait(c))
    BY <1>0, <2>1, AppendKeeps
  <2>3. /\ Contains(RemoveFirst(pool, job), Wait(c)) => Contains(pool, Wait(c))
        /\ Once(pool, Wait(c)) => Once(RemoveFirst(pool, job), Wait(c))
    BY <1>0, <2>1, RemoveFirstKeeps
  <2> QED BY <2>2, <2>3 DEF Queue, Unqueue
<1>2. pool' = pool => PoolKept
  OBVIOUS
<1> HIDE DEF PoolKept
<1>3. PoolKept
  BY <1>1, <1>2 DEF CallStep, Begin, GenerationTaskStarts, Thread, WholeReturns, NextEvent,
     PutToken, EndStreamer, InputsFail, WorkReturns, StreamNext, AskNext, Cancel,
     CancelAwaiting, CancelHolding, CancelJoin, Finalize, poolVars
<1>4. Wait(c) \in running' => Wait(c) \in running
  BY DEF CallStep, Begin, GenerationTaskStarts, Thread, WholeReturns, NextEvent,
     PutToken, EndStreamer, InputsFail, WorkReturns, StreamNext, AskNext, Cancel,
     CancelAwaiting, CancelHolding, CancelJoin, Finalize, poolVars
<1>5. UNCHANGED <<backend, stream>>
  BY DEF CallStep, Begin, GenerationTaskStarts, Thread, WholeReturns, NextEvent,
     PutToken, EndStreamer, InputsFail, WorkReturns, StreamNext, AskNext, Cancel,
     CancelAwaiting, CancelHolding, CancelJoin, Finalize
<1>6. UNCHANGED <<task[c], outcome[c]>>
  BY DEF TypeOK, TaskTypes, CallStep, Begin, GenerationTaskStarts, Thread, WholeReturns,
     NextEvent, PutToken, EndStreamer, InputsFail, WorkReturns, StreamNext, AskNext, Cancel,
     CancelAwaiting, CancelHolding, CancelJoin, Finalize, Ends, Joined, callVars
<1>7. UNCHANGED <<generation[c], fragments[c], more[c], stop[c], late[c], lost[c]>>
  BY DEF TypeOK, ModelTypes, CallStep, Begin, GenerationTaskStarts, Thread, WholeReturns,
     NextEvent, PutToken, EndStreamer, InputsFail, WorkReturns, StreamNext, AskNext, Cancel,
     CancelAwaiting, CancelHolding, CancelJoin, Finalize, modelVars
<1> QED BY <1>3, <1>4, <1>5, <1>6, <1>7 DEF Untouched, PoolKept

\* The pool after a job of the call c was queued or taken back.
LEMMA PoolOfCall ==
  ASSUME TypeOK, NEW c \in Calls, Once(pool, Wait(c))
  PROVE  /\ Queue(Work(c)) => /\ Once(pool', Wait(c))
                              /\ Contains(pool', Wait(c)) => Contains(pool, Wait(c))
         /\ Queue(Wait(c)) /\ ~Contains(pool, Wait(c)) => Once(pool', Wait(c))
         /\ Unqueue(Work(c)) => /\ Once(pool', Wait(c))
                                /\ Contains(pool', Wait(c)) => Contains(pool, Wait(c))
         /\ Unqueue(Wait(c)) => /\ Once(pool', Wait(c))
                                /\ ~Contains(pool', Wait(c))
<1>0. pool \in Seq(Jobs) /\ Wait(c) \in Jobs /\ Work(c) \in Jobs /\ Wait(c) # Work(c)
  BY JobsApart DEF TypeOK, PoolTypes
<1>1. CASE Queue(Work(c)) \/ Queue(Wait(c))
  <2>1. /\ Contains(Append(pool, Work(c)), Wait(c)) => Contains(pool, Wait(c))
        /\ Once(Append(pool, Work(c)), Wait(c))
        /\ ~Contains(pool, Wait(c)) => Once(Append(pool, Wait(c)), Wait(c))
    BY <1>0, AppendKeeps
  <2>2. /\ Contains(RemoveFirst(pool, Work(c)), Wait(c)) => Contains(pool, Wait(c))
        /\ Once(RemoveFirst(pool, Work(c)), Wait(c))
        /\ Once(RemoveFirst(pool, Wait(c)), Wait(c))
        /\ ~Contains(RemoveFirst(pool, Wait(c)), Wait(c))
    BY <1>0, RemoveFirstKeeps
  <2> QED BY <2>1, <2>2 DEF Queue, Unqueue
<1>2. CASE ~(Queue(Work(c)) \/ Queue(Wait(c)))
  <2>1. /\ Contains(RemoveFirst(pool, Work(c)), Wait(c)) => Contains(pool, Wait(c))
        /\ Once(RemoveFirst(pool, Work(c)), Wait(c))
        /\ Once(RemoveFirst(pool, Wait(c)), Wait(c))
        /\ ~Contains(RemoveFirst(pool, Wait(c)), Wait(c))
    BY <1>0, RemoveFirstKeeps
  <2> QED BY <1>2, <2>1 DEF Unqueue
<1> QED BY <1>1, <1>2

\* Reading fragments keeps their end marker last, and reading it leaves none.
LEMMA ReadingKeepsEnd ==
  ASSUME NEW S, NEW s \in Seq(S), s # <<>>, EndComesLast(s)
  PROVE  /\ Head(s) \in S /\ Tail(s) \in Seq(S) /\ EndComesLast(Tail(s))
         /\ Contains(Tail(s), "end") => Contains(s, "end")
         /\ Head(s) = "end" => Tail(s) = <<>> /\ Contains(s, "end")
<1>1. /\ Tail(s) \in Seq(S) /\ Len(Tail(s)) = Len(s) - 1
      /\ \A i \in 1 .. Len(Tail(s)) : Tail(s)[i] = s[i + 1]
      /\ Head(s) = s[1] /\ Head(s) \in S
      /\ Len(s) \in Nat /\ Len(s) >= 1
  BY HeadTailProperties
<1> DEFINE t == Tail(s)
<1> HIDE DEF t
<1>0. Len(t) = Len(s) - 1 /\ Len(s) \in Nat
  BY <1>1 DEF t
<1>2. \A i \in 1 .. Len(t) : i + 1 \in 1 .. Len(s) /\ t[i] = s[i + 1]
  BY <1>1 DEF t
<1>3. ASSUME NEW i \in 1 .. Len(t), t[i] = "end" PROVE i = Len(t)
  <2>1. i + 1 \in 1 .. Len(s) /\ s[i + 1] = "end"
    BY <1>2, <1>3
  <2>2. i + 1 = Len(s)
    BY <2>1 DEF EndComesLast
  <2> QED BY <1>0, <2>2
<1>4. Contains(t, "end") => Contains(s, "end")
  BY <1>2 DEF Contains
<1>5. 1 \in 1 .. Len(s)
  BY <1>1
<1>6. ASSUME Head(s) = "end" PROVE Len(t) = 0
  <2>1. Len(s) = 1
    BY <1>1, <1>5, <1>6 DEF EndComesLast
  <2>2. Len(s) - 1 = 0
    BY <2>1
  <2> QED BY <1>0, <2>2
<1>7. Head(s) = "end" => t = <<>>
  BY <1>1, <1>6, EmptySeq DEF t
<1>8. Head(s) = "end" => Contains(s, "end")
  BY <1>1, <1>5 DEF Contains
<1>9. EndComesLast(t)
  BY <1>3 DEF EndComesLast
<1> QED BY <1>1, <1>4, <1>7, <1>8, <1>9 DEF t

\* The texts and the marker a model puts keep the marker last.
LEMMA PuttingKeepsEnd ==
  ASSUME NEW S, NEW s \in Seq(S), ~Contains(s, "end")
  PROVE  /\ \A e \in S : e # "end" =>
              EndComesLast(Append(s, e)) /\ ~Contains(Append(s, e), "end")
         /\ EndComesLast(s \o <<"text", "end">>)
<1>1. \A i \in 1 .. Len(s) : s[i] # "end"
  BY DEF Contains
<1>2. ASSUME NEW e \in S, e # "end"
      PROVE  EndComesLast(Append(s, e)) /\ ~Contains(Append(s, e), "end")
  <2>1. ~Contains(Append(s, e), "end")
    BY <1>2, AppendKeeps
  <2> QED BY <2>1 DEF EndComesLast, Contains
<1>3. EndComesLast(s \o <<"text", "end">>)
  <2> DEFINE t == s \o <<"text", "end">>
  <2>1. /\ Len(t) = Len(s) + 2 /\ Len(s) \in Nat
        /\ \A i \in 1 .. Len(s) : t[i] = s[i]
        /\ t[Len(s) + 1] = "text"
    OBVIOUS
  <2> HIDE DEF t
  <2>2. ASSUME NEW i \in 1 .. Len(t), t[i] = "end" PROVE i = Len(t)
    <3>1. i \in 1 .. Len(s) \/ i = Len(s) + 1 \/ i = Len(s) + 2
      BY <2>1
    <3> QED BY <1>1, <2>1, <2>2, <3>1
  <2> QED BY <2>2 DEF EndComesLast, t
<1> QED BY <1>2, <1>3

\* A step of a call keeps it safe.
LEMMA OwnStepSafe ==
  ASSUME TypeOK, TypeOK', NEW c \in Calls, CallSafe(c), CallStep(c)
  PROVE  CallSafe(c)'
<1> DEFINE
      NextWait ==
        /\ Once(pool', Wait(c))
        /\ Contains(pool', Wait(c)) =>
             stream[c] /\ task'[c] = "awaiting" /\ Wait(c) \notin running'
        /\ Wait(c) \in running' =>
             stream[c] /\ (task'[c] \in {"awaiting", "closing"} \/ outcome'[c] = "cancelled")
      NextText ==
        /\ EndComesLast(fragments'[c])
        /\ Contains(fragments'[c], "end") => generation'[c] # "pending"
        /\ fragments'[c] # <<>> => Piped(c)
      NextCall ==
        /\ task'[c] \in {"holding", "joining"} => stream[c]
        /\ task'[c] = "joining" => Piped(c) /\ fragments'[c] = <<>> /\ generation'[c] # "pending"
        /\ task'[c] \in {"idle", "awaiting", "holding", "joining"} =>
             lost'[c] = 0 /\ outcome'[c] = "none"
        /\ task'[c] = "closing" => outcome'[c] = "none"
        /\ task'[c] = "dropped" => Piped(c) /\ outcome'[c] = "cancelled"
        /\ stream[c] /\ outcome'[c] = "returned" =>
             lost'[c] = 0 /\ fragments'[c] = <<>> /\ (Piped(c) => generation'[c] = "succeeded")
      NextLate ==
        /\ late'[c] <= 1
        /\ IF Piped(c)
           THEN /\ task'[c] \in {"closing", "ended"} /\ generation'[c] = "pending" /\ more'[c] =>
                     stop'[c]
                /\ late'[c] > 0 => ~more'[c]
           ELSE task'[c] \notin {"closing", "ended"} \/ Wait(c) \in running' => late'[c] = 0
<1>1. UNCHANGED <<backend, stream>>
  BY DEF CallStep, Begin, GenerationTaskStarts, Thread, WholeReturns, NextEvent,
     PutToken, EndStreamer, InputsFail, WorkReturns, StreamNext, AskNext, Cancel,
     CancelAwaiting, CancelHolding, CancelJoin, Finalize
<1> SUFFICES NextWait /\ NextText /\ NextCall /\ NextLate
  BY <1>1 DEF CallSafe, WaitTracked, TextTracked, LateTracked, Piped, GivenUp, Wait
<1>0. /\ WaitTracked(c) /\ TextTracked(c) /\ LateTracked(c)
      /\ late[c] <= 1 /\ late[c] \in Nat /\ lost[c] \in Nat /\ lost'[c] \in Nat
      /\ stream[c] /\ outcome[c] = "returned" =>
           lost[c] = 0 /\ fragments[c] = <<>> /\ (Piped(c) => generation[c] = "succeeded")
      /\ Once(pool, Wait(c))
      /\ fragments[c] \in Seq({"text", "empty", "end"})
      /\ task[c] \in {"idle", "awaiting", "holding", "joining", "closing", "dropped", "ended"}
      /\ late \in [Calls -> Nat] /\ lost \in [Calls -> Nat]
      /\ more \in [Calls -> BOOLEAN] /\ stop \in [Calls -> BOOLEAN]
      /\ fragments \in [Calls -> Seq({"text", "empty", "end"})]
      /\ task \in [Calls -> {"idle", "awaiting", "holding", "joining", "closing", "dropped", "ended"}]
      /\ outcome \in [Calls -> {"none", "returned", "raised", "cancelled"}]
      /\ generation \in [Calls -> {"pending", "succeeding", "failing", "succeeded", "failed", "cancelled"}]
      /\ Wait(c) # Work(c) /\ (Awaited(c) = IF stream[c] THEN Wait(c) ELSE Work(c))
      /\ (Piped(c) <=> stream[c] /\ backend = "mps")
      /\ running \subseteq Jobs
  BY JobsApart DEF CallSafe, WaitTracked, TypeOK, ModelTypes, TaskTypes, PoolTypes, Awaited, Piped
<1> USE DEF TextTracked, WaitTracked, LateTracked, GivenUp
<1>2. CASE Begin(c)
  <2>1. Once(pool', Wait(c)) /\ (Contains(pool', Wait(c)) => stream[c])
    BY <1>0, <1>2, PoolOfCall DEF Begin
  <2> QED BY <1>0, <1>2, <2>1 DEF Begin, modelVars
<1>3. CASE GenerationTaskStarts(c)
  BY <1>0, <1>3, PoolOfCall DEF GenerationTaskStarts, callVars, modelVars
<1>4. CASE WholeReturns(c)
  BY <1>0, <1>4 DEF WholeReturns, Ends, callVars, modelVars
<1>5. CASE NextEvent(c)
  <2>1. NextWait
    BY <1>0, <1>5 DEF NextEvent, Ends, callVars
  <2>2. NextText
    BY <1>0, <1>5 DEF NextEvent
  <2>3. NextCall
    BY <1>0, <1>5 DEF NextEvent, Ends, callVars
  <2>4. NextLate
    BY <1>0, <1>5 DEF NextEvent, Ends, callVars
  <2> QED BY <2>1, <2>2, <2>3, <2>4
<1>6. CASE PutToken(c)
  <2>1. NextWait
    BY <1>0, <1>6 DEF PutToken, callVars, poolVars
  <2>2. NextText
    <3>1. ~Contains(fragments[c], "end") /\ Piped(c) /\ generation'[c] = "pending"
      BY <1>0, <1>6 DEF PutToken
    <3>2. PICK text \in {"text", "empty"} : fragments'[c] = Append(fragments[c], text)
      BY <1>0, <1>6 DEF PutToken
    <3>3. text \in {"text", "empty", "end"} /\ text # "end"
      OBVIOUS
    <3>4. fragments[c] \in Seq({"text", "empty", "end"})
      BY <1>0
    <3>5. /\ EndComesLast(Append(fragments[c], text))
          /\ ~Contains(Append(fragments[c], text), "end")
      BY <3>1, <3>3, <3>4, PuttingKeepsEnd
    <3> HIDE DEF TextTracked, WaitTracked, LateTracked, GivenUp
    <3> QED BY <3>1, <3>2, <3>5
  <2>3. NextCall
    BY <1>0, <1>6 DEF PutToken, callVars
  <2>4. NextLate
    <3>1. Piped(c) /\ late[c] = 0
      BY <1>0, <1>6 DEF PutToken
    <3>2. late'[c] = IF GivenUp(c) THEN late[c] + 1 ELSE late[c]
      BY <1>0, <1>6 DEF PutToken
    <3>3. stop[c] => ~more'[c]
      BY <1>0, <1>6 DEF PutToken, GoesOn
    <3>4. GivenUp(c) => stop[c]
      BY <1>0, <1>6 DEF PutToken
    <3>5. UNCHANGED <<task, stop>>
      BY <1>6 DEF PutToken, callVars
    <3> QED BY <3>1, <3>2, <3>3, <3>4, <3>5
  <2> QED BY <2>1, <2>2, <2>3, <2>4
<1>7. CASE EndStreamer(c)
  <2>1. NextWait
    BY <1>0, <1>7 DEF EndStreamer, callVars, poolVars
  <2>2. NextText
    <3>1. ~Contains(fragments[c], "end") /\ Piped(c) /\ generation'[c] # "pending"
      BY <1>0, <1>7 DEF EndStreamer
    <3>2. fragments'[c] = fragments[c] \o <<"text", "end">>
      BY <1>0, <1>7 DEF EndStreamer, EndMarker
    <3> QED BY <1>0, <3>1, <3>2, PuttingKeepsEnd
  <2>3. NextCall
    BY <1>0, <1>7 DEF EndStreamer, callVars
  <2>4. NextLate
    BY <1>0, <1>7 DEF EndStreamer, callVars, poolVars
  <2> QED BY <2>1, <2>2, <2>3, <2>4
<1>8. CASE InputsFail(c)
  BY <1>0, <1>8 DEF InputsFail, callVars, poolVars
<1>9. CASE WorkReturns(c)
  <2>1. NextWait
    BY <1>0, <1>9 DEF WorkReturns, Ends, callVars
  <2>2. NextText /\ NextCall
    BY <1>0, <1>9 DEF WorkReturns, Ends, callVars
  <2>4. NextLate
    BY <1>0, <1>9 DEF WorkReturns, Ends, callVars
  <2> QED BY <2>1, <2>2, <2>4
<1>10. CASE StreamNext(c)
  <2> DEFINE texts == fragments[c]
  <2>0. /\ texts # <<>> /\ texts \in Seq({"text", "empty", "end"})
        /\ fragments'[c] = Tail(texts) /\ UNCHANGED generation
        /\ EndComesLast(texts) /\ (Contains(texts, "end") => generation[c] # "pending")
    BY <1>0, <1>10 DEF StreamNext
  <2>1. NextWait
    BY <1>0, <1>10, PoolOfCall DEF StreamNext, Joined, Ends, callVars
  <2>2. /\ Head(texts) \in {"text", "empty", "end"} /\ Tail(texts) \in Seq({"text", "empty", "end"})
        /\ Head(texts) = "end" => Tail(texts) = <<>> /\ generation[c] # "pending"
        /\ EndComesLast(Tail(texts))
        /\ Contains(Tail(texts), "end") => generation[c] # "pending"
    <3> HIDE DEF texts
    <3> QED BY <2>0, ReadingKeepsEnd
  <2>7. Piped(c)
    BY <1>0, <1>10 DEF StreamNext
  <2>6. NextText
    <3> HIDE DEF texts
    <3> QED BY <2>0, <2>2, <2>7
  <2>3. NextCall
    <3>1. task[c] # "awaiting" => UNCHANGED <<task, outcome>>
      BY <1>10 DEF StreamNext, callVars
    <3>2. /\ Wait(c) \in running /\ (task[c] \in {"awaiting", "closing"} \/ outcome[c] = "cancelled")
          /\ Piped(c)
      BY <1>0, <1>10, <2>0 DEF StreamNext
    <3>3. CASE task[c] # "awaiting"
      BY <1>0, <3>1, <3>2, <3>3
    <3>4. CASE task[c] = "awaiting"
      <4>1. lost[c] = 0 /\ outcome[c] = "none" /\ lost'[c] = 0
        BY <1>0, <1>10, <3>4 DEF StreamNext
      <4>2. CASE Head(texts) = "text"
        BY <1>0, <1>10, <3>2, <3>4, <4>1, <4>2 DEF StreamNext
      <4>3. CASE Head(texts) = "empty"
        BY <1>0, <1>10, <3>2, <3>4, <4>1, <4>3 DEF StreamNext, callVars
      <4>4. CASE Head(texts) = "end"
        <5>1. Joined(c) /\ fragments'[c] = <<>> /\ generation'[c] = generation[c]
              /\ generation[c] # "pending"
          BY <1>10, <2>0, <2>2, <3>4, <4>4 DEF StreamNext
        <5> HIDE DEF texts
        <5> QED BY <1>0, <3>2, <4>1, <5>1 DEF Joined, Ends
      <4> QED BY <2>2, <4>2, <4>3, <4>4
    <3> QED BY <3>3, <3>4
  <2>4. NextLate
    BY <1>0, <1>10 DEF StreamNext, Joined, Ends, callVars
  <2> QED BY <2>1, <2>6, <2>3, <2>4
<1>11. CASE AskNext(c)
  BY <1>0, <1>11, PoolOfCall DEF AskNext, modelVars
<1>12. CASE CancelAwaiting(c)
  BY <1>0, <1>12, PoolOfCall DEF CancelAwaiting, Ends, modelVars
<1>13. CASE CancelHolding(c)
  BY <1>0, <1>13 DEF CancelHolding, Ends, modelVars, poolVars
<1>14. CASE CancelJoin(c)
  BY <1>0, <1>14, PoolOfCall DEF CancelJoin, Ends
<1>15. CASE Finalize(c)
  BY <1>0, <1>15 DEF Finalize, Ends, modelVars, poolVars
<1> QED BY <1>2, <1>3, <1>4, <1>5, <1>6, <1>7, <1>8, <1>9, <1>10, <1>11, <1>12, <1>13, <1>14,
           <1>15 DEF CallStep, Thread, Cancel

\* A thread that takes a wait takes it from the queue.
LEMMA TakeSafe ==
  ASSUME TypeOK, Take, NEW c \in Calls, CallSafe(c)
  PROVE  CallSafe(c)'
<1>0. /\ pool \in Seq(Jobs) /\ pool # <<>> /\ pool' = Tail(pool)
      /\ running' = running \cup {Head(pool)}
      /\ UNCHANGED <<backend, stream, task, outcome, generation, fragments, more, stop, late, lost>>
      /\ Once(pool, Wait(c)) /\ WaitTracked(c) /\ LateTracked(c)
  BY DEF TypeOK, PoolTypes, Take, callVars, modelVars, CallSafe, WaitTracked
<1>1. /\ Once(Tail(pool), Wait(c)) /\ Contains(pool, Head(pool))
      /\ Contains(Tail(pool), Wait(c)) => Contains(pool, Wait(c)) /\ Wait(c) # Head(pool)
  BY <1>0, TailKeeps
<1>2. WaitTracked(c)'
  <2>1. /\ Once(pool', Wait(c))
        /\ Contains(pool', Wait(c)) =>
             stream[c] /\ task[c] = "awaiting" /\ Wait(c) \notin running'
        /\ Wait(c) \in running' =>
             stream[c] /\ (task[c] \in {"awaiting", "closing"} \/ outcome[c] = "cancelled")
    BY <1>0, <1>1 DEF WaitTracked
  <2> QED BY <1>0, <2>1 DEF WaitTracked, Wait
<1>3. TextTracked(c)'
  BY <1>0 DEF CallSafe, TextTracked, Piped
<1>4. LateTracked(c)'
  <2>1. Wait(c) \in running' => Wait(c) \in running \/ task[c] = "awaiting"
    BY <1>0, <1>1 DEF WaitTracked
  <2>2. UNCHANGED Piped(c)
    BY <1>0 DEF Piped
  <2>3. IF Piped(c)
        THEN /\ GivenUp(c) /\ generation[c] = "pending" /\ more[c] => stop[c]
             /\ late[c] > 0 => ~more[c]
        ELSE ~GivenUp(c) \/ Wait(c) \in running' => late[c] = 0
    BY <1>0, <2>1 DEF LateTracked, GivenUp
  <2> QED BY <1>0, <2>2, <2>3 DEF LateTracked, GivenUp, Wait
<1>5. UNCHANGED Piped(c)
  BY <1>0 DEF Piped
<1> QED BY <1>0, <1>2, <1>3, <1>4, <1>5 DEF CallSafe

\* The invariant holds at the start and every step keeps it.
LEMMA ThreadInvariantInductive ==
  /\ Init => ThreadInvariant
  /\ ThreadInvariant /\ [Next]_vars => ThreadInvariant'
<1>1. ASSUME Init PROVE ThreadInvariant
  <2>1. TypeOK
    BY <1>1 DEF Init, TypeOK, TaskTypes, PoolTypes, ModelTypes
  <2>2. ASSUME NEW c \in Calls PROVE CallSafe(c)
    BY <1>1 DEF Init, CallSafe, WaitTracked, TextTracked, LateTracked, GivenUp, Once,
       Contains, EndComesLast
  <2> QED BY <2>1, <2>2, SafetyOfCalls
<1>2. ASSUME ThreadInvariant, [Next]_vars PROVE ThreadInvariant'
  <2>1. TypeOK /\ TypeOK' /\ \A c \in Calls : CallSafe(c)
    BY <1>2, SafetyOfCalls, StepTypes
  <2>2. ASSUME NEW c \in Calls PROVE CallSafe(c)'
    <3>1. CASE Take
      BY <2>1, <3>1, TakeSafe
    <3>2. CASE StartLoad \/ LoadEnds \/ Unload \/ UNCHANGED vars
      <4>1. Untouched(c)
        BY <3>2 DEF StartLoad, LoadEnds, Unload, vars, callVars, poolVars, modelVars, Untouched
      <4> QED BY <2>1, <4>1, UntouchedSafe
    <3>3. ASSUME NEW d \in Calls, CallStep(d) PROVE CallSafe(c)'
      <4>1. CASE c = d
        BY <2>1, <3>3, <4>1, OwnStepSafe
      <4>2. CASE c # d
        BY <2>1, <3>3, <4>2, OthersUntouched, UntouchedSafe
      <4> QED BY <4>1, <4>2
    <3> QED BY <1>2, <3>1, <3>2, <3>3 DEF Next, CallStep
  <2>3. \A c \in Calls : CallSafe(c)'
    BY <2>2
  <2> QED BY <2>1, <2>3 DEF ThreadInvariant, CallSafe, StreamsFaithful, StopsPromptly
<1> QED BY <1>1, <1>2

\* A stream that returns normally has yielded everything its model generated.
THEOREM StreamsAreFaithful == Spec => []StreamsFaithful
<1>1. ThreadInvariant => StreamsFaithful
  BY DEF ThreadInvariant
<1> QED BY <1>1, ThreadInvariantInductive, PTL DEF Spec

\* Once a stream's clean-up has begun, its model generates at most one more token.
THEOREM ModelsStopPromptly == Spec => []StopsPromptly
<1>1. ThreadInvariant => StopsPromptly
  BY DEF ThreadInvariant
<1> QED BY <1>1, ThreadInvariantInductive, PTL DEF Spec
=============================================================================
