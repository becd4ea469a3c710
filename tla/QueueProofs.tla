---------------------------- MODULE QueueProofs -----------------------------
(***************************************************************************)
(* Proofs about the two queues whose users send what waits in them: AQueue *)
(* and the queue of requests of TradingLine.                               *)
(*                                                                         *)
(* AQueue, for any callers, pool, kinds and bounds.  The properties are    *)
(* not inductive: that a queued task is not forgotten rests on the worker  *)
(* state never being Ringing while a job is in place (TakeCall() would     *)
(* return early and nobody would ring again), and that on the flags        *)
(* WorkingTaskKind_ and CountGetter_ being exactly the jobs in place.      *)
(* IInv says both.                                                         *)
(*                                                                         *)
(* TradingLine, for any managers, lines, requests, helpers and bounds.     *)
(* RequestsInv says where each request is and in which order the queues    *)
(* have them; WaitsInv why a queue that waits has somebody to send it:     *)
(* none of its lines and nothing of its offer could have sent it.          *)
(***************************************************************************)
EXTENDS AQueue, TradingLine, FiniteSetTheorems, SequenceTheorems, TLAPS

Getters == {p \in inplace : p[2] = "Get"}

(* WorkingTaskKind_ holds a bit exactly while a job that owns it is in place, *)
(* and CountGetter_ counts the Get jobs.                                      *)
FlagsExact == /\ IsFiniteSet(inplace)
              /\ \A b \in AllBits : b \in workingKind
                                     <=> \E p \in inplace : b \in KindBits(p[2])
              /\ countGetter = Cardinality(Getters)

NoneExcluded == \A p, q \in inplace : p # q => ~Excludes(p[2], q[2])

(* The pool runs a batch exactly in the state Working, and then alone. *)
TakingExact == /\ taking # None <=> state = "Working"
               /\ taking # None => inplace = {}
               /\ taking = None => batch = <<>>

(* Ringing: there is work, a TakeCall() is coming, and nothing in place can *)
(* make it return early.                                                    *)
RingingIsHeard == state = "Ringing" => /\ inplace = {}
                                       /\ tasks # <<>>
                                       /\ calls > 0 \/ posting # {}

(* Asleep with work queued: a job in place will ring when it leaves. *)
SleepersAreRung == state = "Sleeping" /\ tasks # <<>> => inplace # {}

IInv == /\ TypeOK /\ FlagsExact /\ NoneExcluded
        /\ TakingExact /\ RingingIsHeard /\ SleepersAreRung

-----------------------------------------------------------------------------
(* The bits of each kind, without the CASE. *)
LEMMA KindBitsValue ==
  /\ KindBits("Get") = {"get"}
  /\ KindBits("DenyGet") = {"get", "deny"}
  /\ KindBits("Set") = {"get", "deny", "set"}
  /\ KindBits("Send") = {"send"}
  /\ KindBits("Recv") = {"recv"}
  /\ \A k \in AllKinds : KindBits(k) \subseteq AllBits /\ KindBits(k) # {}
BY DEF KindBits, AllKinds, AllBits

(* A kind that shares a bit with Get and is not Get holds both Get bits. *)
LEMMA GetConflict ==
  ASSUME NEW k \in AllKinds, k # "Get", "get" \in KindBits(k)
  PROVE  "deny" \in KindBits(k)
BY KindBitsValue DEF AllKinds

(* The kinds exclude each other symmetrically. *)
LEMMA ExcludesSym ==
  ASSUME NEW j, NEW k, ~Excludes(j, k) PROVE ~Excludes(k, j)
BY DEF Excludes

(* AddTask and the queuing operations keep the types. *)
LEMMA PushType ==
  ASSUME TypeOK, Push PROVE tasks' \in Seq(Nat) /\ tasks' # <<>>
<1>1. Added + 1 \in Nat
  BY DEF TypeOK, Added
<1>2. tasks' = Append(tasks, Added + 1)
  BY DEF Push
<1> QED BY <1>1, <1>2 DEF TypeOK

(* A thread of the system that rings keeps the set of posting threads typed. *)
LEMMA RingType ==
  ASSUME TypeOK, NEW t \in Threads, NEW kinds, AfterAddTask(t, kinds)
  PROVE  state' \in {"Sleeping", "Ringing", "Working"} /\ posting' \in SUBSET Threads
BY DEF TypeOK, AfterAddTask

(* With the flags exact, they are empty exactly when no job is in place. *)
LEMMA NoBitsNoJobs ==
  ASSUME NEW W \in SUBSET AllBits, NEW I \in SUBSET (Callers \X Kinds),
         \A b \in AllBits : b \in W <=> \E p \in I : b \in KindBits(p[2])
  PROVE  W = {} <=> I = {}
<1>1. ASSUME NEW p \in I PROVE W # {}
  <2>1. p[2] \in AllKinds
    BY ConstantsAssumption
  <2>2. PICK b \in AllBits : b \in KindBits(p[2])
    BY <2>1, KindBitsValue
  <2> QED BY <1>1, <2>2
<1> QED BY <1>1

LEMMA EmptyFlags ==
  ASSUME TypeOK, FlagsExact PROVE workingKind = {} <=> inplace = {}
BY NoBitsNoJobs DEF TypeOK, FlagsExact

-----------------------------------------------------------------------------
LEMMA InitIInv == Init => IInv
<1> SUFFICES ASSUME Init PROVE IInv
  OBVIOUS
<1>1. TypeOK
  BY ConstantsAssumption DEF Init, TypeOK
<1>2. FlagsExact
  <2>1. Getters = {}
    BY DEF Init, Getters
  <2> QED BY <2>1, FS_EmptySet DEF Init, FlagsExact
<1> QED BY <1>1, <1>2 DEF Init, IInv, NoneExcluded, TakingExact, RingingIsHeard, SleepersAreRung

(* A step that only queues a task and rings, in any thread. *)
LEMMA QueueStep ==
  ASSUME IInv, NEW t \in Threads, Push, AfterAddTask(t, workingKind),
         UNCHANGED <<taking, workingKind, countGetter, batch, calls, direct, inplace, done>>,
         waitFor' \in [Callers -> Nat]
  PROVE  IInv'
<1> USE DEF IInv
<1>1. TypeOK'
  BY PushType, RingType DEF TypeOK
<1>2. FlagsExact' /\ NoneExcluded'
  BY DEF FlagsExact, NoneExcluded, Getters
<1>3. TakingExact'
  BY DEF TakingExact, AfterAddTask
<1>4. RingingIsHeard'
  BY PushType, EmptyFlags DEF RingingIsHeard, AfterAddTask
<1>5. SleepersAreRung'
  BY PushType, EmptyFlags DEF SleepersAreRung, AfterAddTask, TypeOK
<1> QED BY <1>1, <1>2, <1>3, <1>4, <1>5

(* A job starts in place: the flags stay exact and nothing is excluded. *)
LEMMA EnterStep ==
  ASSUME IInv, NEW t \in Callers, NEW k \in Kinds, Enter(t, k) PROVE IInv'
<1> USE DEF IInv
<1>0. k \in AllKinds /\ \A p \in inplace : p[2] \in AllKinds
  BY ConstantsAssumption DEF TypeOK
<1>a. inplace' = inplace \cup {<<t, k>>} /\ <<t, k>> \notin inplace
  BY DEF Enter
<1>b. countGetter' = IF k = "Get" THEN countGetter + 1 ELSE countGetter
  BY DEF Enter, SetKind
<1>c. workingKind' = workingKind \cup KindBits(k)
  <2>1. CASE k = "Get" /\ countGetter + 1 > 1
    <3>1. Getters # {}
      <4>1. Cardinality(Getters) > 0
        BY <2>1 DEF FlagsExact, TypeOK
      <4> QED BY <4>1, FS_EmptySet
    <3>2. "get" \in workingKind
      BY <3>1, KindBitsValue DEF FlagsExact, Getters, AllBits
    <3> QED BY <2>1, <3>2, KindBitsValue DEF Enter, SetKind
  <2>2. CASE ~(k = "Get" /\ countGetter + 1 > 1)
    BY <2>2 DEF Enter, SetKind
  <2> QED BY <2>1, <2>2
<1>1. TypeOK'
  <2>1. workingKind' \in SUBSET AllBits
    BY <1>0, <1>c, KindBitsValue DEF TypeOK
  <2> QED BY <1>a, <1>b, <2>1 DEF TypeOK, Enter
<1>2. FlagsExact'
  <2>1. IsFiniteSet(inplace')
    BY <1>a, FS_AddElement DEF FlagsExact
  <2>2. ASSUME NEW b \in AllBits
        PROVE  b \in workingKind' <=> \E p \in inplace' : b \in KindBits(p[2])
    <3>1. b \in workingKind' <=> b \in workingKind \/ b \in KindBits(k)
      BY <1>c
    <3>2. (\E p \in inplace' : b \in KindBits(p[2]))
            <=> (\E p \in inplace : b \in KindBits(p[2])) \/ b \in KindBits(k)
      BY <1>a
    <3> QED BY <3>1, <3>2, <2>2 DEF FlagsExact
  <2>3. countGetter' = Cardinality(Getters')
    <3>1. IsFiniteSet(Getters)
      BY FS_Subset DEF FlagsExact, Getters
    <3>2. CASE k = "Get"
      <4>1. Getters' = Getters \cup {<<t, k>>} /\ <<t, k>> \notin Getters
        BY <1>a, <3>2 DEF Getters
      <4> QED BY <3>1, <3>2, <4>1, <1>b, FS_AddElement DEF FlagsExact
    <3>3. CASE k # "Get"
      <4>1. Getters' = Getters
        BY <1>a, <3>3 DEF Getters
      <4> QED BY <3>3, <4>1, <1>b DEF FlagsExact
    <3> QED BY <3>2, <3>3
  <2> QED BY <2>1, <2>2, <2>3 DEF FlagsExact
<1>3. NoneExcluded'
  <2>1. ASSUME NEW p \in inplace PROVE ~Excludes(p[2], k)
    <3> SUFFICES ASSUME ~(p[2] = "Get" /\ k = "Get"),
                        NEW b \in KindBits(p[2]) \cap KindBits(k)
                 PROVE  FALSE
      BY DEF Excludes
    <3>1. b \in workingKind
      BY <1>0, KindBitsValue DEF FlagsExact
    <3>2. CASE k # "Get"
      BY <3>1, <3>2 DEF Enter, CheckKind
    <3>3. CASE k = "Get"
      <4>1. b = "get" /\ p[2] # "Get"
        BY <3>3, KindBitsValue
      <4>2. "deny" \in KindBits(p[2])
        BY <4>1, <1>0, GetConflict
      <4>3. KindBits("DenyGet") \subseteq workingKind
        BY <3>1, <4>1, <4>2, KindBitsValue DEF FlagsExact, AllBits
      <4> QED BY <3>3, <4>3 DEF Enter, CheckKind
    <3> QED BY <3>2, <3>3
  <2> QED BY <1>a, <2>1, ExcludesSym DEF NoneExcluded
<1>4. TakingExact' /\ RingingIsHeard' /\ SleepersAreRung'
  BY DEF TakingExact, RingingIsHeard, SleepersAreRung, Enter, CheckKind
<1> QED BY <1>1, <1>2, <1>3, <1>4

(* A job leaves: only its own bits are cleared, and the last one rings. *)
LEMMA LeaveStep ==
  ASSUME IInv, NEW t \in Callers, NEW k \in Kinds, Leave(t, k) PROVE IInv'
<1> USE DEF IInv
<1> DEFINE me == <<t, k>>
<1>0. k \in AllKinds /\ \A p \in inplace : p[2] \in AllKinds
  BY ConstantsAssumption DEF TypeOK
<1>a. inplace' = inplace \ {me} /\ me \in inplace
  BY DEF Leave
<1>b. IsFiniteSet(Getters)
  BY FS_Subset DEF FlagsExact, Getters
<1>c. countGetter' = Cardinality(Getters') /\ countGetter' \in Nat
  <2>1. CASE k = "Get"
    <3>1. Getters' = Getters \ {me} /\ me \in Getters
      BY <1>a, <2>1 DEF Getters
    <3>2. Cardinality(Getters') = Cardinality(Getters) - 1 /\ IsFiniteSet(Getters')
      BY <1>b, <3>1, FS_RemoveElement
    <3>3. Cardinality(Getters') \in Nat
      BY <3>2, FS_CardinalityType
    <3> QED BY <2>1, <3>2, <3>3 DEF Leave, GettersAfter, FlagsExact
  <2>2. CASE k # "Get"
    <3>1. Getters' = Getters
      BY <1>a, <2>2 DEF Getters
    <3> QED BY <2>2, <3>1 DEF Leave, GettersAfter, FlagsExact, TypeOK
  <2> QED BY <2>1, <2>2
<1>d. ASSUME NEW b \in AllBits
      PROVE  b \in workingKind' <=> \E p \in inplace' : b \in KindBits(p[2])
  <2>0. b \in workingKind <=> \E p \in inplace : b \in KindBits(p[2])
    BY <1>d DEF FlagsExact
  <2>1. CASE k = "Get" /\ GettersAfter(k) > 0
    <3>1. workingKind' = workingKind /\ countGetter' > 0
      BY <2>1 DEF Leave, KindAfter
    <3>2. Getters' # {}
      BY <3>1, <1>c, FS_EmptySet
    <3>3. PICK q \in inplace' : q[2] = "Get"
      BY <3>2 DEF Getters
    <3> QED BY <1>a, <2>0, <2>1, <3>1, <3>3
  <2>2. CASE ~(k = "Get" /\ GettersAfter(k) > 0)
    <3>1. workingKind' = workingKind \ KindBits(k)
      BY <2>2 DEF Leave, KindAfter
    <3>2. ASSUME NEW p \in inplace' PROVE KindBits(p[2]) \cap KindBits(k) = {}
      <4>1. p \in inplace /\ p # me /\ me[2] = k
        BY <1>a
      <4>2. ~Excludes(p[2], k)
        BY <1>a, <4>1 DEF NoneExcluded
      <4>3. CASE p[2] = "Get" /\ k = "Get"
        <5>1. p \in Getters' /\ IsFiniteSet(Getters')
          BY <1>a, <1>b, <4>3, FS_Subset DEF Getters
        <5>2. countGetter' > 0
          BY <5>1, <1>c, FS_EmptySet, FS_CardinalityType
        <5> QED BY <5>2, <2>2, <4>3 DEF Leave
      <4>4. CASE ~(p[2] = "Get" /\ k = "Get")
        BY <4>2, <4>4 DEF Excludes
      <4> QED BY <4>3, <4>4
    <3> QED BY <1>a, <2>0, <3>1, <3>2
  <2> QED BY <2>1, <2>2
<1>e. workingKind' \in SUBSET AllBits
  BY DEF Leave, KindAfter, TypeOK
<1>1. TypeOK'
  <2>1. state' \in {"Sleeping", "Ringing", "Working"} /\ posting' \in SUBSET Threads
    BY RingType DEF Leave, TypeOK, Threads
  <2> QED BY <1>a, <1>c, <1>e, <2>1 DEF TypeOK, Leave
<1>2. FlagsExact'
  BY <1>a, <1>c, <1>d, FS_RemoveElement DEF FlagsExact
<1>3. NoneExcluded'
  BY <1>a DEF NoneExcluded
<1>4. workingKind' = {} <=> inplace' = {}
  BY <1>1, <1>2, NoBitsNoJobs DEF TypeOK, FlagsExact
<1>5. TakingExact' /\ RingingIsHeard' /\ SleepersAreRung'
  <2>1. state # "Ringing" /\ state # "Working" /\ taking = None
    BY <1>a DEF RingingIsHeard, TakingExact
  <2>2. CASE tasks # <<>> /\ ~(k = "Get" /\ GettersAfter(k) > 0) /\ KindAfter(k) = {}
    BY <1>4, <2>1, <2>2 DEF TakingExact, RingingIsHeard, SleepersAreRung,
                            Leave, AfterAddTask, TypeOK
  <2>3. CASE ~(tasks # <<>> /\ ~(k = "Get" /\ GettersAfter(k) > 0) /\ KindAfter(k) = {})
    <3>1. UNCHANGED <<state, posting, taking, tasks, batch, calls>>
      BY <2>3 DEF Leave
    <3>2. tasks # <<>> => inplace' # {}
      <4>1. CASE k = "Get" /\ GettersAfter(k) > 0
        <5>1. Getters' # {}
          BY <4>1, <1>c, FS_EmptySet DEF Leave
        <5> QED BY <5>1 DEF Getters
      <4>2. CASE tasks # <<>> /\ KindAfter(k) # {}
        BY <1>4, <4>2 DEF Leave
      <4> QED BY <2>3, <4>1, <4>2
    <3> QED BY <2>1, <3>1, <3>2 DEF TakingExact, RingingIsHeard, SleepersAreRung
  <2> QED BY <2>2, <2>3
<1> QED BY <1>1, <1>2, <1>3, <1>5

(* The steps that leave the flags alone: posting, waiting, the pool. *)
LEMMA WaitReturnStep ==
  ASSUME IInv, NEW t \in Callers, WaitReturn(t) PROVE IInv'
BY DEF IInv, TypeOK, FlagsExact, Getters, NoneExcluded, TakingExact,
       RingingIsHeard, SleepersAreRung, WaitReturn

LEMMA PostCallStep ==
  ASSUME IInv, NEW t \in Threads, PostCall(t) PROVE IInv'
<1> USE DEF IInv
<1>1. TypeOK'
  BY DEF TypeOK, PostCall
<1>2. FlagsExact' /\ NoneExcluded' /\ TakingExact' /\ SleepersAreRung'
  BY DEF FlagsExact, Getters, NoneExcluded, TakingExact, SleepersAreRung, PostCall
<1>3. RingingIsHeard'
  BY DEF RingingIsHeard, PostCall, TypeOK
<1> QED BY <1>1, <1>2, <1>3

LEMMA DirectCallStep ==
  ASSUME IInv, DirectCall PROVE IInv'
BY DEF IInv, TypeOK, FlagsExact, Getters, NoneExcluded, TakingExact,
       RingingIsHeard, SleepersAreRung, DirectCall

(* A TakeCall() that returns early never swallows the only ring: it returns *)
(* early only while a job is in place or a batch runs, and then the state   *)
(* is not Ringing.                                                          *)
LEMMA TakeCallReturnStep ==
  ASSUME IInv, NEW p \in Pool, TakeCallReturn(p) PROVE IInv'
<1> USE DEF IInv
<1>1. state # "Ringing"
  BY EmptyFlags DEF TakeCallReturn, RingingIsHeard, TakingExact
<1>2. TypeOK'
  BY DEF TypeOK, TakeCallReturn, CanTakeCall
<1> QED BY <1>1, <1>2 DEF FlagsExact, Getters, NoneExcluded, TakingExact,
                          RingingIsHeard, SleepersAreRung, TakeCallReturn

LEMMA TakeCallBeginStep ==
  ASSUME IInv, NEW p \in Pool, TakeCallBegin(p) PROVE IInv'
<1> USE DEF IInv
<1>1. inplace = {} /\ p # None
  BY EmptyFlags, ConstantsAssumption DEF TakeCallBegin
<1>2. TypeOK'
  BY DEF TypeOK, TakeCallBegin, CanTakeCall
<1> QED BY <1>1, <1>2 DEF FlagsExact, Getters, NoneExcluded, TakingExact,
                          RingingIsHeard, SleepersAreRung, TakeCallBegin

LEMMA InvokeStep ==
  ASSUME IInv, NEW p \in Pool, Invoke(p) PROVE IInv'
<1> USE DEF IInv
<1>1. p # None
  BY ConstantsAssumption
<1>2. TypeOK'
  <2>1. batch \in Seq(Nat) /\ batch # <<>>
    BY DEF TypeOK, Invoke
  <2>2. Head(batch) \in Nat /\ Tail(batch) \in Seq(Nat)
    BY <2>1
  <2>3. done' \in Seq(Nat) /\ batch' \in Seq(Nat)
    BY <2>2 DEF TypeOK, Invoke
  <2> QED BY <2>3 DEF TypeOK, Invoke
<1> QED BY <1>1, <1>2 DEF FlagsExact, Getters, NoneExcluded, TakingExact,
                          RingingIsHeard, SleepersAreRung, Invoke

LEMMA TakeCallEndStep ==
  ASSUME IInv, NEW p \in Pool, TakeCallEnd(p) PROVE IInv'
<1> USE DEF IInv
<1>1. p # None /\ inplace = {}
  BY ConstantsAssumption DEF TakingExact, TakeCallEnd
<1>2. TypeOK'
  BY DEF TypeOK, TakeCallEnd, Threads
<1>3. FlagsExact' /\ NoneExcluded'
  BY DEF FlagsExact, Getters, NoneExcluded, TakeCallEnd
<1>4. CASE tasks = <<>>
  BY <1>1, <1>2, <1>3, <1>4 DEF TakingExact, RingingIsHeard, SleepersAreRung, TakeCallEnd
<1>5. CASE tasks # <<>>
  BY <1>1, <1>2, <1>3, <1>5 DEF TakingExact, RingingIsHeard, SleepersAreRung, TakeCallEnd
<1> QED BY <1>4, <1>5

(* IInv is inductive. *)
LEMMA NextIInv == IInv /\ [Next]_vars => IInv'
<1> SUFFICES ASSUME IInv, [Next]_vars PROVE IInv'
  OBVIOUS
<1>1. CASE UNCHANGED vars
  BY <1>1 DEF vars, IInv, TypeOK, FlagsExact, Getters, NoneExcluded,
              TakingExact, RingingIsHeard, SleepersAreRung
<1>2. ASSUME NEW t \in Callers, NEW k \in Kinds,
             EnqueueInstead(t, k) \/ EnqueueWhenAllowed(t, k) \/ EnqueueAndWait(t, k)
      PROVE  IInv'
  <2>0. waitFor \in [Callers -> Nat] /\ Added + 1 \in Nat
    BY DEF IInv, TypeOK, Added
  <2>1. waitFor' \in [Callers -> Nat]
    BY <1>2, <2>0 DEF EnqueueInstead, EnqueueWhenAllowed, EnqueueAndWait
  <2>2. /\ Push /\ AfterAddTask(t, workingKind)
        /\ UNCHANGED <<taking, workingKind, countGetter, batch, calls, direct, inplace, done>>
    BY <1>2 DEF EnqueueInstead, EnqueueWhenAllowed, EnqueueAndWait
  <2> QED BY <2>1, <2>2, QueueStep DEF Threads
<1>3. ASSUME NEW t \in Callers, AddTask(t) PROVE IInv'
  <2>1. waitFor' \in [Callers -> Nat]
    BY <1>3 DEF AddTask, IInv, TypeOK
  <2> QED BY <1>3, <2>1, QueueStep DEF Threads, AddTask
<1>4. ASSUME NEW p \in Pool, OpAddTask(p) PROVE IInv'
  <2>1. waitFor' \in [Callers -> Nat]
    BY <1>4 DEF OpAddTask, IInv, TypeOK
  <2> QED BY <1>4, <2>1, QueueStep DEF Threads, OpAddTask
<1>5. ASSUME NEW p \in Pool, PoolStep(p) PROVE IInv'
  BY <1>4, <1>5, TakeCallReturnStep, TakeCallBeginStep, InvokeStep, TakeCallEndStep
     DEF PoolStep
<1> QED BY <1>1, <1>2, <1>3, <1>5, EnterStep, LeaveStep, WaitReturnStep,
           PostCallStep, DirectCallStep DEF Next

(* IInv holds in every reachable state. *)
LEMMA Inductive == Spec => []IInv
BY InitIInv, NextIInv, PTL DEF Spec

-----------------------------------------------------------------------------
(* The variables of AQueue keep their types: CountGetter_ never goes below   *)
(* zero and WorkingTaskKind_ only holds bits of the kinds.                   *)
THEOREM TypeCorrect == Spec => []TypeOK
<1>1. IInv => TypeOK
  BY DEF IInv
<1> QED BY <1>1, Inductive, PTL

(* Queued tasks and in-place jobs never overlap, and jobs in place never     *)
(* exclude each other.                                                       *)
THEOREM Serialised == Spec => []OpSafe
<1>1. IInv => OpSafe
  BY DEF IInv, OpSafe, TakingExact, NoneExcluded
<1> QED BY <1>1, Inductive, PTL

(* A queued task is never forgotten: somebody will call TakeCall() for it,   *)
(* and that TakeCall() will not return early.                                *)
THEOREM NoTaskForgotten == Spec => []NoLostWakeup
<1>1. IInv => NoLostWakeup
  <2> SUFFICES ASSUME IInv, tasks # <<>>, taking = None, inplace = {}
               PROVE  workingKind = {} /\ (calls > 0 \/ posting # {})
    BY DEF NoLostWakeup
  <2>1. state = "Ringing"
    BY DEF IInv, TypeOK, TakingExact, SleepersAreRung
  <2> QED BY <2>1, EmptyFlags DEF IInv, RingingIsHeard
<1> QED BY <1>1, Inductive, PTL

-----------------------------------------------------------------------------
(* Facts about sequences that the refinement needs. *)
LEMMA SeqFacts ==
  /\ \A a, b \in Seq(Nat), n \in Nat : a \o Append(b, n) = Append(a \o b, n)
  /\ \A a, b \in Seq(Nat) : a # <<>> =>
        Head(a \o b) = Head(a) /\ Tail(a \o b) = Tail(a) \o b
  /\ \A a \in Seq(Nat) : a \o <<>> = a /\ <<>> \o a = a
  /\ \A a, b \in Seq(Nat) : Len(a \o b) = Len(a) + Len(b) /\ a \o b \in Seq(Nat)
  /\ \A a, b \in Seq(Nat) : a # <<>> => a \o b # <<>>
<1>1. ASSUME NEW a \in Seq(Nat), NEW b \in Seq(Nat), NEW n \in Nat
      PROVE  a \o Append(b, n) = Append(a \o b, n)
  BY <1>1
<1>2. ASSUME NEW a \in Seq(Nat), NEW b \in Seq(Nat), a # <<>>
      PROVE  Head(a \o b) = Head(a) /\ Tail(a \o b) = Tail(a) \o b /\ a \o b # <<>>
  BY <1>2
<1>3. ASSUME NEW a \in Seq(Nat) PROVE a \o <<>> = a /\ <<>> \o a = a
  BY <1>3
<1>4. ASSUME NEW a \in Seq(Nat), NEW b \in Seq(Nat)
      PROVE  Len(a \o b) = Len(a) + Len(b) /\ a \o b \in Seq(Nat)
  BY <1>4
<1> QED BY <1>1, <1>2, <1>3, <1>4

(* Queuing a task is SerialOps' Submit. *)
LEMMA QueueRefines ==
  ASSUME IInv, Push, UNCHANGED <<taking, batch, inplace, done>>
  PROVE  Ops!Submit
<1>1. tasks \in Seq(Nat) /\ batch \in Seq(Nat) /\ done \in Seq(Nat) /\ Added + 1 \in Nat
  BY DEF IInv, TypeOK, Added
<1>2. batch \o tasks' = Append(batch \o tasks, Added + 1)
  BY <1>1, SeqFacts DEF Push
<1>3. Added + 1 = Len(done) + Len(batch \o tasks) + 1
  BY <1>1, SeqFacts DEF Added
<1> QED BY <1>2, <1>3 DEF Ops!Submit

(* AQueue implements SerialOps: FIFO, one at a time, in place only when      *)
(* nothing is queued and nothing excluded runs.                              *)
THEOREM Refinement == Spec => ImplementsSerialOps
<1>1. Init => Ops!Init
  BY SeqFacts DEF Init, Ops!Init
<1>2. IInv /\ [Next]_vars => [Ops!Next]_(Ops!absVars)
  <2> SUFFICES ASSUME IInv, [Next]_vars PROVE [Ops!Next]_(Ops!absVars)
    OBVIOUS
  <2> USE DEF IInv
  <2>0. tasks \in Seq(Nat) /\ batch \in Seq(Nat) /\ done \in Seq(Nat)
    BY DEF TypeOK
  <2>1. CASE UNCHANGED vars
    BY <2>1 DEF vars, Ops!absVars
  <2>2. ASSUME NEW t \in Callers, NEW k \in Kinds,
               EnqueueInstead(t, k) \/ EnqueueWhenAllowed(t, k) \/ EnqueueAndWait(t, k)
        PROVE  Ops!Next
    BY <2>2, QueueRefines DEF EnqueueInstead, EnqueueWhenAllowed, EnqueueAndWait, Ops!Next
  <2>3. ASSUME NEW t \in Callers, AddTask(t) PROVE Ops!Next
    BY <2>3, QueueRefines DEF AddTask, Ops!Next
  <2>4. ASSUME NEW p \in Pool, OpAddTask(p) PROVE Ops!Next
    BY <2>4, QueueRefines DEF OpAddTask, Ops!Next
  <2>5. ASSUME NEW t \in Callers, NEW k \in Kinds, Enter(t, k) PROVE Ops!Next
    <3>1. taking = None /\ batch \o tasks = <<>>
      BY <2>5, SeqFacts, <2>0 DEF Enter, CheckKind, TakingExact
    <3>2. \A q \in inplace : ~Excludes(q[2], k)
      <4>1. IInv'
        BY <2>5, EnterStep
      <4>2. inplace' = inplace \cup {<<t, k>>} /\ <<t, k>> \notin inplace
        BY <2>5 DEF Enter
      <4> QED BY <4>1, <4>2 DEF NoneExcluded
    <3>3. Ops!Enter(t, k)
      BY <2>5, <3>1, <3>2 DEF Enter, Ops!Enter
    <3> QED BY <3>3 DEF Ops!Next
  <2>6. ASSUME NEW t \in Callers, NEW k \in Kinds, Leave(t, k) PROVE Ops!Next
    <3>1. Ops!Leave(t, k)
      BY <2>6 DEF Leave, Ops!Leave
    <3> QED BY <3>1 DEF Ops!Next
  <2>7. ASSUME NEW p \in Pool, TakeCallBegin(p) PROVE Ops!Next
    <3>1. inplace = {} /\ p # None
      BY <2>7, EmptyFlags, ConstantsAssumption DEF TakeCallBegin
    <3>2. batch' \o tasks' = batch \o tasks
      BY <2>7, <2>0, SeqFacts DEF TakeCallBegin, TakingExact
    <3>3. Ops!BeginOps
      BY <2>7, <3>1, <3>2 DEF TakeCallBegin, Ops!BeginOps
    <3> QED BY <3>3 DEF Ops!Next
  <2>8. ASSUME NEW p \in Pool, Invoke(p) PROVE Ops!Next
    <3>1. p # None
      BY ConstantsAssumption
    <3>2. /\ batch \o tasks # <<>> /\ Head(batch) = Head(batch \o tasks)
          /\ batch' \o tasks' = Tail(batch \o tasks)
      BY <2>8, <2>0, SeqFacts DEF Invoke
    <3>3. Ops!Execute
      BY <2>8, <3>1, <3>2 DEF Invoke, Ops!Execute
    <3> QED BY <3>3 DEF Ops!Next
  <2>9. ASSUME NEW p \in Pool, TakeCallEnd(p) PROVE Ops!Next
    <3>1. Ops!EndOps
      BY <2>9, ConstantsAssumption DEF TakeCallEnd, Ops!EndOps
    <3> QED BY <3>1 DEF Ops!Next
  <2>10. ASSUME NEW t \in Callers, WaitReturn(t) PROVE UNCHANGED Ops!absVars
    BY <2>10 DEF WaitReturn, Ops!absVars
  <2>11. ASSUME NEW t \in Threads, PostCall(t) PROVE UNCHANGED Ops!absVars
    BY <2>11 DEF PostCall, Ops!absVars
  <2>12. ASSUME DirectCall PROVE UNCHANGED Ops!absVars
    BY <2>12 DEF DirectCall, Ops!absVars
  <2>13. ASSUME NEW p \in Pool, TakeCallReturn(p) PROVE UNCHANGED Ops!absVars
    BY <2>13 DEF TakeCallReturn, Ops!absVars
  <2>14. ASSUME NEW p \in Pool, PoolStep(p) PROVE [Ops!Next]_(Ops!absVars)
    BY <2>14, <2>4, <2>7, <2>8, <2>9, <2>13 DEF PoolStep
  <2> QED BY <2>1, <2>2, <2>3, <2>5, <2>6, <2>10, <2>11, <2>12, <2>14 DEF Next
<1> QED BY <1>1, <1>2, Inductive, PTL DEF Spec, ImplementsSerialOps, Ops!SafeSpec

-----------------------------------------------------------------------------
(* Running the head of a batch moves it from the batch to the history. *)
LEMMA MoveHead ==
  ASSUME NEW d \in Seq(Nat), NEW b \in Seq(Nat), b # <<>>
  PROVE  Append(d, Head(b)) \o Tail(b) = d \o b
<1> DEFINE l == Append(d, Head(b)) \o Tail(b)
           r == d \o b
<1>1. /\ Head(b) \in Nat /\ Tail(b) \in Seq(Nat) /\ Len(Tail(b)) = Len(b) - 1
      /\ Append(d, Head(b)) \in Seq(Nat) /\ Len(Append(d, Head(b))) = Len(d) + 1
  OBVIOUS
<1>2. l \in Seq(Nat) /\ r \in Seq(Nat) /\ Len(l) = Len(r) /\ Len(r) = Len(d) + Len(b)
  BY <1>1
<1>3. ASSUME NEW i \in 1..Len(l) PROVE l[i] = r[i]
  <2>1. CASE i <= Len(d)
    BY <1>1, <1>2, <1>3, <2>1
  <2>2. CASE i = Len(d) + 1
    BY <1>1, <1>2, <1>3, <2>2
  <2>3. CASE i > Len(d) + 1
    BY <1>1, <1>2, <1>3, <2>3
  <2> QED BY <1>2, <2>1, <2>2, <2>3
<1> HIDE DEF l, r
<1>4. l = r
  BY <1>2, <1>3, SeqEqual
<1> QED BY <1>4 DEF l, r

(* No step reorders what was queued: each leaves the concatenation of the    *)
(* history, the batch and the queue alone, or appends the next number.       *)
LEMMA OrderStep == IInv /\ RunInOrder /\ [Next]_vars => RunInOrder'
<1> SUFFICES ASSUME IInv, RunInOrder, [Next]_vars PROVE RunInOrder'
  OBVIOUS
<1> USE DEF IInv
<1>0. tasks \in Seq(Nat) /\ batch \in Seq(Nat) /\ done \in Seq(Nat)
  BY DEF TypeOK
<1>1. ASSUME Push, UNCHANGED <<batch, done>> PROVE RunInOrder'
  <2> DEFINE all == done \o batch \o tasks
  <2>1. all \in Seq(Nat) /\ Len(all) = Added /\ done \o batch \in Seq(Nat)
    BY <1>0, SeqFacts DEF Added
  <2>2. Added \in Nat /\ Added' = Added + 1
    BY <1>0, <1>1 DEF Added, Push
  <2>3. (done \o batch \o tasks)' = Append(all, Added + 1)
    <3>1. (done \o batch \o tasks)' = (done \o batch) \o Append(tasks, Added + 1)
      BY <1>1 DEF Push
    <3>2. \A a \in Seq(Nat) : a \o Append(tasks, Added + 1) = Append(a \o tasks, Added + 1)
      BY SMTT(40), <1>0, <2>2, SeqFacts
    <3> QED BY <2>1, <3>1, <3>2
  <2> HIDE DEF all
  <2>4. ASSUME NEW i \in 1..(Added + 1) PROVE Append(all, Added + 1)[i] = i
    <3>1. CASE i = Added + 1
      BY <2>1, <2>2, <3>1
    <3>2. CASE i # Added + 1
      <4>1. i \in 1..Added
        BY <2>2, <3>2
      <4>2. all[i] = i
        BY <4>1 DEF RunInOrder, all
      <4> QED BY <2>1, <2>2, <4>1, <4>2
    <3> QED BY <3>1, <3>2
  <2> QED BY <2>2, <2>3, <2>4 DEF RunInOrder
<1>2. ASSUME UNCHANGED <<done, batch, tasks>> PROVE RunInOrder'
  BY <1>2 DEF RunInOrder, Added
<1>3. ASSUME NEW p \in Pool, TakeCallBegin(p) PROVE RunInOrder'
  <2>1. batch = <<>> /\ batch' = tasks /\ tasks' = <<>> /\ done' = done
    BY <1>3 DEF TakeCallBegin, TakingExact
  <2>2. (done \o batch \o tasks)' = done \o batch \o tasks /\ Added' = Added
    BY <1>0, <2>1, SeqFacts DEF Added
  <2> QED BY <2>2 DEF RunInOrder
<1>4. ASSUME NEW p \in Pool, Invoke(p) PROVE RunInOrder'
  <2>1. (done \o batch)' = done \o batch /\ tasks' = tasks
    BY <1>0, <1>4, MoveHead DEF Invoke
  <2>2. Added' = Added
    <3>1. Len(done') = Len(done) + 1 /\ Len(batch') = Len(batch) - 1
      BY <1>0, <1>4 DEF Invoke
    <3> QED BY <1>0, <2>1, <3>1 DEF Added
  <2> QED BY <2>1, <2>2 DEF RunInOrder
<1>5. ASSUME NEW p \in Pool, PoolStep(p) PROVE RunInOrder'
  BY <1>1, <1>2, <1>3, <1>4, <1>5 DEF PoolStep, TakeCallReturn, OpAddTask, TakeCallEnd
<1>6. ASSUME NEW t \in Callers, AddTask(t) \/ WaitReturn(t) PROVE RunInOrder'
  BY <1>1, <1>2, <1>6 DEF AddTask, WaitReturn
<1>7. ASSUME NEW t \in Callers, NEW k \in Kinds,
             \/ Enter(t, k) \/ Leave(t, k) \/ EnqueueInstead(t, k)
             \/ EnqueueWhenAllowed(t, k) \/ EnqueueAndWait(t, k)
      PROVE  RunInOrder'
  BY <1>1, <1>2, <1>7 DEF Enter, Leave, EnqueueInstead, EnqueueWhenAllowed, EnqueueAndWait
<1> QED BY <1>2, <1>5, <1>6, <1>7 DEF Next, PostCall, DirectCall, vars

(* Queued tasks run exactly once and in the order in which they were queued. *)
THEOREM Fifo == Spec => []RunInOrder
<1>1. Init => RunInOrder
  BY DEF Init, RunInOrder, Added
<1> QED BY <1>1, OrderStep, Inductive, PTL DEF Spec

-----------------------------------------------------------------------------
(* The stronger count: beyond the calls made unasked there is one call in    *)
(* flight while the worker rings and none otherwise.                         *)
CallsExact == /\ IsFiniteSet(posting)
              /\ calls + Cardinality(posting)
                   <= direct + (IF state = "Ringing" THEN 1 ELSE 0)

LEMMA CallsStep == IInv /\ CallsExact /\ [Next]_vars => CallsExact'
<1> SUFFICES ASSUME IInv, CallsExact, [Next]_vars PROVE CallsExact'
  OBVIOUS
<1> USE DEF IInv
<1>0. calls \in Nat /\ direct \in Nat /\ Cardinality(posting) \in Nat
  BY FS_CardinalityType DEF TypeOK, CallsExact
<1>1. ASSUME NEW t, posting' = posting \cup {t}
      PROVE  IsFiniteSet(posting') /\ Cardinality(posting') \in Nat
             /\ Cardinality(posting') <= Cardinality(posting) + 1
  <2>1. IsFiniteSet(posting)
    BY DEF CallsExact
  <2>2. /\ IsFiniteSet(posting \cup {t})
        /\ \/ Cardinality(posting \cup {t}) = Cardinality(posting)
           \/ Cardinality(posting \cup {t}) = Cardinality(posting) + 1
    BY <2>1, FS_AddElement
  <2> QED BY <1>0, <1>1, <2>2
<1>2. ASSUME NEW t, NEW kinds, AfterAddTask(t, kinds), UNCHANGED <<calls, direct>>
      PROVE  CallsExact'
  <2>1. CASE kinds = {} /\ state = "Sleeping"
    BY <1>0, <1>1, <1>2, <2>1 DEF CallsExact, AfterAddTask
  <2>2. CASE ~(kinds = {} /\ state = "Sleeping")
    BY <1>2, <2>2 DEF CallsExact, AfterAddTask
  <2> QED BY <2>1, <2>2
<1>3. ASSUME UNCHANGED <<calls, direct, posting, state>> PROVE CallsExact'
  BY <1>3 DEF CallsExact
<1>4. ASSUME NEW t \in Callers, NEW k \in Kinds, Leave(t, k) PROVE CallsExact'
  BY <1>2, <1>3, <1>4 DEF Leave
<1>5. ASSUME NEW t \in Threads, PostCall(t) PROVE CallsExact'
  <2>1. /\ IsFiniteSet(posting') /\ Cardinality(posting') = Cardinality(posting) - 1
        /\ calls' = calls + 1 /\ direct' = direct /\ state' = state
    BY <1>5, FS_RemoveElement DEF CallsExact, PostCall
  <2> QED BY <1>0, <2>1 DEF CallsExact
<1>6. ASSUME DirectCall PROVE CallsExact'
  BY <1>0, <1>6 DEF CallsExact, DirectCall
<1>7. ASSUME NEW p \in Pool, TakeCallReturn(p) \/ TakeCallBegin(p) PROVE CallsExact'
  <2>1. state = "Ringing" => TakeCallBegin(p)
    BY <1>7, EmptyFlags DEF TakeCallReturn, RingingIsHeard, TakingExact
  <2>2. /\ calls' = calls - 1 /\ direct' = direct /\ posting' = posting
        /\ state' = state \/ state' = "Working"
    BY <1>7 DEF TakeCallReturn, TakeCallBegin
  <2>3. state = "Ringing" => state' = "Working"
    BY <2>1 DEF TakeCallBegin
  <2> QED BY <1>0, <2>2, <2>3 DEF CallsExact
<1>8. ASSUME NEW p \in Pool, TakeCallEnd(p) PROVE CallsExact'
  <2>1. state = "Working" /\ calls' = calls /\ direct' = direct
    BY <1>8, ConstantsAssumption DEF TakeCallEnd, TakingExact
  <2>2. CASE tasks = <<>>
    BY <1>8, <2>1, <2>2 DEF CallsExact, TakeCallEnd
  <2>3. CASE tasks # <<>>
    <3>1. posting' = posting \cup {p} /\ state' = "Ringing"
      BY <1>8, <2>3 DEF TakeCallEnd
    <3> QED BY <1>0, <1>1, <2>1, <3>1 DEF CallsExact
  <2> QED BY <2>2, <2>3
<1>9. ASSUME NEW p \in Pool, PoolStep(p) PROVE CallsExact'
  BY <1>2, <1>3, <1>7, <1>8, <1>9 DEF PoolStep, Invoke, OpAddTask
<1>10. ASSUME NEW t \in Callers, AddTask(t) \/ WaitReturn(t) PROVE CallsExact'
  BY <1>2, <1>3, <1>10 DEF AddTask, WaitReturn
<1>11. ASSUME NEW t \in Callers, NEW k \in Kinds,
              \/ Enter(t, k) \/ EnqueueInstead(t, k)
              \/ EnqueueWhenAllowed(t, k) \/ EnqueueAndWait(t, k)
       PROVE  CallsExact'
  BY <1>2, <1>3, <1>11 DEF Enter, EnqueueInstead, EnqueueWhenAllowed, EnqueueAndWait
<1> QED BY <1>3, <1>4, <1>5, <1>6, <1>9, <1>10, <1>11 DEF Next, vars

(* MakeCallForWork() never has two calls of its own in flight. *)
THEOREM RungOnce == Spec => []OneCallInFlight
<1>1. Init => CallsExact
  BY FS_EmptySet DEF Init, CallsExact
<1>2. IInv /\ CallsExact => OneCallInFlight
  <2> SUFFICES ASSUME IInv, CallsExact PROVE OneCallInFlight
    OBVIOUS
  <2>1. calls \in Nat /\ direct \in Nat /\ Cardinality(posting) \in Nat
    BY FS_CardinalityType DEF IInv, TypeOK, CallsExact
  <2> QED BY <2>1 DEF OneCallInFlight, CallsExact
<1> QED BY <1>1, <1>2, CallsStep, Inductive, PTL DEF Spec

-----------------------------------------------------------------------------
(* The requests of the trading lines *)

(* What is assumed of the constants: every line has its manager, and an offer
   is another manager (OnAskFor_SendRequest refuses its own). *)
TradeOK ==
  /\ MgrOf \in [Lines -> Mgrs] /\ OfferOf \in [Mgrs -> Mgrs \cup {NoMgr}]
  /\ \A m \in Mgrs : OfferOf[m] # m
  /\ NoMgr \notin Mgrs /\ NoLine \notin Lines /\ NoRequest \notin Requests

-----------------------------------------------------------------------------
(* The invariant *)

Fates == {"new", "queued", "sent", "rejected", "ended", "leaving"}

TradeTyped ==
  /\ lines \in [Mgrs -> SUBSET Lines] /\ queue \in [Mgrs -> Seq(Requests)]
  /\ flow \in [Mgrs -> Lines \cup {NoLine}] /\ loop \in [Mgrs -> {"none", "ready", "asked"}]
  /\ working \in [Mgrs -> Requests \cup {NoRequest}] /\ notices \subseteq Mgrs /\ unheard \subseteq Mgrs
  /\ lineSt \in [Lines -> {"off", "ready", "busy", "full", "broken"}]
  /\ tell \in [Lines -> {"nothing", "ready", "broken"}]
  /\ fate \in [Requests -> Fates] /\ by \in [Requests -> Lines \cup {NoLine}]
  /\ came \in [Mgrs -> Seq(Requests)]

(* A line is of its manager, and it is among its manager's lines when the
   manager has heard of all that its link did; a line that its manager let go
   without hearing of it was dropped in silence. *)
LinesKnown ==
  /\ \A m \in Mgrs : \A l \in lines[m] : MgrOf[l] = m /\ lineSt[l] # "off"
  /\ \A l \in Lines :
       /\ lineSt[l] = "broken" <=> tell[l] = "broken"
       /\ lineSt[l] = "off" => tell[l] = "nothing"
       /\ lineSt[l] \in {"ready", "busy", "full"} /\ tell[l] = "nothing" => l \in lines[MgrOf[l]]
       /\ lineSt[l] = "broken" => l \in lines[MgrOf[l]] \/ MgrOf[l] \in unheard

In(q, r) == \E i \in 1 .. Len(q) : q[i] = r

(* A queue q has its requests in the order of c. *)
InTheOrderOf(q, c) ==
  \A a, b \in 1 .. Len(q) : a < b => \A i, j \in 1 .. Len(c) : c[i] = q[a] /\ c[j] = q[b] => i < j

(* Every request came to one manager, once; what is queued came, in that order,
   and no later one is ahead of it. *)
Ordered(Q, C, F) ==
  /\ Q \in [Mgrs -> Seq(Requests)] /\ C \in [Mgrs -> Seq(Requests)] /\ F \in [Requests -> Fates]
  /\ \A m, n \in Mgrs : \A i \in 1 .. Len(C[m]), j \in 1 .. Len(C[n]) : C[m][i] = C[n][j] => m = n /\ i = j
  /\ \A m \in Mgrs : \A r \in Requests : In(Q[m], r) => In(C[m], r)
  /\ \A m \in Mgrs : InTheOrderOf(Q[m], C[m])
  /\ \A r \in Requests : F[r] = "new" <=> \A m \in Mgrs : ~In(C[m], r)
  /\ \A r \in Requests : F[r] = "queued" <=> \E m \in Mgrs : In(Q[m], r)
  /\ \A m \in Mgrs : \A i, j \in 1 .. Len(C[m]) :
       i < j /\ F[C[m][i]] = "queued" => F[C[m][j]] \in {"queued", "ended"}

(* A request that was sent has its line, the last one sent for others its offer's. *)
SentBy ==
  /\ \A r \in Requests : fate[r] = "sent" <=> by[r] # NoLine
  /\ \A m \in Mgrs : working[m] # NoRequest => fate[working[m]] = "sent" /\ MgrOf[by[working[m]]] = m

RequestsInv == TradeTyped /\ LinesKnown /\ Ordered(queue, came, fate) /\ SentBy

(* With a queue that nobody goes through and no timer, no line could take a
   request: each is busy, broken or about to call. *)
LinesCannot(m) ==
  queue[m] # <<>> /\ loop[m] = "none" /\ flow[m] = NoLine
    => \A l \in lines[m] : lineSt[l] \in {"busy", "broken"} \/ tell[l] = "ready"

(* Nor could the offer, unless it tells when it can. *)
Waits(m) == queue[m] # <<>> /\ loop[m] = "none" /\ m \notin notices
OfferCannot(m) ==
  Waits(m) /\ OfferOf[m] # NoMgr /\ OfferOf[m] \notin unheard /\ lines[OfferOf[m]] # {}
    => OwnLineCalls(OfferOf[m]) \/ working[OfferOf[m]] # NoRequest

(* A manager without a line does not keep a queue, unless its offer has lines. *)
SomeLine(m) ==
  Waits(m) /\ lines[m] = {} => OfferOf[m] # NoMgr /\ (lines[OfferOf[m]] # {} \/ OfferOf[m] \in unheard)

WaitsInv == \A m \in Mgrs : LinesCannot(m) /\ OfferCannot(m) /\ SomeLine(m)

-----------------------------------------------------------------------------
(* Queues *)

(* A sequence with one more at its end. *)
LEMMA Appended ==
  ASSUME NEW q \in Seq(Requests), NEW r \in Requests
  PROVE  /\ Append(q, r) \in Seq(Requests) /\ Len(Append(q, r)) = Len(q) + 1 /\ Len(q) \in Nat
         /\ Append(q, r)[Len(q) + 1] = r /\ \A i \in 1 .. Len(q) : Append(q, r)[i] = q[i]
         /\ \A x : In(Append(q, r), x) <=> In(q, x) \/ x = r
<1>1. /\ Append(q, r) \in Seq(Requests) /\ Len(Append(q, r)) = Len(q) + 1 /\ Len(q) \in Nat
      /\ Append(q, r)[Len(q) + 1] = r /\ \A i \in 1 .. Len(q) : Append(q, r)[i] = q[i]
  BY AppendProperties
<1>2. \A i \in 1 .. Len(q) + 1 : i \in 1 .. Len(q) \/ i = Len(q) + 1
  BY <1>1
<1>3. 1 .. Len(q) \subseteq 1 .. Len(q) + 1 /\ Len(q) + 1 \in 1 .. Len(q) + 1
  BY <1>1
<1> QED
  BY <1>1, <1>2, <1>3 DEF In

(* A sequence in the order of another, without its i-th member. *)
LEMMA Removed ==
  ASSUME NEW q \in Seq(Requests), NEW i \in 1 .. Len(q), NEW c \in Seq(Requests), InTheOrderOf(q, c),
         \A j \in 1 .. Len(q) : In(c, q[j])
  PROVE  /\ Without(q, i) \in Seq(Requests) /\ InTheOrderOf(Without(q, i), c)
         /\ \A x : In(Without(q, i), x) <=> In(q, x) /\ x # q[i]
<1> DEFINE a == SubSeq(q, 1, i - 1)
           b == SubSeq(q, i + 1, Len(q))
           u == a \o b
<1>1. /\ a \in Seq(Requests) /\ Len(a) = i - 1 /\ \A j \in 1 .. i - 1 : a[j] = q[j]
  BY SubSeqProperties
<1>2. /\ b \in Seq(Requests) /\ Len(b) = Len(q) - i /\ \A j \in 1 .. (Len(q) - i) : b[j] = q[i + j]
  BY SubSeqProperties
<1> HIDE DEF a, b
<1>3. /\ u \in Seq(Requests) /\ Len(u) = Len(q) - 1
      /\ \A j \in 1 .. (Len(q) - 1) : u[j] = IF j < i THEN q[j] ELSE q[j + 1]
  <2>1. /\ u \in Seq(Requests) /\ Len(u) = Len(a) + Len(b)
        /\ \A j \in 1 .. Len(a) + Len(b) : u[j] = IF j <= Len(a) THEN a[j] ELSE b[j - Len(a)]
    BY <1>1, <1>2, ConcatProperties
  <2>2. i \in Nat \ {0} /\ Len(q) \in Nat /\ i <= Len(q)
    OBVIOUS
  <2>3. ASSUME NEW j \in 1 .. (Len(q) - 1)
        PROVE  u[j] = IF j < i THEN q[j] ELSE q[j + 1]
    <3>1. CASE j < i
      BY <1>1, <1>2, <2>1, <2>2, <3>1
    <3>2. CASE ~(j < i)
      <4>1. j - Len(a) \in 1 .. (Len(q) - i) /\ i + (j - Len(a)) = j + 1 /\ ~(j <= Len(a)) /\ j \in 1 .. Len(a) + Len(b)
        BY <1>1, <1>2, <2>2, <3>2
      <4> QED
        BY <1>2, <2>1, <3>2, <4>1
    <3> QED
      BY <3>1, <3>2
  <2> QED
    BY <1>1, <1>2, <2>1, <2>2, <2>3
<1>4. u = Without(q, i)
  BY DEF Without, RemoveAt, a, b
<1> HIDE DEF u
<1> DEFINE P(n) == IF n < i THEN n ELSE n + 1
<1>5. \A j \in 1 .. Len(u) : P(j) \in 1 .. Len(q) /\ P(j) # i /\ u[j] = q[P(j)]
  BY <1>3
<1>6. \A j, k \in 1 .. Len(u) : j < k => P(j) < P(k)
  BY <1>3
<1>7. \A j \in 1 .. Len(q) : j # i => \E k \in 1 .. Len(u) : P(k) = j
  <2> SUFFICES ASSUME NEW j \in 1 .. Len(q), j # i PROVE \E k \in 1 .. Len(u) : P(k) = j
    OBVIOUS
  <2>1. CASE j < i
    <3>1. j \in 1 .. Len(u) /\ P(j) = j
      BY <1>3, <2>1
    <3> QED
      BY <3>1
  <2>2. CASE ~(j < i)
    <3>1. j - 1 \in 1 .. Len(u) /\ P(j - 1) = j
      BY <1>3, <2>2
    <3> QED
      BY <3>1
  <2> QED
    BY <2>1, <2>2
<1> HIDE DEF P
<1>8. \A j, k \in 1 .. Len(q) : q[j] = q[k] => j = k
  <2> SUFFICES ASSUME NEW j \in 1 .. Len(q), NEW k \in 1 .. Len(q), j < k, q[j] = q[k] PROVE FALSE
    OBVIOUS
  <2>1. PICK p \in 1 .. Len(c) : c[p] = q[j]
    BY DEF In
  <2>2. p < p
    BY <2>1 DEF InTheOrderOf
  <2> QED
    BY <2>2
<1>9. InTheOrderOf(u, c)
  <2> SUFFICES ASSUME NEW j \in 1 .. Len(u), NEW k \in 1 .. Len(u), j < k,
                      NEW x \in 1 .. Len(c), NEW y \in 1 .. Len(c), c[x] = u[j], c[y] = u[k]
               PROVE  x < y
    BY DEF InTheOrderOf
  <2>1. P(j) \in 1 .. Len(q) /\ P(k) \in 1 .. Len(q) /\ P(j) < P(k) /\ c[x] = q[P(j)] /\ c[y] = q[P(k)]
    BY <1>5, <1>6
  <2> QED
    BY <2>1 DEF InTheOrderOf
<1>10. \A x : In(u, x) <=> In(q, x) /\ x # q[i]
  <2>1. \A x : In(u, x) => In(q, x) /\ x # q[i]
    <3> SUFFICES ASSUME NEW j \in 1 .. Len(u) PROVE In(q, u[j]) /\ u[j] # q[i]
      BY DEF In
    <3>1. P(j) \in 1 .. Len(q) /\ P(j) # i /\ u[j] = q[P(j)]
      BY <1>5
    <3> QED
      BY <1>8, <3>1 DEF In
  <2>2. \A x : In(q, x) /\ x # q[i] => In(u, x)
    <3> SUFFICES ASSUME NEW j \in 1 .. Len(q), q[j] # q[i] PROVE In(u, q[j])
      BY DEF In
    <3>1. PICK k \in 1 .. Len(u) : P(k) = j
      BY <1>7
    <3> QED
      BY <1>5, <3>1 DEF In
  <2> QED
    BY <2>1, <2>2
<1> QED
  BY <1>3, <1>4, <1>9, <1>10

(* Requests leave a queue: none of them ahead of one that stays, but those done
   inside the queue. *)
LEMMA SomeLeave ==
  ASSUME NEW Q, NEW C, NEW F, Ordered(Q, C, F), NEW m \in Mgrs, NEW q \in Seq(Requests),
         NEW G \in [Requests -> Fates],
         InTheOrderOf(q, C[m]), \A x : In(q, x) => In(Q[m], x),
         \A x \in Requests : In(Q[m], x) /\ ~In(q, x) => G[x] \notin {"new", "queued"},
         \A x \in Requests : G[x] # F[x] => In(Q[m], x) /\ ~In(q, x),
         \A x, y \in Requests : In(Q[m], x) /\ ~In(q, x) /\ In(q, y)
           => G[x] = "ended" \/ \E a, b \in 1 .. Len(Q[m]) : a < b /\ Q[m][a] = x /\ Q[m][b] = y
  PROVE  Ordered([Q EXCEPT ![m] = q], C, G)
<1> DEFINE R == [Q EXCEPT ![m] = q]
<1>1. R \in [Mgrs -> Seq(Requests)] /\ R[m] = q /\ \A n \in Mgrs : n # m => R[n] = Q[n]
  BY DEF Ordered
<1> HIDE DEF R
<1>2. \A n \in Mgrs : \A x \in Requests : In(Q[m], x) /\ In(C[n], x) => n = m
  <2>1. \A x \in Requests : In(Q[m], x) => In(C[m], x)
    BY DEF Ordered
  <2>2. \A n \in Mgrs : \A x \in Requests : In(C[m], x) /\ In(C[n], x) => n = m
    BY DEF Ordered, In
  <2> QED
    BY <2>1, <2>2
<1>3. \A n \in Mgrs : \A x \in Requests : In(R[n], x) => In(Q[n], x)
  BY <1>1
<1>4. \A n \in Mgrs : InTheOrderOf(R[n], C[n])
  BY <1>1 DEF Ordered
<1>5. \A x \in Requests : G[x] = "new" <=> F[x] = "new"
  BY DEF Ordered
<1>6. \A x \in Requests : G[x] = "queued" <=> \E n \in Mgrs : In(R[n], x)
  <2>1. ASSUME NEW x \in Requests, G[x] = "queued"
        PROVE  \E n \in Mgrs : In(R[n], x)
    <3>1. F[x] = "queued"
      BY <2>1
    <3>2. PICK n \in Mgrs : In(Q[n], x)
      BY <3>1 DEF Ordered
    <3> QED
      BY <1>1, <2>1, <3>2
  <2>2. ASSUME NEW x \in Requests, NEW n \in Mgrs, In(R[n], x)
        PROVE  G[x] = "queued"
    <3>1. In(Q[n], x) /\ F[x] = "queued"
      BY <1>3, <2>2 DEF Ordered
    <3>2. G[x] = F[x]
      <4> SUFFICES ASSUME In(Q[m], x), ~In(q, x) PROVE FALSE
        OBVIOUS
      <4>1. In(C[n], x)
        BY <3>1 DEF Ordered
      <4> QED
        BY <1>1, <1>2, <2>2, <4>1
    <3> QED
      BY <3>1, <3>2
  <2> QED
    BY <2>1, <2>2
<1>7. ASSUME NEW n \in Mgrs, NEW i \in 1 .. Len(C[n]), NEW j \in 1 .. Len(C[n]), i < j, G[C[n][i]] = "queued"
      PROVE  G[C[n][j]] \in {"queued", "ended"}
  <2> DEFINE x == C[n][j]
             y == C[n][i]
  <2>1. x \in Requests /\ y \in Requests /\ In(C[n], x) /\ In(C[n], y)
    BY DEF Ordered, In
  <2>2. F[y] = "queued" /\ F[x] \in {"queued", "ended"}
    BY <1>7, <2>1 DEF Ordered
  <2>3. CASE G[x] # F[x]
    <3>1. In(Q[m], x) /\ ~In(q, x) /\ n = m
      BY <1>2, <2>1, <2>3
    <3>2. In(q, y)
      <4>1. PICK k \in Mgrs : In(R[k], y)
        BY <1>6, <1>7, <2>1
      <4>2. In(C[k], y)
        BY <1>3, <2>1, <4>1 DEF Ordered
      <4>3. k = n
        BY <2>1, <4>2 DEF Ordered, In
      <4> QED
        BY <1>1, <3>1, <4>1, <4>3
    <3>3. CASE G[x] = "ended"
      BY <3>3
    <3>4. CASE G[x] # "ended"
      <4>1. PICK a, b \in 1 .. Len(Q[m]) : a < b /\ Q[m][a] = x /\ Q[m][b] = y
        BY <2>1, <3>1, <3>2, <3>4
      <4>2. InTheOrderOf(Q[m], C[m])
        BY DEF Ordered
      <4>3. j < i
        BY <3>1, <4>1, <4>2 DEF InTheOrderOf
      <4>4. i \in Int /\ j \in Int
        OBVIOUS
      <4> QED
        BY <1>7, <4>3, <4>4
    <3> QED
      BY <3>3, <3>4
  <2> QED
    BY <2>2, <2>3
<1> QED
  <2>1. Ordered(R, C, G)
    BY <1>1, <1>3, <1>4, <1>5, <1>6, <1>7 DEF Ordered
  <2> QED
    BY <2>1 DEF R

(* A request comes, and is not kept: none waits, or it is done with one that waits. *)
LEMMA OneComes ==
  ASSUME NEW Q, NEW C, NEW F, Ordered(Q, C, F), NEW m \in Mgrs, NEW r \in Requests, F[r] = "new",
         NEW f \in Fates \ {"new", "queued"}, f = "ended" \/ Q[m] = <<>>
  PROVE  Ordered(Q, [C EXCEPT ![m] = Append(@, r)], [F EXCEPT ![r] = f])
<1> DEFINE D == [C EXCEPT ![m] = Append(@, r)]
           G == [F EXCEPT ![r] = f]
<1>0. C[m] \in Seq(Requests) /\ D = [C EXCEPT ![m] = Append(C[m], r)]
  BY DEF Ordered
<1>1. /\ D \in [Mgrs -> Seq(Requests)] /\ D[m] = Append(C[m], r) /\ \A n \in Mgrs : n # m => D[n] = C[n]
      /\ G \in [Requests -> Fates] /\ G[r] = f /\ \A x \in Requests : x # r => G[x] = F[x]
  BY <1>0, Appended DEF Ordered
<1>2. /\ Len(D[m]) = Len(C[m]) + 1 /\ Len(C[m]) \in Nat /\ D[m][Len(C[m]) + 1] = r
      /\ \A i \in 1 .. Len(C[m]) : D[m][i] = C[m][i]
      /\ \A x : In(D[m], x) <=> In(C[m], x) \/ x = r
  BY <1>0, <1>1, Appended
<1> HIDE DEF D, G
<1>3. \A n \in Mgrs : ~In(C[n], r) /\ ~In(Q[n], r)
  BY DEF Ordered
<1>4. \A n \in Mgrs : \A i \in 1 .. Len(D[n]) :
        \/ i \in 1 .. Len(C[n]) /\ D[n][i] = C[n][i] /\ D[n][i] # r
        \/ n = m /\ i = Len(C[m]) + 1 /\ D[n][i] = r
  <2> SUFFICES ASSUME NEW n \in Mgrs, NEW i \in 1 .. Len(D[n]), ~(n = m /\ i = Len(C[m]) + 1)
               PROVE  i \in 1 .. Len(C[n]) /\ D[n][i] = C[n][i] /\ D[n][i] # r
    BY <1>2
  <2>1. i \in 1 .. Len(C[n]) /\ D[n][i] = C[n][i]
    BY <1>1, <1>2
  <2> QED
    BY <1>3, <2>1 DEF In
<1>5. \A k, n \in Mgrs : \A i \in 1 .. Len(D[k]), j \in 1 .. Len(D[n]) : D[k][i] = D[n][j] => k = n /\ i = j
  <2> SUFFICES ASSUME NEW k \in Mgrs, NEW n \in Mgrs, NEW i \in 1 .. Len(D[k]), NEW j \in 1 .. Len(D[n]), D[k][i] = D[n][j]
               PROVE  k = n /\ i = j
    OBVIOUS
  <2>1. CASE D[k][i] = r
    BY <1>4, <2>1
  <2>2. CASE D[k][i] # r
    <3>1. i \in 1 .. Len(C[k]) /\ j \in 1 .. Len(C[n]) /\ C[k][i] = C[n][j]
      BY <1>4, <2>2
    <3> QED
      BY <3>1 DEF Ordered
  <2> QED
    BY <2>1, <2>2
<1>6. \A n \in Mgrs : \A x \in Requests : In(Q[n], x) => In(D[n], x)
  BY <1>1, <1>2 DEF Ordered
<1>7. \A n \in Mgrs : InTheOrderOf(Q[n], D[n])
  <2> SUFFICES ASSUME NEW n \in Mgrs, NEW a \in 1 .. Len(Q[n]), NEW b \in 1 .. Len(Q[n]), a < b,
                      NEW i \in 1 .. Len(D[n]), NEW j \in 1 .. Len(D[n]), D[n][i] = Q[n][a], D[n][j] = Q[n][b]
               PROVE  i < j
    BY DEF InTheOrderOf
  <2>1. Q[n][a] # r /\ Q[n][b] # r
    BY <1>3 DEF In
  <2>2. i \in 1 .. Len(C[n]) /\ j \in 1 .. Len(C[n]) /\ C[n][i] = Q[n][a] /\ C[n][j] = Q[n][b]
    BY <1>4, <2>1
  <2>3. InTheOrderOf(Q[n], C[n])
    BY DEF Ordered
  <2> QED
    BY <2>2, <2>3 DEF InTheOrderOf
<1>8. \A x \in Requests : G[x] = "new" <=> \A n \in Mgrs : ~In(D[n], x)
  <2>1. \A x \in Requests : (\A n \in Mgrs : ~In(D[n], x)) <=> x # r /\ (\A n \in Mgrs : ~In(C[n], x))
    BY <1>1, <1>2
  <2> QED
    BY ZenonT(40), <1>1, <2>1 DEF Ordered
<1>9. \A x \in Requests : G[x] = "queued" <=> \E n \in Mgrs : In(Q[n], x)
  BY <1>1, <1>3 DEF Ordered
<1>10. ASSUME NEW n \in Mgrs, NEW i \in 1 .. Len(D[n]), NEW j \in 1 .. Len(D[n]), i < j, G[D[n][i]] = "queued"
       PROVE  G[D[n][j]] \in {"queued", "ended"}
  <2>1. D[n][i] \in Requests /\ D[n][j] \in Requests
    BY <1>1
  <2>2. i \in 1 .. Len(C[n]) /\ D[n][i] = C[n][i] /\ D[n][i] # r /\ F[C[n][i]] = "queued"
    BY <1>1, <1>4, <1>10, <2>1
  <2>3. CASE D[n][j] = r
    <3>1. n = m
      BY <1>4, <2>3
    <3>2. In(C[m], C[n][i])
      BY <2>2, <3>1 DEF In
    <3>3. PICK k \in Mgrs : In(Q[k], C[n][i])
      BY <2>1, <2>2 DEF Ordered
    <3>4. In(C[k], C[n][i])
      BY <2>1, <2>2, <3>3 DEF Ordered
    <3>5. k = m
      BY <3>2, <3>4 DEF Ordered, In
    <3>6. Q[m] # <<>>
      BY <3>3, <3>5 DEF In
    <3> QED
      BY <1>1, <2>3, <3>6
  <2>4. CASE D[n][j] # r
    <3>1. j \in 1 .. Len(C[n]) /\ D[n][j] = C[n][j]
      BY <1>4, <2>4
    <3>2. F[C[n][j]] \in {"queued", "ended"}
      BY <1>10, <2>2, <3>1 DEF Ordered
    <3> QED
      BY <1>1, <2>1, <2>4, <3>1, <3>2
  <2> QED
    BY <2>3, <2>4
<1> QED
  <2>1. Ordered(Q, D, G)
    BY <1>1, <1>5, <1>6, <1>7, <1>8, <1>9, <1>10 DEF Ordered
  <2> QED
    BY <2>1 DEF D, G

(* A request comes and waits behind those that wait. *)
LEMMA OneWaits ==
  ASSUME NEW Q, NEW C, NEW F, Ordered(Q, C, F), NEW m \in Mgrs, NEW r \in Requests, F[r] = "new"
  PROVE  Ordered([Q EXCEPT ![m] = Append(@, r)], [C EXCEPT ![m] = Append(@, r)], [F EXCEPT ![r] = "queued"])
<1> DEFINE R == [Q EXCEPT ![m] = Append(@, r)]
           D == [C EXCEPT ![m] = Append(@, r)]
           E == [F EXCEPT ![r] = "ended"]
           G == [F EXCEPT ![r] = "queued"]
<1>1. Ordered(Q, D, E)
  BY OneComes DEF Fates
<1>2. C[m] \in Seq(Requests) /\ D = [C EXCEPT ![m] = Append(C[m], r)] /\ Q[m] \in Seq(Requests) /\ R = [Q EXCEPT ![m] = Append(Q[m], r)]
  BY DEF Ordered
<1>3. /\ R \in [Mgrs -> Seq(Requests)] /\ R[m] = Append(Q[m], r) /\ \A n \in Mgrs : n # m => R[n] = Q[n]
      /\ G \in [Requests -> Fates] /\ G[r] = "queued" /\ \A x \in Requests : x # r => G[x] = F[x] /\ E[x] = F[x]
      /\ D[m] = Append(C[m], r) /\ E[r] = "ended"
  BY <1>2, Appended DEF Ordered, Fates
<1>4. /\ Len(R[m]) = Len(Q[m]) + 1 /\ Len(Q[m]) \in Nat /\ R[m][Len(Q[m]) + 1] = r
      /\ \A i \in 1 .. Len(Q[m]) : R[m][i] = Q[m][i]
      /\ \A x : In(R[m], x) <=> In(Q[m], x) \/ x = r
  BY <1>2, <1>3, Appended
<1>5. /\ Len(D[m]) = Len(C[m]) + 1 /\ Len(C[m]) \in Nat /\ D[m][Len(C[m]) + 1] = r
      /\ \A i \in 1 .. Len(C[m]) : D[m][i] = C[m][i]
      /\ \A x : In(D[m], x) <=> In(C[m], x) \/ x = r
  BY <1>2, <1>3, Appended
<1> HIDE DEF R, D, E, G
<1>6. /\ \A n \in Mgrs : ~In(C[n], r) /\ ~In(Q[n], r)
      /\ \A k, n \in Mgrs : \A i \in 1 .. Len(D[k]), j \in 1 .. Len(D[n]) : D[k][i] = D[n][j] => k = n /\ i = j
  BY <1>1 DEF Ordered
<1>7. \A n \in Mgrs : \A x \in Requests : In(R[n], x) => In(D[n], x)
  <2>1. \A n \in Mgrs : \A x \in Requests : In(Q[n], x) => In(D[n], x)
    BY <1>1 DEF Ordered
  <2> QED
    BY <1>3, <1>4, <1>5, <2>1
<1>8. ASSUME NEW n \in Mgrs PROVE InTheOrderOf(R[n], D[n])
  <2>1. InTheOrderOf(Q[n], D[n])
    BY <1>1 DEF Ordered
  <2>2. CASE n # m
    BY <1>3, <2>1, <2>2
  <2>3. CASE n = m
    <3> SUFFICES ASSUME NEW a \in 1 .. Len(R[m]), NEW b \in 1 .. Len(R[m]), a < b,
                        NEW i \in 1 .. Len(D[m]), NEW j \in 1 .. Len(D[m]), D[m][i] = R[m][a], D[m][j] = R[m][b]
                 PROVE  i < j
      BY <2>3 DEF InTheOrderOf
    <3>1. a \in 1 .. Len(Q[m]) /\ R[m][a] = Q[m][a]
      BY <1>4
    <3>2. R[m][a] # r
      BY <1>6, <3>1 DEF In
    <3>3. CASE b \in 1 .. Len(Q[m])
      <4>1. R[m][b] = Q[m][b]
        BY <1>4, <3>3
      <4> QED
        BY <2>1, <2>3, <3>1, <3>3, <4>1 DEF InTheOrderOf
    <3>4. CASE b \notin 1 .. Len(Q[m])
      <4>1. R[m][b] = r
        BY <1>4, <3>4
      <4>2. D[m][j] = D[m][Len(C[m]) + 1] /\ Len(C[m]) + 1 \in 1 .. Len(D[m])
        BY <1>5, <4>1
      <4>3. j = Len(C[m]) + 1
        BY <1>6, <4>2
      <4>4. i # Len(C[m]) + 1
        BY <1>5, <3>2
      <4> QED
        BY <1>5, <4>3, <4>4
    <3> QED
      BY <3>3, <3>4
  <2> QED
    BY <2>2, <2>3
<1>9. \A x \in Requests : G[x] = "new" <=> \A n \in Mgrs : ~In(D[n], x)
  BY ZenonT(40), <1>1, <1>3 DEF Ordered
<1>10. \A x \in Requests : G[x] = "queued" <=> \E n \in Mgrs : In(R[n], x)
  <2>1. \A x \in Requests : E[x] = "queued" <=> \E n \in Mgrs : In(Q[n], x)
    BY <1>1 DEF Ordered
  <2>2. \A x \in Requests : x # r => ((\E n \in Mgrs : In(R[n], x)) <=> \E n \in Mgrs : In(Q[n], x))
    BY <1>3, <1>4
  <2>3. In(R[m], r)
    BY <1>4
  <2> QED
    BY <1>3, <2>1, <2>2, <2>3
<1>11. ASSUME NEW n \in Mgrs, NEW i \in 1 .. Len(D[n]), NEW j \in 1 .. Len(D[n]), i < j, G[D[n][i]] = "queued"
       PROVE  G[D[n][j]] \in {"queued", "ended"}
  <2>1. D[n][i] \in Requests /\ D[n][j] \in Requests /\ D \in [Mgrs -> Seq(Requests)]
    BY <1>1 DEF Ordered
  <2>2. CASE D[n][j] = r
    BY <1>3, <2>2
  <2>3. CASE D[n][j] # r /\ D[n][i] # r
    <3>1. E[D[n][i]] = "queued"
      BY <1>3, <1>11, <2>1, <2>3
    <3>2. E[D[n][j]] \in {"queued", "ended"}
      BY <1>1, <1>11, <3>1 DEF Ordered
    <3> QED
      BY <1>3, <2>1, <2>3, <3>2
  <2>4. CASE D[n][i] = r
    <3>1. D[n][i] = D[m][Len(C[m]) + 1] /\ Len(C[m]) + 1 \in 1 .. Len(D[m])
      BY <1>5, <2>4
    <3>2. n = m /\ i = Len(C[m]) + 1
      BY <1>6, <3>1
    <3>3. FALSE
      BY <1>5, <1>11, <3>2
    <3> QED
      BY <3>3
  <2> QED
    BY <2>2, <2>3, <2>4
<1> QED
  <2>1. Ordered(R, D, G)
    BY <1>1, <1>3, <1>6, <1>7, <1>8, <1>9, <1>10, <1>11 DEF Ordered
  <2> QED
    BY <2>1 DEF R, D, G

-----------------------------------------------------------------------------
(* What comes of sending *)

Results == {"Sent", "RejectRequest", "Queuing", "NoReadyLine"}

(* What one manager's lines make of a request: the lines that leave are broken,
   the line that sends is ready; when none takes it, those that stay are busy,
   or full with one of them waited for. *)
LEMMA ByTheLines ==
  ASSUME TradeOK, TradeTyped, LinesKnown, NEW m \in Mgrs, NEW r \in Requests, NEW x \in ByLinesOnly(m, r)
  PROVE  /\ x.res \in Results /\ x.line \in Lines \cup {NoLine} /\ x.wait \in Lines \cup {NoLine}
         /\ x.gone \subseteq lines[m] /\ \A l \in x.gone : lineSt[l] = "broken"
         /\ x.res = "Sent" => x.line \in lines[m] /\ lineSt[x.line] = "ready"
         /\ x.res \notin {"Sent", "RejectRequest"} => x.line = NoLine
         /\ NotFor = {} /\ x.res \in {"Queuing", "NoReadyLine"} =>
              /\ \A l \in lines[m] \ x.gone : lineSt[l] = "busy" \/ (lineSt[l] = "full" /\ x.wait # NoLine)
              /\ x.res = "NoReadyLine" => lines[m] \ x.gone = {}
              /\ x.res = "Queuing" => lines[m] \ x.gone # {}
<1> DEFINE of(v) == {l \in lines[m] : Verdict(l, r) = v}
           takers == of("Sent") \cup of("RejectRequest")
<1>1. \A l \in lines[m] : l \in Lines /\ l # NoLine /\ lineSt[l] \in {"ready", "busy", "full", "broken"}
  BY DEF TradeOK, TradeTyped, LinesKnown
<1>2. \A l \in lines[m] : /\ Verdict(l, r) = "Broken" <=> lineSt[l] = "broken"
                          /\ Verdict(l, r) = "Sent" => lineSt[l] = "ready"
  BY <1>1 DEF Verdict
<1>3. NotFor = {} => \A l \in lines[m] :
        /\ Verdict(l, r) \in {"Broken", "Busy", "FlowControl", "RejectRequest", "Sent"}
        /\ Verdict(l, r) = "Busy" => lineSt[l] = "busy"
        /\ Verdict(l, r) = "FlowControl" => lineSt[l] = "full"
  BY <1>1 DEF Verdict
<1>4. CASE takers # {}
  <2>1. PICK l \in takers, g \in SUBSET of("Broken") : x = Outcome(Verdict(l, r), l, g, NoLine)
    BY <1>4 DEF ByLinesOnly
  <2>2. x = [res |-> Verdict(l, r), line |-> l, gone |-> g, wait |-> NoLine]
    BY <2>1 DEF Outcome
  <2>3. l \in lines[m] /\ Verdict(l, r) \in {"Sent", "RejectRequest"} /\ g \subseteq lines[m] /\ \A k \in g : lineSt[k] = "broken"
    BY <1>2
  <2> QED
    BY <1>1, <1>2, <2>2, <2>3 DEF Results
<1>5. CASE takers = {} /\ of("FlowControl") # {}
  <2>1. PICK l \in of("FlowControl") : x = Outcome("Queuing", NoLine, of("Broken"), l)
    BY <1>5 DEF ByLinesOnly
  <2>2. x = [res |-> "Queuing", line |-> NoLine, gone |-> of("Broken"), wait |-> l]
    BY <2>1 DEF Outcome
  <2>3. l \in lines[m] /\ Verdict(l, r) = "FlowControl" /\ l \notin of("Broken")
    OBVIOUS
  <2>4. NotFor = {} => \A k \in lines[m] \ of("Broken") : lineSt[k] \in {"busy", "full"}
    BY <1>3, <1>5
  <2> QED
    BY <1>1, <1>2, <2>2, <2>3, <2>4 DEF Results
<1>6. CASE takers = {} /\ of("FlowControl") = {}
  <2>1. x = Outcome(IF of("Busy") # {} THEN "Queuing" ELSE "NoReadyLine", NoLine, of("Broken"), NoLine)
    BY <1>6 DEF ByLinesOnly
  <2>2. x = [res |-> IF of("Busy") # {} THEN "Queuing" ELSE "NoReadyLine", line |-> NoLine, gone |-> of("Broken"), wait |-> NoLine]
    BY <2>1 DEF Outcome
  <2>3. NotFor = {} => \A k \in lines[m] \ of("Broken") : lineSt[k] = "busy" /\ k \in of("Busy")
    BY <1>3, <1>6
  <2>4. of("Busy") # {} => lines[m] \ of("Broken") # {}
    OBVIOUS
  <2>5. CASE of("Busy") # {}
    BY <1>2, <2>2, <2>3, <2>4, <2>5 DEF Results
  <2>6. CASE of("Busy") = {}
    BY <1>2, <2>2, <2>3, <2>6 DEF Results
  <2> QED
    BY <2>5, <2>6
<1> QED
  BY <1>4, <1>5, <1>6

(* What the offer makes of it: nothing while it is at work for others or has a
   queue of its own. *)
LEMMA ByTheOffer ==
  ASSUME TradeOK, TradeTyped, LinesKnown, NEW o \in Mgrs, NEW r \in Requests, NEW x \in AskFor(o, r)
  PROVE  /\ x.res \in Results /\ x.line \in Lines \cup {NoLine} /\ x.wait \in Lines \cup {NoLine}
         /\ x.gone \subseteq lines[o] /\ \A l \in x.gone : lineSt[l] = "broken"
         /\ x.res = "Sent" => x.line \in lines[o] /\ lineSt[x.line] = "ready" /\ working[o] = NoRequest
         /\ x.res \notin {"Sent", "RejectRequest"} => x.line = NoLine
         /\ x.gone # {} \/ x.wait # NoLine \/ x.res = "Sent" => queue[o] = <<>>
         /\ NotFor = {} /\ x.res \in {"Queuing", "NoReadyLine"} =>
              /\ \/ working[o] # NoRequest \/ queue[o] # <<>>
                 \/ \A l \in lines[o] \ x.gone : lineSt[l] = "busy" \/ (lineSt[l] = "full" /\ x.wait # NoLine)
              /\ x.res = "Queuing" => lines[o] \ x.gone # {}
<1>1. CASE lines[o] = {}
  <2>1. x = [res |-> "NoReadyLine", line |-> NoLine, gone |-> {}, wait |-> NoLine]
    BY <1>1 DEF AskFor, NotAsked, Outcome
  <2> QED
    BY <1>1, <2>1 DEF Results
<1>2. CASE lines[o] # {} /\ (working[o] # NoRequest \/ queue[o] # <<>>)
  <2>1. x = [res |-> "Queuing", line |-> NoLine, gone |-> {}, wait |-> NoLine]
    BY <1>2 DEF AskFor, NotAsked, Outcome
  <2> QED
    BY <1>2, <2>1 DEF Results
<1>3. CASE lines[o] # {} /\ working[o] = NoRequest /\ queue[o] = <<>>
  <2>1. x \in ByLinesOnly(o, r)
    BY <1>3 DEF AskFor
  <2> QED
    BY <1>3, <2>1, ByTheLines
<1> QED
  BY <1>1, <1>2, <1>3

(* The same of a manager with its offer; Own is what its lines made of it. *)
Helper(m) == IF OfferOf[m] = NoMgr THEN {} ELSE lines[OfferOf[m]]
LEMMA ByLinesOrOffer ==
  ASSUME TradeOK, TradeTyped, LinesKnown, NEW m \in Mgrs, NEW r \in Requests, NEW x \in ByLinesOrHelper(m, r)
  PROVE  /\ x.res \in Results /\ x.helped \in BOOLEAN /\ x.wait \in [Mgrs -> Lines \cup {NoLine}]
         /\ x.gone \subseteq lines[m] \cup Helper(m) /\ \A l \in x.gone : lineSt[l] = "broken"
         /\ x.res = "Sent" => /\ x.line \in Lines /\ lineSt[x.line] = "ready"
                              /\ x.line \in IF x.helped THEN Helper(m) ELSE lines[m]
         /\ x.helped => OfferOf[m] # NoMgr /\ x.res = "Sent" /\ working[OfferOf[m]] = NoRequest
         /\ \A n \in Mgrs : x.wait[n] # NoLine \/ x.gone \cap lines[n] # {} => n = m \/ (n = OfferOf[m] /\ queue[n] = <<>>)
         /\ x.helped => queue[OfferOf[m]] = <<>>
         /\ NotFor = {} /\ x.res \in {"Queuing", "NoReadyLine"} =>
              /\ \A l \in lines[m] \ x.gone : lineSt[l] = "busy" \/ (lineSt[l] = "full" /\ x.wait[m] # NoLine)
              /\ x.res = "NoReadyLine" => lines[m] \ x.gone = {}
              /\ OfferOf[m] # NoMgr =>
                   \/ working[OfferOf[m]] # NoRequest \/ queue[OfferOf[m]] # <<>>
                   \/ \A l \in lines[OfferOf[m]] \ x.gone :
                        lineSt[l] = "busy" \/ (lineSt[l] = "full" /\ x.wait[OfferOf[m]] # NoLine)
              /\ x.res = "Queuing" /\ lines[m] \ x.gone = {} => OfferOf[m] # NoMgr /\ lines[OfferOf[m]] \ x.gone # {}
<1> DEFINE taken(o) == o.res \in {"Sent", "RejectRequest"}
           asked(mine) == IF OfferOf[m] = NoMgr \/ taken(mine) THEN {NotAsked} ELSE AskFor(OfferOf[m], r)
           wait(mine, theirs) == [n \in Mgrs |-> IF n = m THEN mine.wait ELSE IF n = OfferOf[m] THEN theirs.wait ELSE NoLine]
           both(mine, theirs) ==
             [res |-> IF taken(mine) THEN mine.res ELSE Joined(mine.res, theirs.res),
              line |-> IF mine.line # NoLine THEN mine.line ELSE theirs.line,
              gone |-> mine.gone \cup theirs.gone, wait |-> wait(mine, theirs), helped |-> theirs.res = "Sent"]
<1>1. PICK mine \in ByLinesOnly(m, r) : \E theirs \in asked(mine) : x = both(mine, theirs)
  BY DEF ByLinesOrHelper
<1>2. PICK theirs \in asked(mine) : x = both(mine, theirs)
  BY <1>1
<1>3. /\ x.res = IF taken(mine) THEN mine.res ELSE Joined(mine.res, theirs.res)
      /\ x.line = IF mine.line # NoLine THEN mine.line ELSE theirs.line
      /\ x.gone = mine.gone \cup theirs.gone /\ x.helped = (theirs.res = "Sent")
      /\ x.wait \in [Mgrs -> {mine.wait, theirs.wait, NoLine}]
      /\ x.wait[m] = mine.wait
      /\ OfferOf[m] # NoMgr => x.wait[OfferOf[m]] = theirs.wait
      /\ \A n \in Mgrs : n # m /\ n # OfferOf[m] => x.wait[n] = NoLine
  BY <1>2 DEF TradeOK
<1> DEFINE A == /\ mine.res \in Results /\ mine.line \in Lines \cup {NoLine} /\ mine.wait \in Lines \cup {NoLine}
                /\ mine.gone \subseteq lines[m] /\ \A l \in mine.gone : lineSt[l] = "broken"
                /\ mine.res = "Sent" => mine.line \in lines[m] /\ lineSt[mine.line] = "ready"
                /\ mine.res \notin {"Sent", "RejectRequest"} => mine.line = NoLine
                /\ NotFor = {} /\ mine.res \in {"Queuing", "NoReadyLine"} =>
                     /\ \A l \in lines[m] \ mine.gone : lineSt[l] = "busy" \/ (lineSt[l] = "full" /\ mine.wait # NoLine)
                     /\ mine.res = "NoReadyLine" => lines[m] \ mine.gone = {}
                     /\ mine.res = "Queuing" => lines[m] \ mine.gone # {}
<1>4. A
  BY ByTheLines
<1>5. /\ \A n \in Mgrs : \A l \in lines[n] : MgrOf[l] = n /\ l \in Lines
      /\ NoLine \notin Lines /\ NoMgr \notin Mgrs /\ OfferOf[m] # m /\ OfferOf[m] \in Mgrs \cup {NoMgr}
  BY DEF LinesKnown, TradeTyped, TradeOK
<1> HIDE DEF wait
<1>6. CASE OfferOf[m] = NoMgr \/ taken(mine)
  <2>1. theirs = [res |-> "NoReadyLine", line |-> NoLine, gone |-> {}, wait |-> NoLine]
    BY <1>6 DEF NotAsked, Outcome
  <2>2. theirs.res = "NoReadyLine" /\ theirs.line = NoLine /\ theirs.gone = {} /\ theirs.wait = NoLine
    BY <2>1
  <2>3. x.res = mine.res
    BY <1>3, <1>4, <2>2 DEF Joined, Results
  <2> HIDE <1>1, <1>2
  <2>4. x.res = "Sent" => x.line \in Lines /\ lineSt[x.line] = "ready" /\ x.line \in lines[m]
    BY <1>3, <1>4, <1>5, <2>3
  <2>5. x.gone = mine.gone /\ x.helped = FALSE /\ x.wait \in [Mgrs -> Lines \cup {NoLine}]
    BY <1>3, <1>4, <2>2
  <2>6. \A n \in Mgrs : x.wait[n] # NoLine \/ x.gone \cap lines[n] # {} => n = m
    <3>1. \A n \in Mgrs : x.wait[n] # NoLine => n = m
      BY <1>3, <1>5, <2>2
    <3>2. \A n \in Mgrs : x.gone \cap lines[n] # {} => n = m
      BY <1>4, <1>5, <2>5
    <3> QED
      BY <3>1, <3>2
  <2>7. NotFor = {} /\ x.res \in {"Queuing", "NoReadyLine"} =>
              /\ \A l \in lines[m] \ x.gone : lineSt[l] = "busy" \/ (lineSt[l] = "full" /\ x.wait[m] # NoLine)
              /\ x.res = "NoReadyLine" => lines[m] \ x.gone = {}
              /\ OfferOf[m] = NoMgr
              /\ ~(x.res = "Queuing" /\ lines[m] \ x.gone = {})
    BY <1>3, <1>4, <1>6, <2>3, <2>5
  <2> HIDE DEF A
  <2>8. x.res \in Results /\ (\A l \in x.gone : lineSt[l] = "broken") /\ x.gone \subseteq lines[m]
    BY <1>4, <2>3, <2>5 DEF A
  <2> QED
    BY <2>4, <2>5, <2>6, <2>7, <2>8
<1>7. CASE OfferOf[m] # NoMgr /\ ~taken(mine)
  <2> DEFINE o == OfferOf[m]
  <2>1. o \in Mgrs /\ theirs \in AskFor(o, r)
    BY <1>5, <1>7
  <2>2. /\ theirs.res \in Results /\ theirs.line \in Lines \cup {NoLine} /\ theirs.wait \in Lines \cup {NoLine}
        /\ theirs.gone \subseteq lines[o] /\ \A l \in theirs.gone : lineSt[l] = "broken"
        /\ theirs.res = "Sent" => theirs.line \in lines[o] /\ lineSt[theirs.line] = "ready" /\ working[o] = NoRequest
        /\ theirs.gone # {} \/ theirs.wait # NoLine \/ theirs.res = "Sent" => queue[o] = <<>>
        /\ NotFor = {} /\ theirs.res \in {"Queuing", "NoReadyLine"} =>
             /\ \/ working[o] # NoRequest \/ queue[o] # <<>>
                \/ \A l \in lines[o] \ theirs.gone : lineSt[l] = "busy" \/ (lineSt[l] = "full" /\ theirs.wait # NoLine)
             /\ theirs.res = "Queuing" => lines[o] \ theirs.gone # {}
    BY <2>1, ByTheOffer
  <2>3. mine.res \in {"Queuing", "NoReadyLine"} /\ mine.line = NoLine
    BY <1>4, <1>7 DEF Results
  <2> HIDE <1>1, <1>2
  <2>4. /\ x.res = "Sent" <=> theirs.res = "Sent"
        /\ x.res \in {"Queuing", "NoReadyLine"} => theirs.res \in {"Queuing", "NoReadyLine"}
        /\ x.res = "Queuing" => mine.res = "Queuing" \/ theirs.res = "Queuing"
        /\ x.res = "NoReadyLine" => mine.res = "NoReadyLine"
        /\ x.res \in Results /\ x.line = theirs.line
    BY <1>3, <1>7, <2>2, <2>3 DEF Joined, Results
  <2>5. /\ x.wait \in [Mgrs -> Lines \cup {NoLine}] /\ x.gone \subseteq lines[m] \cup lines[o]
        /\ \A l \in x.gone : lineSt[l] = "broken"
    BY <1>3, <1>4, <2>2
  <2>6. x.res = "Sent" => x.line \in Lines /\ lineSt[x.line] = "ready" /\ x.line \in lines[o] /\ x.helped /\ working[o] = NoRequest
    BY <1>3, <1>5, <2>1, <2>2, <2>4
  <2>7. \A n \in Mgrs : x.gone \cap lines[n] # {} => n = m \/ (n = o /\ theirs.gone # {})
    BY <1>3, <1>4, <1>5, <2>1, <2>2
  <2>8. \A n \in Mgrs : x.wait[n] # NoLine => n = m \/ (n = o /\ theirs.wait # NoLine)
    BY <1>3, <1>7
  <2>9. lines[m] \ x.gone = lines[m] \ mine.gone /\ lines[o] \ x.gone = lines[o] \ theirs.gone
    BY <1>3, <1>4, <1>5, <2>1, <2>2
  <2>10. x.helped <=> x.res = "Sent"
    BY <1>3, <2>4
  <2>11. NotFor = {} /\ x.res \in {"Queuing", "NoReadyLine"} =>
              /\ \A l \in lines[m] \ x.gone : lineSt[l] = "busy" \/ (lineSt[l] = "full" /\ x.wait[m] # NoLine)
              /\ x.res = "NoReadyLine" => lines[m] \ x.gone = {}
              /\ \/ working[o] # NoRequest \/ queue[o] # <<>>
                 \/ \A l \in lines[o] \ x.gone : lineSt[l] = "busy" \/ (lineSt[l] = "full" /\ x.wait[o] # NoLine)
              /\ x.res = "Queuing" /\ lines[m] \ x.gone = {} => lines[o] \ x.gone # {}
    BY <1>3, <1>4, <1>7, <2>2, <2>3, <2>4, <2>9
  <2> HIDE DEF A
  <2> QED
    BY <1>7, <2>2, <2>4, <2>5, <2>6, <2>7, <2>8, <2>10, <2>11, <1>3 DEF Helper
<1> QED
  BY <1>6, <1>7

-----------------------------------------------------------------------------
(* Steps that send *)

Wires == <<lines, unheard, flow, working, by, lineSt>>
WiresTyped ==
  /\ lines \in [Mgrs -> SUBSET Lines] /\ flow \in [Mgrs -> Lines \cup {NoLine}]
  /\ working \in [Mgrs -> Requests \cup {NoRequest}] /\ unheard \subseteq Mgrs
  /\ lineSt \in [Lines -> {"off", "ready", "busy", "full", "broken"}]
  /\ by \in [Requests -> Lines \cup {NoLine}]

(* What sending does to the lines and to who is at work. *)
LEMMA WhatApplied ==
  ASSUME TradeOK, TradeTyped, LinesKnown, NEW m \in Mgrs, NEW r \in Requests, NEW x \in ByLinesOrHelper(m, r),
         Applied(m, r, x)
  PROVE  /\ WiresTyped'
         /\ \A n \in Mgrs : lines'[n] = lines[n] \ x.gone
         /\ \A n \in Mgrs : lines'[n] # lines[n] => n \in unheard'
         /\ unheard \subseteq unheard'
         /\ \A l \in Lines : lineSt'[l] = lineSt[l] \/ (lineSt[l] = "ready" /\ lineSt'[l] \in {"busy", "full"})
         /\ \A l \in Lines : lineSt'[l] # lineSt[l] => x.res = "Sent" /\ l \in IF x.helped THEN Helper(m) ELSE lines[m]
         /\ x.helped => working' = [working EXCEPT ![OfferOf[m]] = r]
         /\ ~x.helped => working' = working
         /\ x.res = "Sent" => by' = [by EXCEPT ![r] = x.line]
         /\ x.res # "Sent" => by' = by
         /\ \A n \in Mgrs : flow'[n] = IF x.wait[n] # NoLine THEN x.wait[n] ELSE flow[n]
<1>1. /\ x.res \in Results /\ x.helped \in BOOLEAN /\ x.wait \in [Mgrs -> Lines \cup {NoLine}]
      /\ x.gone \subseteq lines[m] \cup Helper(m) /\ \A l \in x.gone : lineSt[l] = "broken"
      /\ x.res = "Sent" => /\ x.line \in Lines /\ lineSt[x.line] = "ready"
                           /\ x.line \in IF x.helped THEN Helper(m) ELSE lines[m]
      /\ x.helped => OfferOf[m] # NoMgr /\ x.res = "Sent" /\ working[OfferOf[m]] = NoRequest
  BY ByLinesOrOffer
<1>2. \A l \in x.gone : l \in Lines /\ MgrOf[l] \in Mgrs
  BY <1>1 DEF TradeTyped, TradeOK, Helper
<1>3. lines' = [n \in Mgrs |-> lines[n] \ x.gone] /\ unheard' = unheard \cup {MgrOf[l] : l \in x.gone}
  BY DEF Applied
<1>4. flow' = [n \in Mgrs |-> IF x.wait[n] # NoLine THEN x.wait[n] ELSE flow[n]]
  BY DEF Applied
<1>5. PICK after \in IF x.res = "Sent" THEN {"ready", "busy", "full"} ELSE {"same"} :
        lineSt' = IF after = "same" THEN lineSt ELSE [lineSt EXCEPT ![x.line] = after]
  BY DEF Applied
<1>6. /\ working' = IF x.helped THEN [working EXCEPT ![OfferOf[m]] = r] ELSE working
      /\ by' = IF x.res = "Sent" THEN [by EXCEPT ![r] = x.line] ELSE by
  BY DEF Applied
<1>7. /\ \A l \in Lines : lineSt'[l] = lineSt[l] \/ (lineSt[l] = "ready" /\ lineSt'[l] \in {"busy", "full"})
      /\ \A l \in Lines : lineSt'[l] # lineSt[l] => x.res = "Sent" /\ l = x.line
      /\ lineSt' \in [Lines -> {"off", "ready", "busy", "full", "broken"}]
  <2>1. CASE x.res = "Sent"
    BY <1>1, <1>5, <2>1 DEF TradeTyped
  <2>2. CASE x.res # "Sent"
    BY <1>5, <2>2 DEF TradeTyped
  <2> QED
    BY <2>1, <2>2
<1>8. \A n \in Mgrs : lines'[n] # lines[n] => n \in unheard'
  <2> SUFFICES ASSUME NEW n \in Mgrs, NEW l \in lines[n], l \in x.gone PROVE n \in unheard'
    BY <1>3 DEF TradeTyped
  <2>1. MgrOf[l] = n
    BY DEF LinesKnown
  <2> QED
    BY <1>3, <2>1
<1>9. /\ lines' \in [Mgrs -> SUBSET Lines] /\ flow' \in [Mgrs -> Lines \cup {NoLine}] /\ unheard' \subseteq Mgrs
      /\ working' \in [Mgrs -> Requests \cup {NoRequest}] /\ by' \in [Requests -> Lines \cup {NoLine}]
  <2>1. lines' \in [Mgrs -> SUBSET Lines] /\ unheard' \subseteq Mgrs
    BY <1>2, <1>3 DEF TradeTyped
  <2>2. flow' \in [Mgrs -> Lines \cup {NoLine}]
    BY <1>1, <1>4 DEF TradeTyped
  <2>3. working' \in [Mgrs -> Requests \cup {NoRequest}] /\ by' \in [Requests -> Lines \cup {NoLine}]
    BY <1>1, <1>6 DEF TradeTyped
  <2> QED
    BY <2>1, <2>2, <2>3
<1> QED
  BY <1>1, <1>3, <1>4, <1>6, <1>7, <1>8, <1>9 DEF WiresTyped

LEMMA FateOf == Fate("Sent") = "sent" /\ Fate("Queuing") = "queued" /\ Fate("RejectRequest") = "rejected" /\ Fate("NoReadyLine") = "rejected"
BY DEF Fate

(* The lines stay known, and who was sent has its line. *)
LEMMA SendingHolds ==
  ASSUME TradeOK, TradeTyped, LinesKnown, SentBy, NEW m \in Mgrs, NEW r \in Requests, NEW x \in ByLinesOrHelper(m, r),
         Applied(m, r, x), fate[r] \in {"new", "queued"}, fate' = [fate EXCEPT ![r] = Fate(x.res)], tell' = tell
  PROVE  LinesKnown' /\ SentBy'
<1>1. /\ x.res \in Results /\ x.helped \in BOOLEAN
      /\ \A l \in x.gone : lineSt[l] = "broken"
      /\ x.res = "Sent" => /\ x.line \in Lines /\ lineSt[x.line] = "ready"
                           /\ x.line \in IF x.helped THEN Helper(m) ELSE lines[m]
      /\ x.helped => OfferOf[m] # NoMgr /\ x.res = "Sent"
  BY ByLinesOrOffer
<1>2. /\ \A n \in Mgrs : lines'[n] = lines[n] \ x.gone
      /\ \A n \in Mgrs : lines'[n] # lines[n] => n \in unheard'
      /\ unheard \subseteq unheard'
      /\ \A l \in Lines : lineSt'[l] = lineSt[l] \/ (lineSt[l] = "ready" /\ lineSt'[l] \in {"busy", "full"})
      /\ x.helped => working' = [working EXCEPT ![OfferOf[m]] = r]
      /\ ~x.helped => working' = working
      /\ x.res = "Sent" => by' = [by EXCEPT ![r] = x.line]
      /\ x.res # "Sent" => by' = by
  BY WhatApplied
<1>3. LinesKnown'
  <2>1. \A n \in Mgrs : \A l \in lines'[n] : MgrOf[l] = n /\ lineSt'[l] # "off"
    <3> SUFFICES ASSUME NEW n \in Mgrs, NEW l \in lines'[n] PROVE MgrOf[l] = n /\ lineSt'[l] # "off"
      OBVIOUS
    <3>1. l \in lines[n] /\ l \in Lines
      BY <1>2 DEF TradeTyped
    <3> QED
      BY <1>2, <3>1 DEF LinesKnown
  <2>2. ASSUME NEW l \in Lines
        PROVE  /\ lineSt'[l] = "broken" <=> tell'[l] = "broken"
               /\ lineSt'[l] = "off" => tell'[l] = "nothing"
               /\ lineSt'[l] \in {"ready", "busy", "full"} /\ tell'[l] = "nothing" => l \in lines'[MgrOf[l]]
               /\ lineSt'[l] = "broken" => l \in lines'[MgrOf[l]] \/ MgrOf[l] \in unheard'
    <3>1. MgrOf[l] \in Mgrs
      BY DEF TradeOK
    <3>2. /\ lineSt[l] = "broken" <=> tell[l] = "broken"
          /\ lineSt[l] = "off" => tell[l] = "nothing"
          /\ lineSt[l] \in {"ready", "busy", "full"} /\ tell[l] = "nothing" => l \in lines[MgrOf[l]]
          /\ lineSt[l] = "broken" => l \in lines[MgrOf[l]] \/ MgrOf[l] \in unheard
      BY DEF LinesKnown
    <3> QED
      BY <1>1, <1>2, <3>1, <3>2
  <2> QED
    BY <2>1, <2>2 DEF LinesKnown
<1>4. fate'[r] = "sent" <=> x.res = "Sent"
  BY <1>1, FateOf DEF TradeTyped, Results
<1>5. by[r] = NoLine /\ \A n \in Mgrs : working[n] # r
  BY DEF SentBy, TradeOK
<1>6. \A q \in Requests : fate'[q] = "sent" <=> by'[q] # NoLine
  <2>1. \A q \in Requests : q # r => fate'[q] = fate[q] /\ by'[q] = by[q]
    BY <1>2 DEF TradeTyped
  <2>2. by'[r] = IF x.res = "Sent" THEN x.line ELSE NoLine
    BY <1>2, <1>5 DEF TradeTyped
  <2> QED
    BY <1>1, <1>4, <2>1, <2>2 DEF SentBy, TradeOK
<1>7. ASSUME NEW n \in Mgrs, working'[n] # NoRequest
      PROVE  fate'[working'[n]] = "sent" /\ MgrOf[by'[working'[n]]] = n
  <2>1. CASE x.helped /\ n = OfferOf[m]
    <3>1. working'[n] = r /\ by'[r] = x.line /\ x.line \in lines[n] /\ fate'[r] = "sent"
      BY <1>1, <1>2, <1>4, <2>1 DEF TradeTyped, Helper
    <3> QED
      BY <3>1 DEF LinesKnown
  <2>2. CASE ~(x.helped /\ n = OfferOf[m])
    <3>1. working'[n] = working[n] /\ working[n] \in Requests /\ working[n] # r
      BY <1>1, <1>2, <1>5, <1>7, <2>2 DEF TradeTyped
    <3>2. fate'[working[n]] = fate[working[n]] /\ by'[working[n]] = by[working[n]]
      BY <1>2, <3>1 DEF TradeTyped
    <3> QED
      BY <1>7, <3>1, <3>2 DEF SentBy
  <2> QED
    BY <2>1, <2>2
<1> QED
  BY <1>3, <1>6, <1>7 DEF SentBy

-----------------------------------------------------------------------------
(* The requests keep their order and their places *)

(* What is left of the types when the queues are in order and the wires typed. *)
Rest == loop \in [Mgrs -> {"none", "ready", "asked"}] /\ notices \subseteq Mgrs
        /\ tell \in [Lines -> {"nothing", "ready", "broken"}]
LEMMA Typed == WiresTyped' /\ Rest' /\ Ordered(queue', came', fate') => TradeTyped' /\ Ordered(queue, came, fate)'
BY DEF WiresTyped, Rest, Ordered, TradeTyped
LEMMA TypedParts == TradeTyped => WiresTyped /\ Rest
BY DEF WiresTyped, Rest, TradeTyped

LEMMA Asked == TradeOK => \A o \in Mgrs : Askers(o) \subseteq Mgrs
BY DEF Askers

(* The fate of a request that a step tries. *)
LEMMA Tried ==
  ASSUME NEW v \in Results
  PROVE  /\ Fate(v) \in Fates \ {"new", "ended"}
         /\ Fate(v) = "queued" <=> v = "Queuing"
BY FateOf DEF Fates, Results

LEMMA RequestSent ==
  ASSUME TradeOK, RequestsInv, NEW m \in Mgrs, NEW r \in Requests, SendRequest(m, r)
  PROVE  RequestsInv'
<1> USE DEF RequestsInv
<1>1. fate[r] = "new" /\ came' = [came EXCEPT ![m] = Append(@, r)] /\ UNCHANGED <<loop, notices, tell>>
  BY DEF SendRequest
<1>2. Rest'
  BY <1>1, TypedParts DEF Rest
<1>3. CASE queue[m] = <<>>
  <2>1. PICK x \in ByLinesOrHelper(m, r) :
          /\ Applied(m, r, x)
          /\ fate' = [fate EXCEPT ![r] = Fate(x.res)]
          /\ queue' = IF x.res = "Queuing" THEN [queue EXCEPT ![m] = Append(@, r)] ELSE queue
    BY <1>3 DEF SendRequest
  <2>2. x.res \in Results
    BY ByLinesOrOffer
  <2>3. LinesKnown' /\ SentBy' /\ WiresTyped'
    BY <1>1, <2>1, SendingHolds, WhatApplied
  <2>4. CASE x.res = "Queuing"
    <3>1. Ordered(queue', came', fate')
      BY <1>1, <2>1, <2>4, FateOf, OneWaits
    <3> QED
      BY <1>2, <2>3, <3>1, Typed
  <2>5. CASE x.res # "Queuing"
    <3>1. Fate(x.res) \in Fates \ {"new", "queued"}
      BY <2>2, <2>5, Tried
    <3>2. Ordered(queue', came', fate')
      BY <1>1, <1>3, <2>1, <2>5, <3>1, OneComes
    <3> QED
      BY <1>2, <2>3, <3>2, Typed
  <2> QED
    BY <2>4, <2>5
<1>4. CASE queue[m] # <<>>
  <2>1. /\ UNCHANGED <<lines, unheard, flow, working, by, lineSt>>
        /\ \/ /\ queue' = [queue EXCEPT ![m] = Append(@, r)]
              /\ fate' = [fate EXCEPT ![r] = "queued"]
           \/ \E i \in DOMAIN queue[m] :
                LET target == queue[m][i]
                IN \/ fate' = [fate EXCEPT ![r] = "ended"] /\ UNCHANGED queue
                   \/ /\ fate' = [fate EXCEPT ![r] = "ended", ![target] = "ended"]
                      /\ queue' = [queue EXCEPT ![m] = Without(@, i)]
                   \/ /\ fate' = [fate EXCEPT ![r] = "queued", ![target] = "ended"]
                      /\ queue' = [queue EXCEPT ![m] = Append(Without(@, i), r)]
    BY <1>4 DEF SendRequest
  <2>2. WiresTyped' /\ LinesKnown'
    BY <1>1, <2>1, TypedParts DEF WiresTyped, LinesKnown
  <2>3. ASSUME NEW t \in Requests, fate[t] \in {"queued", "new"}
        PROVE  by[t] = NoLine /\ \A n \in Mgrs : working[n] # t
    BY <2>3 DEF SentBy, TradeOK
  <2>4. ASSUME NEW t \in Requests, fate[t] = "queued", Ordered(queue', came', fate'),
               \A y \in Requests \ {r, t} : fate'[y] = fate[y], fate'[r] # "sent", fate'[t] # "sent"
        PROVE  RequestsInv'
    <3>1. \A y \in Requests : fate[y] = "sent" <=> fate'[y] = "sent"
      BY <1>1, <2>4
    <3>2. \A n \in Mgrs : working[n] # NoRequest => fate'[working[n]] = "sent"
      BY <3>1 DEF SentBy, TradeTyped
    <3>3. by' = by /\ working' = working
      BY <2>1
    <3> HIDE <2>1, <2>4
    <3>4. SentBy'
      BY <3>1, <3>2, <3>3 DEF SentBy
    <3> QED
      BY <1>2, <2>2, <2>4, <3>4, Typed
  <2>5. \A y \in Requests : In(queue[m], y) => fate[y] = "queued"
    BY DEF Ordered
  <2>6. PICK h \in Requests : In(queue[m], h)
    <3>1. queue[m] \in Seq(Requests)
      BY DEF TradeTyped
    <3>2. 1 \in 1 .. Len(queue[m]) /\ queue[m][1] \in Requests
      BY <1>4, <3>1
    <3> QED
      BY <3>2 DEF In
  <2>7. CASE queue' = [queue EXCEPT ![m] = Append(@, r)] /\ fate' = [fate EXCEPT ![r] = "queued"]
    <3>1. Ordered(queue', came', fate')
      BY <1>1, <2>7, OneWaits
    <3> QED
      BY <2>4, <2>5, <2>6, <2>7, <3>1 DEF TradeTyped
  <2>8. ASSUME NEW i \in DOMAIN queue[m], fate' = [fate EXCEPT ![r] = "ended"], UNCHANGED queue
        PROVE  RequestsInv'
    <3>1. Ordered(queue', came', fate')
      BY <1>1, <2>8, OneComes DEF Fates
    <3> QED
      BY <2>4, <2>5, <2>6, <2>8, <3>1 DEF TradeTyped
  <2>9. ASSUME NEW i \in DOMAIN queue[m], NEW t, t = queue[m][i],
               \/ /\ fate' = [fate EXCEPT ![r] = "ended", ![t] = "ended"]
                  /\ queue' = [queue EXCEPT ![m] = Without(@, i)]
               \/ /\ fate' = [fate EXCEPT ![r] = "queued", ![t] = "ended"]
                  /\ queue' = [queue EXCEPT ![m] = Append(Without(@, i), r)]
        PROVE  RequestsInv'
    <3> DEFINE q == Without(queue[m], i)
               Q == [queue EXCEPT ![m] = q]
               G == [fate EXCEPT ![t] = "ended"]
    <3>1. queue[m] \in Seq(Requests) /\ i \in 1 .. Len(queue[m]) /\ t \in Requests /\ In(queue[m], t) /\ came[m] \in Seq(Requests)
      BY <2>9 DEF In, TradeTyped
    <3>2. InTheOrderOf(queue[m], came[m]) /\ \A j \in 1 .. Len(queue[m]) : In(came[m], queue[m][j])
      <4>1. \A j \in 1 .. Len(queue[m]) : queue[m][j] \in Requests /\ In(queue[m], queue[m][j])
        BY <3>1 DEF In
      <4> QED
        BY <4>1 DEF Ordered
    <3>3. q \in Seq(Requests) /\ InTheOrderOf(q, came[m]) /\ \A x : In(q, x) <=> In(queue[m], x) /\ x # t
      BY <2>9, <3>1, <3>2, Removed
    <3>4. G \in [Requests -> Fates] /\ G[t] = "ended" /\ \A x \in Requests : x # t => G[x] = fate[x]
      BY <3>1 DEF TradeTyped, Fates
    <3>5. t # r /\ G[r] = "new" /\ fate[t] = "queued"
      BY <1>1, <2>5, <3>1, <3>4
    <3> HIDE DEF q, G
    <3>6. Ordered(Q, came, G)
      BY <3>1, <3>3, <3>4, SomeLeave
    <3>7. Q[m] = q /\ Q \in [Mgrs -> Seq(Requests)]
      BY <3>3 DEF TradeTyped
    <3>8. CASE fate' = [fate EXCEPT ![r] = "ended", ![t] = "ended"] /\ queue' = [queue EXCEPT ![m] = Without(@, i)]
      <4>1. queue' = Q /\ fate' = [G EXCEPT ![r] = "ended"]
        BY <3>1, <3>5, <3>8 DEF q, G, TradeTyped
      <4>2. Ordered(queue', came', fate')
        <5> HIDE DEF Q
        <5> QED
          BY <1>1, <3>5, <3>6, <4>1, OneComes DEF Fates
      <4> QED
        BY <2>4, <3>1, <3>4, <3>5, <4>1, <4>2
    <3>9. CASE fate' = [fate EXCEPT ![r] = "queued", ![t] = "ended"] /\ queue' = [queue EXCEPT ![m] = Append(Without(@, i), r)]
      <4>1. queue' = [Q EXCEPT ![m] = Append(@, r)] /\ fate' = [G EXCEPT ![r] = "queued"]
        BY <3>1, <3>5, <3>9 DEF q, G, TradeTyped
      <4>2. Ordered(queue', came', fate')
        <5> HIDE DEF Q
        <5> QED
          BY <1>1, <3>5, <3>6, <4>1, OneWaits
      <4> QED
        BY <2>4, <3>1, <3>4, <3>5, <4>1, <4>2
    <3> QED
      BY <2>9, <3>8, <3>9
  <2> QED
    BY <2>1, <2>7, <2>8, <2>9
<1> QED
  BY <1>3, <1>4

LEMMA FrontSent ==
  ASSUME TradeOK, RequestsInv, NEW m \in Mgrs, SendFront(m)
  PROVE  RequestsInv'
<1> USE DEF RequestsInv
<1> DEFINE r == Head(queue[m])
           q == Tail(queue[m])
<1>1. /\ queue[m] \in Seq(Requests) /\ queue[m] # <<>> /\ came' = came /\ tell' = tell
  BY DEF SendFront, TradeTyped
<1>2. /\ r \in Requests /\ r = queue[m][1] /\ 1 \in 1 .. Len(queue[m]) /\ q \in Seq(Requests) /\ Len(queue[m]) \in Nat
      /\ Len(q) = Len(queue[m]) - 1 /\ \A i \in 1 .. Len(q) : q[i] = queue[m][i + 1]
  BY <1>1
<1>3. PICK x \in ByLinesOrHelper(m, r) :
        /\ Applied(m, r, x)
        /\ fate' = [fate EXCEPT ![r] = Fate(x.res)]
        /\ queue' = IF x.res = "Queuing" THEN queue ELSE [queue EXCEPT ![m] = Tail(@)]
        /\ IF x.res = "Queuing" \/ queue'[m] = <<>>
           THEN LoopEnds(m, queue'[m], x.res \notin {"Queuing", "NoReadyLine"}, working'[m] # NoRequest)
           ELSE UNCHANGED <<loop, notices>>
  BY DEF SendFront
<1>4. Rest'
  <2>1. LoopEnds(m, queue'[m], x.res \notin {"Queuing", "NoReadyLine"}, working'[m] # NoRequest) \/ UNCHANGED <<loop, notices>>
    BY <1>3
  <2>2. loop' \in [Mgrs -> {"none", "ready", "asked"}] /\ notices' \subseteq Mgrs
    BY ZenonT(40), <2>1, Asked DEF LoopEnds, Notify, TradeTyped
  <2> QED
    BY <1>1, <2>2 DEF Rest, TradeTyped
<1> HIDE DEF r, q
<1>5. In(queue[m], r) /\ fate[r] = "queued"
  <2>1. In(queue[m], r)
    BY <1>2 DEF In
  <2> QED
    BY <1>2, <2>1 DEF Ordered
<1>6. x.res \in Results
  BY <1>2, ByLinesOrOffer
<1>7. LinesKnown' /\ SentBy' /\ WiresTyped'
  <2>1. fate' = [fate EXCEPT ![r] = Fate(x.res)] /\ Applied(m, r, x)
    BY <1>3
  <2> QED
    BY <1>1, <1>2, <1>5, <2>1, SendingHolds, WhatApplied
<1>8. CASE x.res = "Queuing"
  <2>1. fate' = fate /\ queue' = queue
    BY <1>3, <1>5, <1>8, FateOf DEF TradeTyped
  <2>2. Ordered(queue', came', fate')
    BY <1>1, <2>1
  <2> QED
    BY <1>4, <1>7, <2>2, Typed
<1>9. CASE x.res # "Queuing"
  <2> DEFINE G == [fate EXCEPT ![r] = Fate(x.res)]
  <2>1. Fate(x.res) \in Fates \ {"new", "queued"}
    BY <1>6, <1>9, Tried
  <2>2. G \in [Requests -> Fates] /\ G[r] \notin {"new", "queued"} /\ \A y \in Requests : y # r => G[y] = fate[y]
    BY <1>2, <2>1 DEF TradeTyped
  <2> HIDE DEF G
  <2>3. InTheOrderOf(queue[m], came[m]) /\ In(came[m], r)
    BY <1>2, <1>5 DEF Ordered
  <2>4. \A i \in 1 .. Len(q) : i + 1 \in 1 .. Len(queue[m])
    BY <1>2
  <2>5. InTheOrderOf(q, came[m])
    <3> SUFFICES ASSUME NEW a \in 1 .. Len(q), NEW b \in 1 .. Len(q), a < b,
                        NEW i \in 1 .. Len(came[m]), NEW j \in 1 .. Len(came[m]), came[m][i] = q[a], came[m][j] = q[b]
                 PROVE  i < j
      BY DEF InTheOrderOf
    <3>1. a + 1 \in 1 .. Len(queue[m]) /\ b + 1 \in 1 .. Len(queue[m]) /\ a + 1 < b + 1
      BY <2>4
    <3>2. came[m][i] = queue[m][a + 1] /\ came[m][j] = queue[m][b + 1]
      BY <1>2
    <3> QED
      BY <2>3, <3>1, <3>2 DEF InTheOrderOf
  <2>6. \A y : In(q, y) => In(queue[m], y) /\ \E b \in 1 .. Len(queue[m]) : 1 < b /\ queue[m][b] = y
    <3> SUFFICES ASSUME NEW i \in 1 .. Len(q) PROVE In(queue[m], q[i]) /\ \E b \in 1 .. Len(queue[m]) : 1 < b /\ queue[m][b] = q[i]
      BY DEF In
    <3>1. i + 1 \in 1 .. Len(queue[m]) /\ 1 < i + 1 /\ queue[m][i + 1] = q[i]
      BY <1>2, <2>4
    <3> QED
      BY <3>1 DEF In
  <2>7. ~In(q, r)
    <3> SUFFICES ASSUME In(q, r) PROVE FALSE
      OBVIOUS
    <3>1. PICK b \in 1 .. Len(queue[m]) : 1 < b /\ queue[m][b] = r
      BY <2>6
    <3>2. PICK p \in 1 .. Len(came[m]) : came[m][p] = r
      BY <2>3 DEF In
    <3>3. p < p
      BY <1>2, <2>3, <3>1, <3>2 DEF InTheOrderOf
    <3> QED
      BY <3>3
  <2>8. \A y : In(queue[m], y) /\ ~In(q, y) => y = r
    <3> SUFFICES ASSUME NEW i \in 1 .. Len(queue[m]), i # 1 PROVE In(q, queue[m][i])
      BY <1>2 DEF In
    <3>1. i - 1 \in 1 .. Len(q) /\ q[i - 1] = queue[m][i]
      BY <1>2
    <3> QED
      BY <3>1 DEF In
  <2>9. Ordered([queue EXCEPT ![m] = q], came, G)
    <3>1. \A y \in Requests : In(queue[m], y) /\ ~In(q, y) => G[y] \notin {"new", "queued"}
      BY <2>2, <2>8
    <3>2. \A y \in Requests : G[y] # fate[y] => In(queue[m], y) /\ ~In(q, y)
      BY <1>5, <2>2, <2>7
    <3>3. \A w, y \in Requests : In(queue[m], w) /\ ~In(q, w) /\ In(q, y)
            => G[w] = "ended" \/ \E a, b \in 1 .. Len(queue[m]) : a < b /\ queue[m][a] = w /\ queue[m][b] = y
      BY <1>2, <2>6, <2>8
    <3>4. \A y : In(q, y) => In(queue[m], y)
      BY <2>6
    <3> QED
      BY <1>2, <2>2, <2>5, <3>1, <3>2, <3>3, <3>4, SomeLeave
  <2>10. Ordered(queue', came', fate')
    BY <1>1, <1>3, <1>9, <2>9 DEF q, G
  <2> QED
    BY <1>4, <1>7, <2>10, Typed
<1> QED
  BY <1>8, <1>9

(* A step that leaves the requests where they are. *)
LEMMA RequestsStay ==
  ASSUME TradeOK, RequestsInv, WiresTyped', Rest', LinesKnown', UNCHANGED <<queue, came, fate, by>>,
         \A m \in Mgrs : working'[m] # NoRequest => working'[m] = working[m]
  PROVE  RequestsInv'
<1>1. Ordered(queue', came', fate')
  BY DEF RequestsInv
<1>2. SentBy'
  BY DEF RequestsInv, SentBy
<1> QED
  BY <1>1, <1>2, Typed DEF RequestsInv

LEMMA NewLineTyped ==
  ASSUME TradeOK, TradeTyped, NEW m \in Mgrs, NewLineReady(m)
  PROVE  loop' \in [Mgrs -> {"none", "ready", "asked"}] /\ notices' \subseteq Mgrs
BY Asked DEF NewLineReady, Notify, TradeTyped

LEMMA OthersGo ==
  ASSUME TradeOK, RequestsInv, NEW m \in Mgrs, EmitOnTimer(m) \/ SendReqQueue(m) \/ OnWorkingRequestDone(m)
  PROVE  RequestsInv'
<1>1. /\ UNCHANGED <<lines, lineVars, unheard, queue, came, fate, by>>
      /\ LinesKnown'
  <2>1. UNCHANGED <<lines, lineVars, unheard, queue, came, fate, by>>
    BY DEF EmitOnTimer, SendReqQueue, OnWorkingRequestDone
  <2> QED
    BY <2>1 DEF LinesKnown, RequestsInv, lineVars
<1>2. CASE EmitOnTimer(m)
  <2>1. flow' \in [Mgrs -> Lines \cup {NoLine}] /\ working' = working
    BY <1>2 DEF EmitOnTimer, RequestsInv, TradeTyped
  <2>2. loop' \in [Mgrs -> {"none", "ready", "asked"}] /\ notices' \subseteq Mgrs
    BY <1>2, NewLineTyped DEF EmitOnTimer, RequestsInv, TradeTyped
  <2>3. WiresTyped' /\ Rest'
    BY <1>1, <2>1, <2>2 DEF WiresTyped, Rest, lineVars, RequestsInv, TradeTyped
  <2> QED
    BY <1>1, <2>1, <2>3, RequestsStay
<1>3. CASE SendReqQueue(m)
  <2>1. flow' = flow /\ working' = working /\ loop' \in [Mgrs -> {"none", "ready", "asked"}] /\ notices' \subseteq Mgrs
    BY <1>3 DEF SendReqQueue, RequestsInv, TradeTyped
  <2>2. WiresTyped' /\ Rest'
    BY <1>1, <2>1 DEF WiresTyped, Rest, lineVars, RequestsInv, TradeTyped
  <2> QED
    BY <1>1, <2>1, <2>2, RequestsStay
<1>4. CASE OnWorkingRequestDone(m)
  <2>1. flow' = flow /\ loop' = loop /\ working' = [working EXCEPT ![m] = NoRequest] /\ notices' \subseteq Mgrs
    BY <1>4, Asked DEF OnWorkingRequestDone, Notify, RequestsInv, TradeTyped
  <2>2. \A n \in Mgrs : working'[n] \in {working[n], NoRequest}
    BY <2>1 DEF RequestsInv, TradeTyped
  <2>3. WiresTyped' /\ Rest'
    BY <1>1, <2>1 DEF WiresTyped, Rest, lineVars, RequestsInv, TradeTyped
  <2> QED
    BY <1>1, <2>2, <2>3, RequestsStay
<1> QED
  BY <1>2, <1>3, <1>4

LEMMA LineReady ==
  ASSUME TradeOK, RequestsInv, NEW l \in Lines, OnTradingLineReady(l)
  PROVE  RequestsInv'
<1> DEFINE m == MgrOf[l]
<1>1. /\ m \in Mgrs /\ tell[l] = "ready" /\ tell' = [tell EXCEPT ![l] = "nothing"]
      /\ lines' = [lines EXCEPT ![m] = @ \cup {l}] /\ NewLineReady(m)
      /\ UNCHANGED <<queue, flow, working, lineSt, breaks, fate, by, came, unheard>>
  BY DEF OnTradingLineReady, TradeOK
<1>2. /\ tell'[l] = "nothing" /\ \A k \in Lines : k # l => tell'[k] = tell[k]
      /\ \A n \in Mgrs : lines'[n] = IF n = m THEN lines[n] \cup {l} ELSE lines[n]
      /\ tell' \in [Lines -> {"nothing", "ready", "broken"}] /\ lines' \in [Mgrs -> SUBSET Lines]
  BY <1>1 DEF RequestsInv, TradeTyped
<1>3. LinesKnown
  BY DEF RequestsInv
<1>4. LinesKnown'
  <2>1. \A n \in Mgrs : \A k \in lines'[n] : MgrOf[k] = n /\ lineSt'[k] # "off"
    BY <1>1, <1>2, <1>3 DEF LinesKnown
  <2>2. ASSUME NEW k \in Lines
        PROVE  /\ lineSt'[k] = "broken" <=> tell'[k] = "broken"
               /\ lineSt'[k] = "off" => tell'[k] = "nothing"
               /\ lineSt'[k] \in {"ready", "busy", "full"} /\ tell'[k] = "nothing" => k \in lines'[MgrOf[k]]
               /\ lineSt'[k] = "broken" => k \in lines'[MgrOf[k]] \/ MgrOf[k] \in unheard'
    <3>1. MgrOf[k] \in Mgrs /\ lineSt' = lineSt /\ unheard' = unheard
      BY <1>1 DEF TradeOK
    <3>2. lines[MgrOf[k]] \subseteq lines'[MgrOf[k]] /\ l \in lines'[m]
      BY <1>1, <1>2, <3>1
    <3> QED
      BY <1>1, <1>2, <1>3, <3>1, <3>2 DEF LinesKnown
  <2> QED
    BY <2>1, <2>2 DEF LinesKnown
<1>5. WiresTyped' /\ Rest'
  <2>1. loop' \in [Mgrs -> {"none", "ready", "asked"}] /\ notices' \subseteq Mgrs
    BY <1>1, NewLineTyped DEF RequestsInv
  <2> QED
    BY <1>1, <1>2, <2>1 DEF WiresTyped, Rest, RequestsInv, TradeTyped
<1> QED
  BY <1>1, <1>4, <1>5, RequestsStay

LEMMA LineBroken ==
  ASSUME TradeOK, RequestsInv, NEW l \in Lines, OnTradingLineBroken(l)
  PROVE  RequestsInv'
<1> DEFINE m == MgrOf[l]
           own == lines[m] \ {l}
<1>1. /\ m \in Mgrs /\ tell[l] = "broken" /\ tell' = [tell EXCEPT ![l] = "nothing"] /\ lineSt' = [lineSt EXCEPT ![l] = "off"]
      /\ lines' = [lines EXCEPT ![m] = own]
      /\ UNCHANGED <<flow, loop, breaks, by, came, unheard>>
  BY DEF OnTradingLineBroken, TradeOK
<1>2. \/ UNCHANGED <<queue, fate, working, notices>>
      \/ /\ working' = [working EXCEPT ![m] = NoRequest] /\ Notify(m, FALSE)
         /\ UNCHANGED <<queue, fate>> \/ ClearReqQueue(m)
  BY DEF OnTradingLineBroken
<1>3. /\ tell'[l] = "nothing" /\ \A k \in Lines : k # l => tell'[k] = tell[k]
      /\ lineSt'[l] = "off" /\ \A k \in Lines : k # l => lineSt'[k] = lineSt[k]
      /\ \A n \in Mgrs : lines'[n] = IF n = m THEN lines[n] \ {l} ELSE lines[n]
      /\ tell' \in [Lines -> {"nothing", "ready", "broken"}] /\ lines' \in [Mgrs -> SUBSET Lines]
      /\ lineSt' \in [Lines -> {"off", "ready", "busy", "full", "broken"}]
  BY <1>1 DEF RequestsInv, TradeTyped
<1>4. LinesKnown /\ \A n \in Mgrs : lines[n] \subseteq Lines
  BY DEF RequestsInv, TradeTyped
<1>5. LinesKnown'
  <2>1. \A n \in Mgrs : \A k \in lines'[n] : MgrOf[k] = n /\ lineSt'[k] # "off"
    <3> SUFFICES ASSUME NEW n \in Mgrs, NEW k \in lines'[n] PROVE MgrOf[k] = n /\ lineSt'[k] # "off"
      OBVIOUS
    <3>1. k \in lines[n] /\ MgrOf[k] = n /\ lineSt[k] # "off" /\ k \in Lines
      BY <1>3, <1>4 DEF LinesKnown
    <3>2. k # l
      BY <1>3, <3>1
    <3> QED
      BY <1>3, <3>1, <3>2
  <2>2. ASSUME NEW k \in Lines
        PROVE  /\ lineSt'[k] = "broken" <=> tell'[k] = "broken"
               /\ lineSt'[k] = "off" => tell'[k] = "nothing"
               /\ lineSt'[k] \in {"ready", "busy", "full"} /\ tell'[k] = "nothing" => k \in lines'[MgrOf[k]]
               /\ lineSt'[k] = "broken" => k \in lines'[MgrOf[k]] \/ MgrOf[k] \in unheard'
    <3>1. MgrOf[k] \in Mgrs /\ unheard' = unheard
      BY <1>1 DEF TradeOK
    <3>2. k # l /\ k \in lines[MgrOf[k]] => k \in lines'[MgrOf[k]]
      BY <1>3, <3>1
    <3> QED
      BY <1>3, <1>4, <3>1, <3>2 DEF LinesKnown
  <2> QED
    BY <2>1, <2>2 DEF LinesKnown
<1>6. /\ working' \in [Mgrs -> Requests \cup {NoRequest}] /\ notices' \subseteq Mgrs
      /\ \A n \in Mgrs : working'[n] \in {working[n], NoRequest}
  BY <1>1, <1>2, Asked DEF Notify, RequestsInv, TradeTyped
<1>7. WiresTyped' /\ Rest'
  BY <1>1, <1>3, <1>6 DEF WiresTyped, Rest, RequestsInv, TradeTyped
<1>8. CASE UNCHANGED <<queue, fate>>
  BY <1>1, <1>5, <1>6, <1>7, <1>8, RequestsStay
<1>9. CASE ClearReqQueue(m)
  <2> DEFINE q == <<>>
             G == [r \in Requests |-> IF r \in ToSet(queue[m]) THEN "leaving" ELSE fate[r]]
  <2>1. queue' = [queue EXCEPT ![m] = q] /\ fate' = G
    BY <1>9 DEF ClearReqQueue
  <2>2. \A r \in Requests : G[r] = IF In(queue[m], r) THEN "leaving" ELSE fate[r]
    <3>1. queue[m] \in Seq(Requests)
      BY <1>1 DEF RequestsInv, TradeTyped
    <3>2. \A r \in Requests : r \in ToSet(queue[m]) <=> In(queue[m], r)
      BY <3>1 DEF ToSet, In
    <3> QED
      BY <3>2
  <2>3. G \in [Requests -> Fates] /\ q \in Seq(Requests) /\ \A x : ~In(q, x)
    BY DEF RequestsInv, TradeTyped, Fates, In
  <2>4. InTheOrderOf(q, came[m])
    BY DEF InTheOrderOf
  <2>5. \A r \in Requests : In(queue[m], r) => fate[r] = "queued"
    BY <1>1 DEF RequestsInv, Ordered
  <2>6. Ordered(queue, came, fate)
    BY DEF RequestsInv
  <2> HIDE DEF q, G
  <2>7. Ordered([queue EXCEPT ![m] = q], came, G)
    BY <1>1, <2>2, <2>3, <2>4, <2>5, <2>6, SomeLeave
  <2>8. Ordered(queue', came', fate')
    BY <1>1, <2>1, <2>7
  <2>9. SentBy'
    <3>1. \A r \in Requests : fate'[r] = "sent" <=> fate[r] = "sent"
      BY <2>1, <2>2, <2>5
    <3>2. \A n \in Mgrs : working'[n] # NoRequest => working'[n] = working[n] /\ working[n] \in Requests
      BY <1>6 DEF RequestsInv, TradeTyped
    <3> QED
      BY <1>1, <3>1, <3>2 DEF RequestsInv, SentBy
  <2> QED
    BY <1>5, <1>7, <2>8, <2>9, Typed DEF RequestsInv
<1> QED
  BY <1>2, <1>8, <1>9

LEMMA RequestRejected ==
  ASSUME TradeOK, RequestsInv, NEW r \in Requests, Reject(r)
  PROVE  RequestsInv'
<1>1. /\ fate[r] = "leaving" /\ fate' = [fate EXCEPT ![r] = "rejected"]
      /\ UNCHANGED <<lines, queue, flow, loop, working, notices, lineSt, tell, by, came, unheard>>
  BY DEF Reject, lineVars
<1>2. /\ fate' \in [Requests -> Fates] /\ fate'[r] = "rejected" /\ \A x \in Requests : x # r => fate'[x] = fate[x]
  BY <1>1 DEF RequestsInv, TradeTyped, Fates
<1>3. \A x \in Requests : /\ fate'[x] = "new" <=> fate[x] = "new"
                          /\ fate'[x] = "queued" <=> fate[x] = "queued"
                          /\ fate'[x] = "sent" <=> fate[x] = "sent"
                          /\ fate'[x] = "ended" <=> fate[x] = "ended"
  BY <1>1, <1>2
<1>4. Ordered(queue, came, fate')
  <2>1. \A m \in Mgrs : \A i \in 1 .. Len(came[m]) : came[m][i] \in Requests
    BY DEF RequestsInv, TradeTyped
  <2> QED
    BY <1>2, <1>3, <2>1 DEF RequestsInv, Ordered
<1>5. SentBy'
  BY <1>1, <1>3 DEF RequestsInv, SentBy, TradeTyped
<1>6. WiresTyped' /\ Rest' /\ LinesKnown'
  BY <1>1 DEF WiresTyped, Rest, LinesKnown, RequestsInv, TradeTyped
<1> QED
  BY <1>1, <1>4, <1>5, <1>6, Typed DEF RequestsInv

LEMMA LinkSteps ==
  ASSUME TradeOK, RequestsInv, NEW l \in Lines, Connect(l) \/ BusyEnds(l) \/ FlowEnds(l) \/ Break(l)
  PROVE  RequestsInv'
<1> DEFINE Steps(from, to, call) ==
             /\ tell[l] = "nothing" /\ lineSt[l] \in from
             /\ lineSt' = [lineSt EXCEPT ![l] = to] /\ tell' = [tell EXCEPT ![l] = call]
<1>1. /\ UNCHANGED <<lines, queue, flow, loop, working, notices, fate, by, came, unheard>>
      /\ \/ Steps({"off"}, "ready", "ready") \/ Steps({"busy"}, "ready", "ready")
         \/ Steps({"full"}, "ready", "nothing") \/ Steps({"ready", "busy", "full"}, "broken", "broken")
  BY DEF Connect, BusyEnds, FlowEnds, Break, LineStep
<1>2. /\ tell' \in [Lines -> {"nothing", "ready", "broken"}] /\ lineSt' \in [Lines -> {"off", "ready", "busy", "full", "broken"}]
      /\ \A k \in Lines : k # l => lineSt'[k] = lineSt[k] /\ tell'[k] = tell[k]
      /\ (lineSt'[l] = "ready" /\ tell'[l] \in {"ready", "nothing"}) \/ (lineSt'[l] = "broken" /\ tell'[l] = "broken")
      /\ tell[l] = "nothing" /\ (lineSt[l] = "off" => tell'[l] = "ready")
  BY ZenonT(40), <1>1 DEF RequestsInv, TradeTyped
<1>3. LinesKnown'
  <2>1. \A n \in Mgrs : \A k \in lines'[n] : MgrOf[k] = n /\ lineSt'[k] # "off"
    BY <1>1, <1>2 DEF RequestsInv, LinesKnown, TradeTyped
  <2>2. ASSUME NEW k \in Lines
        PROVE  /\ lineSt'[k] = "broken" <=> tell'[k] = "broken"
               /\ lineSt'[k] = "off" => tell'[k] = "nothing"
               /\ lineSt'[k] \in {"ready", "busy", "full"} /\ tell'[k] = "nothing" => k \in lines'[MgrOf[k]]
               /\ lineSt'[k] = "broken" => k \in lines'[MgrOf[k]] \/ MgrOf[k] \in unheard'
    <3>1. lineSt[k] \in {"off", "ready", "busy", "full", "broken"} /\ lines' = lines /\ unheard' = unheard
      BY <1>1 DEF RequestsInv, TradeTyped
    <3>2. /\ lineSt[k] = "broken" <=> tell[k] = "broken"
          /\ lineSt[k] = "off" => tell[k] = "nothing"
          /\ lineSt[k] \in {"ready", "busy", "full"} /\ tell[k] = "nothing" => k \in lines[MgrOf[k]]
          /\ lineSt[k] = "broken" => k \in lines[MgrOf[k]] \/ MgrOf[k] \in unheard
      BY DEF RequestsInv, LinesKnown
    <3>3. CASE k # l
      BY <1>2, <3>1, <3>2, <3>3
    <3>4. CASE k = l
      <4>1. lineSt[l] # "off" => l \in lines[MgrOf[l]]
        BY <1>2, <3>1, <3>2, <3>4
      <4>2. lineSt[l] = "off" => lineSt'[l] = "ready" /\ tell'[l] = "ready"
        BY <1>1, <1>2
      <4> QED
        BY <1>2, <3>1, <3>4, <4>1, <4>2
    <3> QED
      BY <3>3, <3>4
  <2> QED
    BY <2>1, <2>2 DEF LinesKnown
<1>4. WiresTyped' /\ Rest'
  BY <1>1, <1>2 DEF WiresTyped, Rest, RequestsInv, TradeTyped
<1> QED
  BY <1>1, <1>3, <1>4, RequestsStay

LEMMA RequestsStep == TradeOK /\ RequestsInv /\ [TradeNext]_tradeVars => RequestsInv'
<1> SUFFICES ASSUME TradeOK, RequestsInv, [TradeNext]_tradeVars PROVE RequestsInv'
  OBVIOUS
<1>1. ASSUME NEW m \in Mgrs, Goes(m) PROVE RequestsInv'
  BY <1>1, FrontSent, OthersGo DEF Goes
<1>2. ASSUME NEW m \in Mgrs, NEW r \in Requests, SendRequest(m, r) PROVE RequestsInv'
  BY <1>2, RequestSent
<1>3. ASSUME NEW l \in Lines, Tells(l) \/ Connect(l) \/ Break(l) PROVE RequestsInv'
  BY <1>3, LineReady, LineBroken, LinkSteps DEF Tells
<1>4. ASSUME NEW r \in Requests, Reject(r) PROVE RequestsInv'
  BY <1>4, RequestRejected
<1>5. CASE UNCHANGED tradeVars
  <2>1. UNCHANGED <<lines, queue, flow, loop, working, notices, lineSt, tell, fate, by, came, unheard>>
    BY <1>5 DEF tradeVars, lineVars
  <2> QED
    BY <2>1 DEF RequestsInv, TradeTyped, LinesKnown, SentBy
<1> QED
  BY <1>1, <1>2, <1>3, <1>4, <1>5 DEF TradeNext

LEMMA RequestsInit == TradeOK /\ TradeInit => RequestsInv
<1> SUFFICES ASSUME TradeOK, TradeInit PROVE RequestsInv
  OBVIOUS
<1>1. /\ \A m \in Mgrs : lines[m] = {} /\ queue[m] = <<>> /\ came[m] = <<>> /\ working[m] = NoRequest
      /\ \A l \in Lines : lineSt[l] = "off" /\ tell[l] = "nothing"
      /\ \A r \in Requests : fate[r] = "new" /\ by[r] = NoLine
      /\ queue = [m \in Mgrs |-> <<>>] /\ came = [m \in Mgrs |-> <<>>] /\ fate = [r \in Requests |-> "new"]
  BY DEF TradeInit
<1>2. TradeTyped
  BY DEF TradeInit, TradeTyped, Fates
<1>3. LinesKnown /\ SentBy
  BY <1>1 DEF LinesKnown, SentBy
<1>4. Ordered(queue, came, fate)
  <2>1. Len(<<>>) = 0 /\ \A i \in 1 .. 0 : FALSE
    OBVIOUS
  <2>2. queue \in [Mgrs -> Seq(Requests)] /\ came \in [Mgrs -> Seq(Requests)] /\ fate \in [Requests -> Fates]
    BY <1>2 DEF TradeTyped
  <2>3. \A m \in Mgrs : \A i \in 1 .. Len(came[m]) : FALSE
    BY <1>1, <2>1
  <2>4. \A m \in Mgrs : \A i \in 1 .. Len(queue[m]) : FALSE
    BY <1>1, <2>1
  <2> QED
    BY <1>1, <2>2, <2>3, <2>4 DEF Ordered, In, InTheOrderOf
<1> QED
  BY <1>2, <1>3, <1>4 DEF RequestsInv

-----------------------------------------------------------------------------
(* A queue is never left with nobody to send it *)

(* The steps that change nothing for who waits, but may empty a queue. *)
LEMMA NothingElse ==
  ASSUME WaitsInv, UNCHANGED <<lines, flow, loop, working, notices, unheard, lineSt, tell>>,
         \A n \in Mgrs : queue'[n] # <<>> => queue[n] # <<>>
  PROVE  WaitsInv'
BY DEF WaitsInv, LinesCannot, OfferCannot, SomeLine, Waits, OwnLineCalls

(* What a manager does when lines, timers or askers of another are heard stays. *)
LEMMA CallsStay ==
  ASSUME NEW o \in Mgrs, OwnLineCalls(o), loop[o] # "none" => loop'[o] # "none", flow[o] # NoLine => flow'[o] # NoLine,
         \A l \in Lines : MgrOf[l] = o => /\ tell[l] # "nothing" => tell'[l] # "nothing"
                                          /\ l \in lines[o] /\ lineSt[l] = "busy" =>
                                               tell'[l] # "nothing" \/ (l \in lines'[o] /\ lineSt'[l] = "busy")
  PROVE  OwnLineCalls(o)'
BY DEF OwnLineCalls

(* A manager whose lines cannot take a request hears of one of them. *)
LEMMA LinesCall ==
  ASSUME TradeOK, RequestsInv, NEW o \in Mgrs, LinesCannot(o), queue[o] # <<>>, loop[o] = "none", lines[o] # {}
  PROVE  OwnLineCalls(o)
<1>1. CASE flow[o] # NoLine
  BY <1>1 DEF OwnLineCalls
<1>2. CASE flow[o] = NoLine
  <2>1. PICK l \in lines[o] : lineSt[l] \in {"busy", "broken"} \/ tell[l] = "ready"
    BY <1>2 DEF LinesCannot
  <2>2. l \in Lines /\ MgrOf[l] = o /\ (lineSt[l] = "broken" => tell[l] = "broken")
    BY DEF RequestsInv, TradeTyped, LinesKnown
  <2> QED
    BY <2>1, <2>2 DEF OwnLineCalls
<1> QED
  BY <1>1, <1>2

(* A request is tried: whoever is left with one that waits hears of a line, of
   the offer's work or of the offer's line. *)
LEMMA SendingWaits ==
  ASSUME NotFor = {}, TradeOK, RequestsInv, WaitsInv,
         NEW m \in Mgrs, NEW r \in Requests, NEW x \in ByLinesOrHelper(m, r), Applied(m, r, x), tell' = tell,
         \A n \in Mgrs : n # m => queue'[n] = queue[n] /\ loop'[n] = loop[n],
         notices \subseteq notices',
         queue'[m] # <<>> /\ loop'[m] = "none" => x.res = "Queuing",
         \/ loop'[m] = loop[m]
         \/ x.res \in {"Queuing", "NoReadyLine"} \/ working'[m] # NoRequest \/ Askers(m) \subseteq notices'
  PROVE  WaitsInv'
<1>1. /\ x.helped \in BOOLEAN
      /\ x.helped => OfferOf[m] # NoMgr /\ x.res = "Sent" /\ working[OfferOf[m]] = NoRequest
      /\ \A n \in Mgrs : x.gone \cap lines[n] # {} => n = m \/ (n = OfferOf[m] /\ queue[n] = <<>>)
      /\ x.res \in {"Queuing", "NoReadyLine"} =>
           /\ \A l \in lines[m] \ x.gone : lineSt[l] = "busy" \/ (lineSt[l] = "full" /\ x.wait[m] # NoLine)
           /\ x.res = "NoReadyLine" => lines[m] \ x.gone = {}
           /\ OfferOf[m] # NoMgr =>
                \/ working[OfferOf[m]] # NoRequest \/ queue[OfferOf[m]] # <<>>
                \/ \A l \in lines[OfferOf[m]] \ x.gone :
                     lineSt[l] = "busy" \/ (lineSt[l] = "full" /\ x.wait[OfferOf[m]] # NoLine)
           /\ x.res = "Queuing" /\ lines[m] \ x.gone = {} => OfferOf[m] # NoMgr /\ lines[OfferOf[m]] \ x.gone # {}
  BY ByLinesOrOffer DEF RequestsInv
<1>2. /\ \A n \in Mgrs : lines'[n] = lines[n] \ x.gone
      /\ \A n \in Mgrs : lines'[n] # lines[n] => n \in unheard'
      /\ unheard \subseteq unheard'
      /\ \A l \in Lines : lineSt'[l] = lineSt[l] \/ (lineSt[l] = "ready" /\ lineSt'[l] \in {"busy", "full"})
      /\ x.helped => working' = [working EXCEPT ![OfferOf[m]] = r]
      /\ ~x.helped => working' = working
      /\ \A n \in Mgrs : flow'[n] = IF x.wait[n] # NoLine THEN x.wait[n] ELSE flow[n]
  BY WhatApplied DEF RequestsInv
<1>3. \A n \in Mgrs : working[n] # NoRequest => working'[n] # NoRequest
  BY <1>2 DEF RequestsInv, TradeTyped, TradeOK
<1>4. /\ \A n \in Mgrs : \A l \in lines[n] : l \in Lines /\ MgrOf[l] = n
      /\ \A n \in Mgrs : OfferOf[n] # n /\ OfferOf[n] \in Mgrs \cup {NoMgr}
  BY DEF RequestsInv, TradeTyped, LinesKnown, TradeOK
<1>5. \A n \in Mgrs : flow[n] # NoLine => flow'[n] # NoLine
  BY <1>2
<1>6. ASSUME NEW o \in Mgrs, lines'[o] = lines[o], loop[o] # "none" => loop'[o] # "none", OwnLineCalls(o)
      PROVE  OwnLineCalls(o)'
  <2>1. \A l \in Lines : lineSt[l] = "busy" => lineSt'[l] = "busy"
    BY <1>2
  <2> QED
    BY <1>5, <1>6, <2>1, CallsStay
<1>7. ASSUME NEW o \in Mgrs, NEW l \in lines'[o], lineSt[l] = "busy" \/ (lineSt[l] = "full" /\ x.wait[o] # NoLine)
      PROVE  OwnLineCalls(o)'
  <2>1. l \in Lines /\ MgrOf[l] = o
    BY <1>2, <1>4
  <2>2. CASE lineSt[l] = "busy"
    <3>1. lineSt'[l] = "busy"
      BY <1>2, <2>1, <2>2
    <3> QED
      BY <2>1, <3>1 DEF OwnLineCalls
  <2>3. CASE x.wait[o] # NoLine
    <3>1. flow'[o] # NoLine
      BY <1>2, <2>3
    <3> QED
      BY <3>1 DEF OwnLineCalls
  <2> QED
    BY <1>7, <2>2, <2>3
<1>8. ASSUME NEW n \in Mgrs PROVE LinesCannot(n)'
  <2> SUFFICES ASSUME queue'[n] # <<>>, loop'[n] = "none", flow'[n] = NoLine, NEW l \in lines'[n]
               PROVE  lineSt'[l] \in {"busy", "broken"} \/ tell'[l] = "ready"
    BY DEF LinesCannot
  <2>1. l \in lines[n] \ x.gone /\ l \in Lines
    BY <1>2, <1>4
  <2>2. x.wait[n] = NoLine /\ flow[n] = NoLine
    BY <1>2
  <2>3. CASE n # m
    <3>1. lineSt[l] \in {"busy", "broken"} \/ tell[l] = "ready"
      BY <2>1, <2>2, <2>3 DEF WaitsInv, LinesCannot
    <3> QED
      BY <1>2, <2>1, <3>1
  <2>4. CASE n = m
    <3>1. lineSt[l] = "busy"
      BY <1>1, <2>1, <2>2, <2>4
    <3> QED
      BY <1>2, <2>1, <3>1
  <2> QED
    BY <2>3, <2>4
<1>9. ASSUME NEW n \in Mgrs PROVE OfferCannot(n)'
  <2> DEFINE o == OfferOf[n]
  <2> SUFFICES ASSUME queue'[n] # <<>>, loop'[n] = "none", n \notin notices', o # NoMgr, o \notin unheard', lines'[o] # {},
                      ~OwnLineCalls(o)', working'[o] = NoRequest
               PROVE  FALSE
    BY DEF OfferCannot, Waits
  <2>1. o \in Mgrs /\ o # n /\ lines'[o] = lines[o] /\ o \notin unheard /\ working[o] = NoRequest
    BY <1>2, <1>3, <1>4
  <2>2. CASE n # m
    <3>1. OwnLineCalls(o)
      BY <2>1, <2>2 DEF WaitsInv, OfferCannot, Waits
    <3>2. o = m /\ loop[m] # "none" /\ loop'[m] = "none"
      BY <1>6, <2>1, <3>1
    <3>3. n \in Askers(m)
      BY <3>2 DEF Askers
    <3>4. x.res \in {"Queuing", "NoReadyLine"}
      BY <2>1, <3>2, <3>3
    <3>5. PICK l \in lines'[m] : TRUE
      BY <3>2
    <3>6. OwnLineCalls(m)'
      BY <1>1, <1>2, <1>7, <3>4, <3>5
    <3> QED
      BY <3>2, <3>6
  <2>3. CASE n = m
    <3>1. x.res = "Queuing"
      BY <2>3
    <3>2. CASE queue[o] # <<>>
      <4>1. loop[o] = "none"
        BY <2>1, <2>3 DEF Applied, Unlocked
      <4>2. OwnLineCalls(o)
        BY <2>1, <3>2, <4>1, LinesCall DEF WaitsInv
      <4> QED
        BY <1>6, <2>1, <2>3, <4>1, <4>2
    <3>3. CASE \A l \in lines[o] \ x.gone : lineSt[l] = "busy" \/ (lineSt[l] = "full" /\ x.wait[o] # NoLine)
      <4>1. PICK l \in lines'[o] : TRUE
        OBVIOUS
      <4> QED
        BY <1>2, <1>7, <2>1, <3>3, <4>1
    <3> QED
      BY <1>1, <2>1, <2>3, <3>1, <3>2, <3>3
  <2> QED
    BY <2>2, <2>3
<1>10. ASSUME NEW n \in Mgrs PROVE SomeLine(n)'
  <2> DEFINE o == OfferOf[n]
  <2> SUFFICES ASSUME queue'[n] # <<>>, loop'[n] = "none", n \notin notices', lines'[n] = {}
               PROVE  o # NoMgr /\ (lines'[o] # {} \/ o \in unheard')
    BY DEF SomeLine, Waits
  <2>1. CASE n # m
    <3>1. lines[n] = {}
      <4>1. x.gone \cap lines[n] = {}
        BY <1>1, <2>1
      <4> QED
        BY <1>2, <4>1
    <3>2. o # NoMgr /\ (lines[o] # {} \/ o \in unheard)
      BY <2>1, <3>1 DEF WaitsInv, SomeLine, Waits
    <3> QED
      BY <1>2, <1>4, <3>2
  <2>2. CASE n = m
    <3>1. x.res = "Queuing" /\ lines[m] \ x.gone = {}
      BY <1>2, <2>2
    <3> QED
      BY <1>1, <1>2, <1>4, <2>2, <3>1
  <2> QED
    BY <2>1, <2>2
<1> QED
  BY <1>8, <1>9, <1>10 DEF WaitsInv

LEMMA SendRequestWaits ==
  ASSUME NotFor = {}, TradeOK, RequestsInv, WaitsInv, NEW m \in Mgrs, NEW r \in Requests, SendRequest(m, r)
  PROVE  WaitsInv'
<1>1. UNCHANGED <<loop, notices, tell>>
  BY DEF SendRequest
<1>2. CASE queue[m] = <<>>
  <2>1. PICK x \in ByLinesOrHelper(m, r) :
          /\ Applied(m, r, x)
          /\ queue' = IF x.res = "Queuing" THEN [queue EXCEPT ![m] = Append(@, r)] ELSE queue
    BY <1>2 DEF SendRequest
  <2>2. \A n \in Mgrs : n # m => queue'[n] = queue[n]
    BY <2>1 DEF RequestsInv, TradeTyped
  <2> QED
    BY <1>1, <1>2, <2>1, <2>2, SendingWaits
<1>3. CASE queue[m] # <<>>
  <2>1. UNCHANGED <<lines, unheard, flow, working, lineSt>>
    BY <1>3 DEF SendRequest
  <2>2. \A n \in Mgrs : n # m => queue'[n] = queue[n]
    BY <1>3 DEF SendRequest, RequestsInv, TradeTyped
  <2> QED
    BY <1>1, <1>3, <2>1, <2>2, NothingElse
<1> QED
  BY <1>2, <1>3

LEMMA SendFrontWaits ==
  ASSUME NotFor = {}, TradeOK, RequestsInv, WaitsInv, NEW m \in Mgrs, SendFront(m)
  PROVE  WaitsInv'
<1> DEFINE r == Head(queue[m])
<1>1. loop[m] # "none" /\ queue[m] # <<>> /\ tell' = tell /\ queue[m] \in Seq(Requests)
  BY DEF SendFront, RequestsInv, TradeTyped
<1>2. r \in Requests
  BY <1>1
<1>3. PICK x \in ByLinesOrHelper(m, r) :
        /\ Applied(m, r, x)
        /\ queue' = IF x.res = "Queuing" THEN queue ELSE [queue EXCEPT ![m] = Tail(@)]
        /\ IF x.res = "Queuing" \/ queue'[m] = <<>>
           THEN LoopEnds(m, queue'[m], x.res \notin {"Queuing", "NoReadyLine"}, working'[m] # NoRequest)
           ELSE UNCHANGED <<loop, notices>>
  BY DEF SendFront
<1> HIDE DEF r
<1>4. \A n \in Mgrs : n # m => queue'[n] = queue[n]
  BY <1>3 DEF RequestsInv, TradeTyped
<1>5. CASE x.res = "Queuing" \/ queue'[m] = <<>>
  <2>1. LoopEnds(m, queue'[m], x.res \notin {"Queuing", "NoReadyLine"}, working'[m] # NoRequest)
    BY <1>3, <1>5
  <2>2. /\ \A n \in Mgrs : n # m => loop'[n] = loop[n]
        /\ notices \subseteq notices'
    BY <2>1 DEF LoopEnds, Notify, RequestsInv, TradeTyped
  <2>3. x.res \in {"Queuing", "NoReadyLine"} \/ working'[m] # NoRequest \/ Askers(m) \subseteq notices'
    BY <2>1 DEF LoopEnds, Notify
  <2> QED
    BY <1>1, <1>2, <1>3, <1>4, <1>5, <2>2, <2>3, SendingWaits
<1>6. CASE ~(x.res = "Queuing" \/ queue'[m] = <<>>)
  <2>1. UNCHANGED <<loop, notices>>
    BY <1>3, <1>6
  <2> QED
    BY <1>1, <1>2, <1>3, <1>4, <2>1, SendingWaits
<1> QED
  BY <1>5, <1>6

(* A line or a timer is heard: the queue is taken up, or the askers are told. *)
LEMMA HeardWaits ==
  ASSUME TradeOK, RequestsInv, WaitsInv, NEW m \in Mgrs,
         UNCHANGED <<queue, working, unheard, lineSt>>, notices \subseteq notices',
         \A n \in Mgrs : n # m => lines'[n] = lines[n] /\ flow'[n] = flow[n] /\ loop'[n] = loop[n],
         \A l \in Lines : MgrOf[l] # m => tell'[l] = tell[l],
         lines[m] \subseteq lines'[m], loop[m] # "none" => loop'[m] # "none",
         lines'[m] # {} => NewLineReady(m)
  PROVE  WaitsInv'
<1>1. lines'[m] # {} => \/ queue[m] # <<>> /\ loop'[m] = "ready"
                        \/ queue[m] = <<>> /\ (working[m] # NoRequest \/ Askers(m) \subseteq notices')
  BY DEF NewLineReady, Notify, RequestsInv, TradeTyped
<1>2. /\ \A n \in Mgrs : \A l \in lines[n] : l \in Lines /\ MgrOf[l] = n
      /\ \A n \in Mgrs : OfferOf[n] # n /\ OfferOf[n] \in Mgrs \cup {NoMgr}
  BY DEF RequestsInv, TradeTyped, LinesKnown, TradeOK
<1>3. ASSUME NEW n \in Mgrs PROVE LinesCannot(n)'
  <2> SUFFICES ASSUME queue'[n] # <<>>, loop'[n] = "none", flow'[n] = NoLine, NEW l \in lines'[n]
               PROVE  lineSt'[l] \in {"busy", "broken"} \/ tell'[l] = "ready"
    BY DEF LinesCannot
  <2>1. n # m
    BY <1>1
  <2>2. l \in lines[n] /\ queue[n] # <<>> /\ loop[n] = "none" /\ flow[n] = NoLine
    BY <2>1
  <2>3. lineSt[l] \in {"busy", "broken"} \/ tell[l] = "ready"
    BY <2>2 DEF WaitsInv, LinesCannot
  <2> QED
    BY <1>2, <2>1, <2>2, <2>3
<1>4. ASSUME NEW n \in Mgrs PROVE OfferCannot(n)'
  <2> DEFINE o == OfferOf[n]
  <2> SUFFICES ASSUME queue'[n] # <<>>, loop'[n] = "none", n \notin notices', o # NoMgr, o \notin unheard', lines'[o] # {},
                      ~OwnLineCalls(o)', working'[o] = NoRequest
               PROVE  FALSE
    BY DEF OfferCannot, Waits
  <2>1. queue[n] # <<>> /\ loop[n] = "none" /\ n \notin notices /\ o \in Mgrs /\ o \notin unheard /\ working[o] = NoRequest
    BY <1>2
  <2>2. CASE o = m
    <3>1. n \in Askers(m)
      BY <2>2 DEF Askers
    <3>2. loop'[m] = "ready"
      BY <1>1, <2>1, <2>2, <3>1
    <3> QED
      BY <2>2, <3>2 DEF OwnLineCalls
  <2>3. CASE o # m
    <3>1. lines'[o] = lines[o] /\ flow'[o] = flow[o] /\ loop'[o] = loop[o]
      BY <2>1, <2>3
    <3>2. OwnLineCalls(o)
      BY <2>1, <3>1 DEF WaitsInv, OfferCannot, Waits
    <3>3. OwnLineCalls(o)'
      BY <2>1, <2>3, <3>1, <3>2, CallsStay
    <3> QED
      BY <3>3
  <2> QED
    BY <2>2, <2>3
<1>5. ASSUME NEW n \in Mgrs PROVE SomeLine(n)'
  <2> DEFINE o == OfferOf[n]
  <2> SUFFICES ASSUME queue'[n] # <<>>, loop'[n] = "none", n \notin notices', lines'[n] = {}
               PROVE  o # NoMgr /\ (lines'[o] # {} \/ o \in unheard')
    BY DEF SomeLine, Waits
  <2>1. queue[n] # <<>> /\ loop[n] = "none" /\ n \notin notices /\ lines[n] = {}
    OBVIOUS
  <2>2. o # NoMgr /\ (lines[o] # {} \/ o \in unheard)
    BY <2>1 DEF WaitsInv, SomeLine, Waits
  <2>3. o \in Mgrs /\ lines[o] \subseteq lines'[o]
    BY <1>2, <2>2
  <2> QED
    BY <2>2, <2>3
<1> QED
  BY <1>3, <1>4, <1>5 DEF WaitsInv

LEMMA TimerWaits ==
  ASSUME TradeOK, RequestsInv, WaitsInv, NEW m \in Mgrs, EmitOnTimer(m)
  PROVE  WaitsInv'
<1>1. /\ UNCHANGED <<lines, queue, working, lineSt, tell, unheard>>
      /\ \A n \in Mgrs : n # m => flow'[n] = flow[n]
      /\ lines[m] # {} => NewLineReady(m)
      /\ NewLineReady(m) \/ UNCHANGED <<loop, notices>>
  BY DEF EmitOnTimer, lineVars, RequestsInv, TradeTyped
<1>2. /\ notices \subseteq notices' /\ \A n \in Mgrs : n # m => loop'[n] = loop[n]
      /\ loop[m] # "none" => loop'[m] # "none"
  BY <1>1 DEF NewLineReady, Notify, RequestsInv, TradeTyped
<1> QED
  BY <1>1, <1>2, HeardWaits

LEMMA ReadyWaits ==
  ASSUME TradeOK, RequestsInv, WaitsInv, NEW l \in Lines, OnTradingLineReady(l)
  PROVE  WaitsInv'
<1> DEFINE m == MgrOf[l]
<1>1. /\ m \in Mgrs /\ tell' = [tell EXCEPT ![l] = "nothing"] /\ lines' = [lines EXCEPT ![m] = @ \cup {l}]
      /\ NewLineReady(m) /\ UNCHANGED <<queue, flow, working, lineSt, unheard>>
  BY DEF OnTradingLineReady, TradeOK
<1>2. /\ \A n \in Mgrs : n # m => lines'[n] = lines[n]
      /\ \A k \in Lines : MgrOf[k] # m => tell'[k] = tell[k]
      /\ lines[m] \subseteq lines'[m]
  BY <1>1 DEF RequestsInv, TradeTyped
<1>3. /\ notices \subseteq notices' /\ \A n \in Mgrs : n # m => loop'[n] = loop[n]
      /\ loop[m] # "none" => loop'[m] # "none"
  BY <1>1 DEF NewLineReady, Notify, RequestsInv, TradeTyped
<1> QED
  BY <1>1, <1>2, <1>3, HeardWaits

LEMMA AskedWaits ==
  ASSUME TradeOK, RequestsInv, WaitsInv, NEW m \in Mgrs, SendReqQueue(m)
  PROVE  WaitsInv'
<1>1. /\ UNCHANGED <<lines, queue, flow, working, lineSt, tell, unheard>> /\ notices' = notices \ {m}
      /\ loop' = IF queue[m] = <<>> THEN loop ELSE [loop EXCEPT ![m] = "asked"]
  BY DEF SendReqQueue, lineVars
<1>2. /\ \A n \in Mgrs : loop[n] # "none" => loop'[n] # "none"
      /\ queue[m] # <<>> => loop'[m] = "asked"
  BY <1>1 DEF RequestsInv, TradeTyped
<1>3. \A n \in Mgrs : queue[n] # <<>> /\ loop'[n] = "none" /\ n \notin notices' => n \notin notices /\ loop[n] = "none"
  BY <1>1, <1>2
<1>4. \A o \in Mgrs : OwnLineCalls(o) => OwnLineCalls(o)'
  BY <1>1, <1>2, CallsStay
<1>5. \A n \in Mgrs : OfferOf[n] \in Mgrs \cup {NoMgr}
  BY DEF TradeOK
<1>6. ASSUME NEW n \in Mgrs PROVE LinesCannot(n)'
  BY <1>1, <1>2 DEF WaitsInv, LinesCannot
<1>7. ASSUME NEW n \in Mgrs PROVE OfferCannot(n)'
  BY <1>1, <1>3, <1>4, <1>5 DEF WaitsInv, OfferCannot, Waits
<1>8. ASSUME NEW n \in Mgrs PROVE SomeLine(n)'
  BY <1>1, <1>3 DEF WaitsInv, SomeLine, Waits
<1> QED
  BY <1>6, <1>7, <1>8 DEF WaitsInv

LEMMA DoneWaits ==
  ASSUME TradeOK, RequestsInv, WaitsInv, NEW m \in Mgrs, OnWorkingRequestDone(m)
  PROVE  WaitsInv'
<1>1. /\ UNCHANGED <<lines, queue, flow, loop, lineSt, tell, unheard>> /\ notices' = notices \cup Askers(m)
      /\ \A n \in Mgrs : n # m => working'[n] = working[n]
  BY DEF OnWorkingRequestDone, Notify, lineVars, RequestsInv, TradeTyped
<1>2. \A n \in Mgrs : OfferOf[n] = m => n \in notices'
  BY <1>1 DEF Askers
<1>3. \A n \in Mgrs : OfferOf[n] \in Mgrs \cup {NoMgr}
  BY DEF TradeOK
<1> QED
  BY <1>1, <1>2, <1>3 DEF WaitsInv, LinesCannot, OfferCannot, SomeLine, Waits, OwnLineCalls

LEMMA LinkWaits ==
  ASSUME TradeOK, RequestsInv, WaitsInv, NEW l \in Lines, Connect(l) \/ BusyEnds(l) \/ FlowEnds(l) \/ Break(l)
  PROVE  WaitsInv'
<1>1. /\ UNCHANGED <<lines, queue, flow, loop, working, notices, unheard>>
      /\ \A k \in Lines : k # l => lineSt'[k] = lineSt[k] /\ tell'[k] = tell[k]
      /\ tell[l] = "nothing"
      /\ \/ lineSt[l] = "off" /\ lineSt'[l] = "ready" /\ tell'[l] = "ready"
         \/ lineSt[l] = "busy" /\ lineSt'[l] = "ready" /\ tell'[l] = "ready"
         \/ lineSt[l] = "full" /\ lineSt'[l] = "ready" /\ tell'[l] = "nothing"
         \/ lineSt'[l] = "broken" /\ tell'[l] = "broken"
  BY DEF Connect, BusyEnds, FlowEnds, Break, LineStep, RequestsInv, TradeTyped
<1>2. \A o \in Mgrs : OwnLineCalls(o) => OwnLineCalls(o)'
  BY <1>1, CallsStay
<1>3. \A n \in Mgrs : OfferOf[n] \in Mgrs \cup {NoMgr}
  BY DEF TradeOK
<1>4. ASSUME NEW n \in Mgrs PROVE LinesCannot(n)'
  <2> SUFFICES ASSUME queue[n] # <<>>, loop[n] = "none", flow[n] = NoLine, NEW k \in lines[n]
               PROVE  lineSt'[k] \in {"busy", "broken"} \/ tell'[k] = "ready"
    BY <1>1 DEF LinesCannot
  <2>1. k \in Lines /\ lineSt[k] # "off" /\ (lineSt[k] \in {"busy", "broken"} \/ tell[k] = "ready")
    BY DEF WaitsInv, LinesCannot, RequestsInv, TradeTyped, LinesKnown
  <2> QED
    BY <1>1, <2>1
<1>5. ASSUME NEW n \in Mgrs PROVE OfferCannot(n)' /\ SomeLine(n)'
  BY <1>1, <1>2, <1>3 DEF WaitsInv, OfferCannot, SomeLine, Waits
<1> QED
  BY <1>4, <1>5 DEF WaitsInv

LEMMA BrokenWaits ==
  ASSUME TradeOK, RequestsInv, WaitsInv, NEW l \in Lines, OnTradingLineBroken(l)
  PROVE  WaitsInv'
<1> DEFINE m == MgrOf[l]
           own == lines[m] \ {l}
<1>1. /\ m \in Mgrs /\ tell[l] = "broken" /\ UNCHANGED <<flow, loop, unheard>>
      /\ \A k \in Lines : k # l => tell'[k] = tell[k] /\ lineSt'[k] = lineSt[k]
      /\ \A n \in Mgrs : lines'[n] = IF n = m THEN own ELSE lines[n]
  BY DEF OnTradingLineBroken, TradeOK, RequestsInv, TradeTyped
<1>2. /\ \A n \in Mgrs : \A k \in lines[n] : k \in Lines /\ MgrOf[k] = n
      /\ l \in lines[m] \/ m \in unheard
      /\ \A n \in Mgrs : OfferOf[n] # n /\ OfferOf[n] \in Mgrs \cup {NoMgr}
  BY <1>1 DEF RequestsInv, TradeTyped, LinesKnown, TradeOK
<1>3. l \notin lines[m] => UNCHANGED <<queue, working, notices>>
  BY DEF OnTradingLineBroken
<1>4. l \in lines[m] =>
        /\ \A n \in Mgrs : n # m => working'[n] = working[n]
        /\ notices' = notices \cup Askers(m)
        /\ \A n \in Mgrs : queue'[n] # <<>> => queue[n] # <<>>
        /\ IsSendable(m, own) \/ queue'[m] = <<>>
  BY <1>1 DEF OnTradingLineBroken, Notify, ClearReqQueue, RequestsInv, TradeTyped
<1>5. /\ notices \subseteq notices' /\ \A n \in Mgrs : queue'[n] # <<>> => queue[n] # <<>>
      /\ \A n \in Mgrs : n # m => working'[n] = working[n]
  BY <1>3, <1>4
<1>6. \A n \in Mgrs : Waits(n)' => Waits(n)
  BY <1>1, <1>5 DEF Waits
<1>7. \A n \in Mgrs : OfferOf[n] = m /\ Waits(n)' => l \notin lines[m]
  BY <1>4 DEF Waits, Askers
<1>8. ASSUME NEW n \in Mgrs PROVE LinesCannot(n)'
  <2> SUFFICES ASSUME queue'[n] # <<>>, loop'[n] = "none", flow'[n] = NoLine, NEW k \in lines'[n]
               PROVE  lineSt'[k] \in {"busy", "broken"} \/ tell'[k] = "ready"
    BY DEF LinesCannot
  <2>1. k \in lines[n] /\ k \in Lines /\ k # l
    BY <1>1, <1>2
  <2> QED
    BY <1>1, <1>5, <2>1 DEF WaitsInv, LinesCannot
<1>9. ASSUME NEW n \in Mgrs PROVE OfferCannot(n)'
  <2> DEFINE o == OfferOf[n]
  <2> SUFFICES ASSUME Waits(n)', o # NoMgr, o \notin unheard', lines'[o] # {}, ~OwnLineCalls(o)', working'[o] = NoRequest
               PROVE  FALSE
    BY DEF OfferCannot
  <2>1. o \in Mgrs /\ o \notin unheard /\ Waits(n)
    BY <1>1, <1>2, <1>6
  <2>2. o # m
    BY <1>2, <1>7, <2>1
  <2>3. lines'[o] = lines[o] /\ working[o] = NoRequest
    BY <1>1, <1>5, <2>1, <2>2
  <2>4. OwnLineCalls(o)
    BY <2>1, <2>3 DEF WaitsInv, OfferCannot
  <2>5. OwnLineCalls(o)'
    BY <1>1, <2>1, <2>2, <2>3, <2>4, CallsStay
  <2> QED
    BY <2>5
<1>10. ASSUME NEW n \in Mgrs PROVE SomeLine(n)'
  <2> DEFINE o == OfferOf[n]
  <2> SUFFICES ASSUME Waits(n)', lines'[n] = {}
               PROVE  o # NoMgr /\ (lines'[o] # {} \/ o \in unheard')
    BY DEF SomeLine
  <2>1. CASE lines[n] = {}
    <3>1. o # NoMgr /\ (lines[o] # {} \/ o \in unheard)
      BY <1>6, <2>1 DEF WaitsInv, SomeLine
    <3>2. CASE o = m
      <4>1. m \in unheard
        BY <1>2, <1>7, <3>2
      <4> QED
        BY <1>1, <3>1, <3>2, <4>1
    <3>3. CASE o # m
      BY <1>1, <1>2, <3>1, <3>3
    <3> QED
      BY <3>2, <3>3
  <2>2. CASE lines[n] # {}
    <3>1. n = m /\ own = {} /\ l \in lines[m]
      BY <1>1, <2>2
    <3>2. IsSendable(m, own)
      BY <1>4, <3>1 DEF Waits
    <3>3. o # NoMgr /\ lines[o] # {} /\ o \in Mgrs /\ o # m
      BY <1>2, <3>1, <3>2 DEF IsSendable
    <3> QED
      BY <1>1, <3>3
  <2> QED
    BY <2>1, <2>2
<1> QED
  BY <1>8, <1>9, <1>10 DEF WaitsInv

LEMMA WaitsStep == NotFor = {} /\ TradeOK /\ RequestsInv /\ WaitsInv /\ [TradeNext]_tradeVars => WaitsInv'
<1> SUFFICES ASSUME NotFor = {}, TradeOK, RequestsInv, WaitsInv, [TradeNext]_tradeVars PROVE WaitsInv'
  OBVIOUS
<1>1. ASSUME NEW m \in Mgrs, Goes(m) PROVE WaitsInv'
  BY <1>1, SendFrontWaits, TimerWaits, AskedWaits, DoneWaits DEF Goes
<1>2. ASSUME NEW m \in Mgrs, NEW r \in Requests, SendRequest(m, r) PROVE WaitsInv'
  BY <1>2, SendRequestWaits
<1>3. ASSUME NEW l \in Lines, Tells(l) \/ Connect(l) \/ Break(l) PROVE WaitsInv'
  BY <1>3, ReadyWaits, BrokenWaits, LinkWaits DEF Tells
<1>4. ASSUME NEW r \in Requests, Reject(r) PROVE WaitsInv'
  BY <1>4, NothingElse DEF Reject, lineVars
<1>5. CASE UNCHANGED tradeVars
  BY <1>5, NothingElse DEF tradeVars, lineVars
<1> QED
  BY <1>1, <1>2, <1>3, <1>4, <1>5 DEF TradeNext

LEMMA WaitsInit == TradeInit => WaitsInv
BY DEF TradeInit, WaitsInv, LinesCannot, OfferCannot, SomeLine, Waits

-----------------------------------------------------------------------------
(* Theorems *)

(* What each step of the managers keeps, for any managers, lines, offers and requests. *)
THEOREM TradingInvariant == TradeOK /\ TradeSpec => []RequestsInv
<1> SUFFICES ASSUME TradeOK PROVE TradeSpec => []RequestsInv
  OBVIOUS
<1>1. TradeInit => RequestsInv
  BY RequestsInit
<1>2. RequestsInv /\ [TradeNext]_tradeVars => RequestsInv'
  BY RequestsStep
<1> QED
  BY <1>1, <1>2, PTL DEF TradeSpec

LEMMA AtOnePlaceNow == TradeOK /\ RequestsInv => EachAtOnePlace
<1> SUFFICES ASSUME TradeOK, RequestsInv PROVE EachAtOnePlace
  OBVIOUS
<1>1. \A m \in Mgrs : queue[m] \in Seq(Requests) /\ came[m] \in Seq(Requests)
  BY DEF RequestsInv, TradeTyped
<1>2. \A m \in Mgrs : \A r \in Requests : r \in ToSet(queue[m]) <=> In(queue[m], r)
  BY <1>1 DEF ToSet, In
<1>3. \A r \in Requests : fate[r] = "queued" <=> \E m \in Mgrs : r \in ToSet(queue[m])
  BY <1>2 DEF RequestsInv, Ordered
<1>4. ASSUME NEW m \in Mgrs PROVE IsInjective(queue[m])
  <2> SUFFICES ASSUME NEW a \in 1 .. Len(queue[m]), NEW b \in 1 .. Len(queue[m]), queue[m][a] = queue[m][b], a < b PROVE FALSE
    BY <1>1 DEF IsInjective
  <2>1. queue[m][a] \in Requests /\ In(queue[m], queue[m][a])
    BY <1>1 DEF In
  <2>2. In(came[m], queue[m][a]) /\ InTheOrderOf(queue[m], came[m])
    BY <2>1 DEF RequestsInv, Ordered
  <2>3. PICK p \in 1 .. Len(came[m]) : came[m][p] = queue[m][a]
    BY <2>2 DEF In
  <2>4. p < p
    BY <2>2, <2>3 DEF InTheOrderOf
  <2> QED
    BY <2>4
<1>5. \A m, n \in Mgrs : m # n => ToSet(queue[m]) \cap ToSet(queue[n]) = {}
  <2> SUFFICES ASSUME NEW m \in Mgrs, NEW n \in Mgrs, m # n, NEW r \in ToSet(queue[m]), r \in ToSet(queue[n]) PROVE FALSE
    OBVIOUS
  <2>1. r \in Requests
    BY <1>1 DEF ToSet
  <2>2. In(came[m], r) /\ In(came[n], r)
    BY <1>2, <2>1 DEF RequestsInv, Ordered
  <2> QED
    BY <2>2 DEF RequestsInv, Ordered, In
<1> QED
  BY <1>3, <1>4, <1>5 DEF EachAtOnePlace, RequestsInv, SentBy

(* A request is in one queue once, with one line, or with the caller that rejects it; one
   sent for an asker is with the offer's line (TradingLineManager, LocalHelpOfferEvHandler1). *)
THEOREM RequestsAtOnePlace == TradeOK /\ TradeSpec => []EachAtOnePlace
<1> SUFFICES ASSUME TradeOK PROVE TradeSpec => []EachAtOnePlace
  OBVIOUS
<1>1. RequestsInv => EachAtOnePlace
  BY AtOnePlaceNow
<1>2. TradeSpec => []RequestsInv
  BY TradingInvariant
<1> QED
  BY <1>1, <1>2, PTL

LEMMA InOrderNow == RequestsInv => InOrder
<1> SUFFICES ASSUME RequestsInv PROVE InOrder
  OBVIOUS
<1>1. \A m \in Mgrs : DOMAIN came[m] = 1 .. Len(came[m])
  BY DEF RequestsInv, TradeTyped
<1> QED
  BY <1>1 DEF RequestsInv, Ordered, InOrder

(* A request that waits is not overtaken by a later one, whoever takes up the queue
   (TradingLineManager::SendRequest, TradingSvrImpl::SendReqQueue). *)
THEOREM RequestsInOrder == TradeOK /\ TradeSpec => []InOrder
BY TradingInvariant, InOrderNow, PTL

LEMMA SomeoneSendsNow == TradeOK /\ RequestsInv /\ WaitsInv => SomeoneWillSend
<1> SUFFICES ASSUME TradeOK, RequestsInv, WaitsInv, NEW m \in Mgrs, queue[m] # <<>>,
                    ~OwnLineCalls(m), ~OfferCalls(m), OfferOf[m] \notin unheard
             PROVE  FALSE
  BY DEF SomeoneWillSend
<1>1. Waits(m) /\ lines[m] = {}
  <2>1. Waits(m)
    BY DEF Waits, OwnLineCalls, OfferCalls
  <2> QED
    BY <2>1, LinesCall DEF Waits, WaitsInv
<1>2. OfferOf[m] # NoMgr /\ lines[OfferOf[m]] # {}
  BY <1>1 DEF WaitsInv, SomeLine
<1>3. OwnLineCalls(OfferOf[m]) \/ working[OfferOf[m]] # NoRequest
  BY <1>1, <1>2 DEF WaitsInv, OfferCannot
<1> QED
  BY <1>2, <1>3 DEF OfferCalls

(* When every line supports every request, a queue that is not empty is never left with
   nobody to send it: its manager or its offer hears of a line, a timer or an answer,
   unless the offer dropped a line unheard (OnTradingLineReady, OnTradingLineBroken,
   EmitOnTimer, NotifyToAsker). *)
THEOREM SomeoneAlwaysSends == TradeOK /\ NotFor = {} /\ TradeSpec => []SomeoneWillSend
<1> SUFFICES ASSUME TradeOK, NotFor = {} PROVE TradeSpec => []SomeoneWillSend
  OBVIOUS
<1>1. TradeInit => WaitsInv
  BY WaitsInit
<1>2. RequestsInv /\ WaitsInv /\ [TradeNext]_tradeVars => WaitsInv'
  BY WaitsStep
<1>3. RequestsInv /\ WaitsInv => SomeoneWillSend
  BY SomeoneSendsNow
<1>4. TradeSpec => []RequestsInv
  BY TradingInvariant
<1> QED
  BY <1>1, <1>2, <1>3, <1>4, PTL DEF TradeSpec

LEMMA HelpsOneNow == TradeOK /\ RequestsInv /\ [TradeNext]_tradeVars => [HelpsOne]_tradeVars
<1> SUFFICES ASSUME TradeOK, RequestsInv, TradeNext PROVE HelpsOne
  OBVIOUS
<1>1. ASSUME NEW m \in Mgrs, NEW r \in Requests, NEW x \in ByLinesOrHelper(m, r), Applied(m, r, x) PROVE HelpsOne
  <2>1. /\ x.helped => working' = [working EXCEPT ![OfferOf[m]] = r] /\ working[OfferOf[m]] = NoRequest
        /\ ~x.helped => working' = working
        /\ x.helped \in BOOLEAN
    BY <1>1, WhatApplied, ByLinesOrOffer DEF RequestsInv
  <2> QED
    BY <2>1 DEF HelpsOne, RequestsInv, TradeTyped
<1>2. ASSUME NEW m \in Mgrs, SendFront(m) PROVE HelpsOne
  <2>1. Head(queue[m]) \in Requests
    BY <1>2 DEF SendFront, RequestsInv, TradeTyped
  <2> QED
    BY <1>1, <1>2, <2>1 DEF SendFront
<1>3. ASSUME NEW m \in Mgrs, NEW r \in Requests, SendRequest(m, r) PROVE HelpsOne
  <2>1. UNCHANGED working \/ \E x \in ByLinesOrHelper(m, r) : Applied(m, r, x)
    BY <1>3 DEF SendRequest
  <2> QED
    BY <1>1, <2>1 DEF HelpsOne
<1>4. ASSUME NEW m \in Mgrs, EmitOnTimer(m) \/ SendReqQueue(m) \/ OnWorkingRequestDone(m) PROVE HelpsOne
  BY <1>4 DEF EmitOnTimer, SendReqQueue, OnWorkingRequestDone, HelpsOne, RequestsInv, TradeTyped
<1>5. ASSUME NEW l \in Lines, Tells(l) \/ Connect(l) \/ Break(l) PROVE HelpsOne
  <2>1. UNCHANGED working \/ working' = [working EXCEPT ![MgrOf[l]] = NoRequest]
    BY <1>5 DEF Tells, Connect, Break, BusyEnds, FlowEnds, LineStep, OnTradingLineReady, OnTradingLineBroken
  <2> QED
    BY <2>1 DEF HelpsOne, RequestsInv, TradeTyped
<1>6. ASSUME NEW r \in Requests, Reject(r) PROVE HelpsOne
  BY <1>6 DEF Reject, HelpsOne
<1> QED
  BY <1>2, <1>3, <1>4, <1>5, <1>6 DEF TradeNext, Goes

(* An offer that works for others takes no second request of theirs before the first is
   answered or its line is broken (LocalHelpOfferEvHandler1). *)
THEOREM HelpsOneRequest == TradeOK /\ TradeSpec => [][HelpsOne]_tradeVars
<1> SUFFICES ASSUME TradeOK PROVE TradeSpec => [][HelpsOne]_tradeVars
  OBVIOUS
<1>1. RequestsInv /\ [TradeNext]_tradeVars => [HelpsOne]_tradeVars
  BY HelpsOneNow
<1>2. TradeSpec => []RequestsInv
  BY TradingInvariant
<1> QED
  BY <1>1, <1>2, PTL DEF TradeSpec
=============================================================================
