---------------------------- MODULE ThreadProofs ----------------------------
(***************************************************************************)
(* For any number of threads and tasks: a pool takes its messages in order *)
(* and each once, none waits beside threads that all sleep, the one that   *)
(* ends the pool is told, and what was accepted is done when it returns.   *)
(*                                                                         *)
(* For any week, any day and any configuration: SchConfig::Check says what *)
(* the configuration means; a task that was disposed of is quiet, and its  *)
(* owner is told of changes only. Check is about numbers: a time is a day  *)
(* and a second of it, and all that counts of the days is which are on.    *)
(***************************************************************************)
EXTENDS ThreadPool, SchTask, WellFoundedInduction, FiniteSetTheorems, SequenceTheorems, TLAPS

(* A pool has a thread, the one that ends it is another, and a task is neither
   the barrier's nor nothing. *)
PoolOK ==
  /\ IsFiniteSet(Threads) /\ Threads # {} /\ Ender \notin Threads
  /\ Barrier \notin Tasks /\ Nothing \notin Tasks

Everyone == Threads \cup {Ender}
Places == {"ready", "wait", "task", "barrier", "ended"}
Messages == Tasks \cup {Barrier}
Alive == {w \in Threads : at[w] # "ended"}

-----------------------------------------------------------------------------
(* The invariant *)

Typed ==
  /\ state \in {"Idle", "ExecutingOrWaiting", "EndAfterWorkDone", "EndNow", "Terminated"}
  /\ queue \in Seq(Messages) /\ took \in Seq(Messages) /\ came \in Seq(Messages)
  /\ running \in Nat /\ latch \in 0 .. Cardinality(Threads)
  /\ at \in [Everyone -> Places] /\ hand \in [Threads -> Messages \cup {Nothing}]
  /\ asked \subseteq Tasks /\ done \subseteq Messages
  /\ plan \in {"quit", "now", "workdone"}
  /\ pc \in {"begin", "state", "post", "sleep", "end", "waiting", "join", "rest", "done"}

(* Who lives is counted; who sleeps when the pool ends is the one that ends it,
   while somebody is left to wake it. *)
Lives ==
  /\ state = "Idle" => pc = "begin" /\ running = 0 /\ \A x \in Everyone : at[x] = "ready"
  /\ state # "Idle" => running = Cardinality(Alive)
  /\ state \in Open => \A w \in Threads : at[w] # "ended"
  /\ state = "Terminated" => \A w \in Threads : at[w] = "ended"
  /\ state \notin Open => \A w \in Threads : at[w] # "wait"
  /\ at[Ender] \in {"ready", "wait", "barrier"}
  /\ at[Ender] = "wait" => pc = "waiting" /\ running > 0
  /\ pc \in {"waiting", "join", "rest", "done"} => state \notin Open
  /\ pc \in {"rest", "done"} => \A w \in Threads : at[w] = "ended"
  /\ state = "EndNow" => ExitHandler \/ plan = "now"

(* Where a task is: it came once, and what was taken is in one hand or done. *)
Once ==
  /\ came = took \o queue
  /\ \A i \in 1 .. Len(came) : came[i] \in asked \cup {Barrier}
  /\ \A i, j \in 1 .. Len(came) : came[i] \in Tasks /\ came[i] = came[j] => i = j

InOneHand ==
  /\ \A w \in Threads : hand[w] # Nothing <=> at[w] = "task"
  /\ \A i \in 1 .. Len(took) : took[i] \in InHand \cup done \cup {Barrier}
  /\ \A w \in Threads : hand[w] # Nothing => \E i \in 1 .. Len(took) : took[i] = hand[w]
  /\ \A t \in done : \E i \in 1 .. Len(took) : took[i] = t
  /\ \A v, w \in Threads : v # w /\ hand[v] \in Tasks => hand[v] # hand[w]
  /\ \A w \in Threads : hand[w] \in Tasks => hand[w] \notin done
  /\ pc \notin {"rest", "done"} => Barrier \notin done

(* A thread that ends without haste leaves nothing, and after the end the rest
   is handled. *)
NothingLeft ==
  /\ (\E w \in Threads : at[w] = "ended") /\ ~ExitHandler /\ plan # "now" => queue = <<>>
  /\ pc = "done" /\ plan # "workdone" => queue = <<>>

Inv == Typed /\ Lives /\ Once /\ InOneHand /\ NothingLeft /\ NobodySleepsBesideWork

-----------------------------------------------------------------------------
(* What the helpers do to the threads *)

(* AllWoken leaves nobody asleep, and the others where they are. *)
LEMMA WokenAre ==
  ASSUME Typed
  PROVE  /\ AllWoken \in [Everyone -> Places]
         /\ \A x \in Everyone : AllWoken[x] = IF at[x] = "wait" THEN "ready" ELSE at[x]
BY DEF Typed, AllWoken, Places

(* At the barrier one stays, or all go on. *)
LEMMA Arriving ==
  ASSUME PoolOK, Typed, NEW x \in Everyone, Arrive(x)
  PROVE  /\ at' \in [Everyone -> Places] /\ latch' \in 0 .. Cardinality(Threads)
         /\ at'[x] \in {"barrier", "ready"}
         /\ \A y \in Everyone : y # x => at'[y] = at[y] \/ (at[y] = "barrier" /\ at'[y] = "ready")
<1>1. Cardinality(Threads) \in Nat
  BY FS_CardinalityType DEF PoolOK
<1>2. CASE latch + 1 < Cardinality(Threads) + 1
  BY <1>1, <1>2 DEF Arrive, Typed, Places
<1>3. CASE ~(latch + 1 < Cardinality(Threads) + 1)
  BY <1>1, <1>3 DEF Arrive, Typed, Places
<1> QED
  BY <1>2, <1>3

(* A message that is taken in is the last; one sleeper may be woken for it. *)
LEMMA TakenIn ==
  ASSUME Typed, NEW m \in Messages, EmplaceMessage(m)
  PROVE  /\ at' \in [Everyone -> Places] /\ queue' \in Seq(Messages) /\ came' \in Seq(Messages)
         /\ \A x \in Everyone : at'[x] = at[x] \/ (at[x] = "wait" /\ at'[x] = "ready")
         /\ state \in Open => queue' = Append(queue, m) /\ came' = Append(came, m)
         /\ state \notin Open => queue' = queue /\ came' = came /\ at' = at
<1>1. CASE state \notin Open
  BY <1>1 DEF EmplaceMessage, Typed
<1>2. CASE state \in Open
  <2>1. queue' = Append(queue, m) /\ came' = Append(came, m) /\ CheckNotify
    BY <1>2 DEF EmplaceMessage
  <2>2. queue' \in Seq(Messages) /\ came' \in Seq(Messages)
    BY <2>1 DEF Typed
  <2>3. at' = at \/ \E x \in Waiting : at' = [at EXCEPT ![x] = "ready"]
    BY <2>1 DEF CheckNotify, NotifyOne
  <2>4. /\ at' \in [Everyone -> Places]
        /\ \A x \in Everyone : at'[x] = at[x] \/ (at[x] = "wait" /\ at'[x] = "ready")
    <3>1. CASE at' = at
      BY <3>1 DEF Typed
    <3>2. CASE \E x \in Waiting : at' = [at EXCEPT ![x] = "ready"]
      BY <3>2 DEF Typed, Waiting, Places
    <3> QED
      BY <2>3, <3>1, <3>2
  <2> QED
    BY <1>2, <2>1, <2>2, <2>4
<1> QED
  BY <1>1, <1>2

(* A thread that ends is one less, and the last one wakes who sleeps. *)
LEMMA Leaving ==
  ASSUME PoolOK, Typed, Lives, NEW w \in Threads, EndThread(w)
  PROVE  /\ running \in Nat \ {0} /\ running - 1 \in Nat /\ running - 1 = Cardinality(Alive')
         /\ running = 1 => Alive' = {}
         /\ at' \in [Everyone -> Places] /\ at'[w] = "ended"
         /\ \A x \in Everyone : x # w => at'[x] = at[x] \/ (at[x] = "wait" /\ at'[x] = "ready")
         /\ running = 1 => \A x \in Everyone : at'[x] # "wait"
<1>1. /\ AllWoken \in [Everyone -> Places]
      /\ \A x \in Everyone : AllWoken[x] = IF at[x] = "wait" THEN "ready" ELSE at[x]
  BY WokenAre
<1>2. at' = [(IF running = 1 THEN AllWoken ELSE at) EXCEPT ![w] = "ended"] /\ w \in Everyone
  BY DEF EndThread, Everyone
<1>3. /\ at' \in [Everyone -> Places] /\ at'[w] = "ended"
      /\ \A x \in Everyone : x # w => at'[x] = at[x] \/ (at[x] = "wait" /\ at'[x] = "ready")
      /\ running = 1 => \A x \in Everyone : at'[x] # "wait"
  <2>1. CASE running = 1
    BY <1>1, <1>2, <2>1 DEF Places
  <2>2. CASE running # 1
    BY <1>1, <1>2, <2>2 DEF Places, Typed
  <2> QED
    BY <2>1, <2>2
<1>4. w \in Alive /\ running = Cardinality(Alive) /\ IsFiniteSet(Alive)
  <2>1. at[w] = "ready" /\ state # "Idle"
    BY DEF EndThread
  <2> QED
    BY <2>1, FS_Subset DEF Lives, Alive, PoolOK
<1>5. Alive' = Alive \ {w}
  BY <1>3 DEF Alive, Everyone
<1>6. Cardinality(Alive \ {w}) = running - 1 /\ running \in Nat /\ Cardinality(Alive \ {w}) \in Nat
      /\ IsFiniteSet(Alive \ {w})
  BY <1>4, FS_RemoveElement, FS_CardinalityType
<1>7. running = 1 => Alive' = {}
  BY <1>5, <1>6, FS_EmptySet
<1> QED
  BY <1>3, <1>5, <1>6, <1>7

-----------------------------------------------------------------------------
(* Types *)

LEMMA InitTyped == PoolOK /\ Init => Typed
<1> SUFFICES ASSUME PoolOK, Init PROVE Typed
  OBVIOUS
<1>1. Cardinality(Threads) \in Nat
  BY FS_CardinalityType DEF PoolOK
<1> QED
  BY <1>1 DEF Init, Typed, Everyone, Places

LEMMA TypedStep ==
  ASSUME PoolOK, Typed, Lives, InOneHand, [Next]_poolVars
  PROVE  Typed'
<1>0. Cardinality(Threads) \in Nat
  BY FS_CardinalityType DEF PoolOK
<1>1. CASE StartThread
  BY <1>0, <1>1 DEF StartThread, Typed, endVars
<1>2. ASSUME NEW t \in Tasks, AddTask(t) PROVE Typed'
  <2>1. EmplaceMessage(t) /\ t \in Messages
    BY <1>2 DEF AddTask, Messages
  <2> QED
    BY <1>2, <2>1, TakenIn DEF AddTask, Typed, endVars
<1>3. ASSUME NEW x \in Everyone, Wakes(x) PROVE Typed'
  BY <1>3 DEF Wakes, Typed, Places, endVars
<1>4. ASSUME NEW w \in Threads, Take(w) PROVE Typed'
  <2>1. Head(queue) \in Messages /\ Tail(queue) \in Seq(Messages) /\ Append(took, Head(queue)) \in Seq(Messages)
    BY <1>4 DEF Take, Typed
  <2>2. [at EXCEPT ![w] = "task"] \in [Everyone -> Places]
    BY DEF Typed, Places
  <2>3. [hand EXCEPT ![w] = Head(queue)] \in [Threads -> Messages \cup {Nothing}]
    BY <2>1 DEF Typed
  <2> QED
    BY <1>4, <2>1, <2>2, <2>3 DEF Take, Typed, endVars
<1>5. ASSUME NEW w \in Threads, Wait(w) PROVE Typed'
  BY <1>5 DEF Wait, Typed, Places, endVars
<1>6. ASSUME NEW w \in Threads, EndThread(w) PROVE Typed'
  <2>1. at' \in [Everyone -> Places] /\ running - 1 \in Nat
    BY <1>6, Leaving
  <2> QED
    BY <1>6, <2>1 DEF EndThread, Typed, endVars
<1>7. ASSUME NEW w \in Threads, OnMessage(w) PROVE Typed'
  <2>1. [hand EXCEPT ![w] = Nothing] \in [Threads -> Messages \cup {Nothing}]
    BY DEF Typed
  <2>2. CASE hand[w] = Barrier
    <3>1. at' \in [Everyone -> Places] /\ latch' \in 0 .. Cardinality(Threads) /\ done' = done
      BY <1>7, <2>2, Arriving DEF OnMessage, Everyone
    <3> QED
      BY <1>7, <2>1, <3>1 DEF OnMessage, Typed, endVars
  <2>3. CASE hand[w] # Barrier
    <3>1. /\ at' = [at EXCEPT ![w] = "ready"] /\ latch' = latch /\ done' = done \cup {hand[w]}
          /\ at[w] = "task"
      BY <1>7, <2>3 DEF OnMessage
    <3>2. at' \in [Everyone -> Places]
      BY <3>1 DEF Typed, Places
    <3>3. hand[w] \in Messages
      BY <3>1 DEF Typed, InOneHand
    <3> QED
      BY <1>7, <2>1, <3>1, <3>2, <3>3 DEF OnMessage, Typed, endVars
  <2> QED
    BY <2>2, <2>3
<1>8. CASE BeginEnd
  BY <1>8, WokenAre DEF BeginEnd, EnderAt, Typed
<1>9. CASE CheckState \/ RoundEnds
  BY <1>9 DEF CheckState, RoundEnds, NextRound, Typed
<1>10. CASE PostBarrier
  <2>1. EmplaceMessage(Barrier) /\ Barrier \in Messages
    BY <1>10 DEF PostBarrier, Messages
  <2> QED
    BY <1>10, <2>1, TakenIn DEF PostBarrier, Typed
<1>11. CASE WaitBarrier
  <2>1. Arrive(Ender) /\ Ender \in Everyone
    BY <1>11 DEF WaitBarrier, Everyone
  <2> QED
    BY <1>11, <2>1, Arriving DEF WaitBarrier, Typed
<1>12. CASE WaitForEnd
  <2>1. at' \in [Everyone -> Places] /\ pc' \in {"join", "waiting"}
    BY <1>12, WokenAre DEF WaitForEnd, Places
  <2>2. state' \in {"Idle", "ExecutingOrWaiting", "EndAfterWorkDone", "EndNow", "Terminated"}
    BY <1>12 DEF WaitForEnd, NotifyForEnd, Typed
  <2> QED
    BY <1>12, <2>1, <2>2 DEF WaitForEnd, Typed
<1>13. CASE WaitsOn
  BY <1>13 DEF WaitsOn, Typed, Places
<1>14. CASE WaitThreadJoin
  BY <1>14 DEF WaitThreadJoin, Typed
<1>15. CASE HandleRest
  <2>1. CASE queue = <<>>
    BY <1>15, <2>1 DEF HandleRest, Typed
  <2>2. CASE queue # <<>>
    <3>1. Head(queue) \in Messages /\ Tail(queue) \in Seq(Messages) /\ Append(took, Head(queue)) \in Seq(Messages)
      BY <2>2 DEF Typed
    <3> QED
      BY <1>15, <2>2, <3>1 DEF HandleRest, Typed
  <2> QED
    BY <2>1, <2>2
<1>16. CASE NotifyForEndNow
  BY <1>16, WokenAre DEF NotifyForEndNow, NotifyForEnd, Typed, endVars
<1>17. CASE UNCHANGED poolVars
  BY <1>17 DEF poolVars, Typed
<1> QED
  BY <1>1, <1>2, <1>3, <1>4, <1>5, <1>6, <1>7, <1>8, <1>9, <1>10, <1>11, <1>12, <1>13, <1>14, <1>15, <1>16, <1>17
     DEF Next, Works, Ends, Everyone

-----------------------------------------------------------------------------
(* Who lives *)

LEMMA InitLives == PoolOK /\ Init => Lives
<1> SUFFICES ASSUME PoolOK, Init PROVE Lives
  OBVIOUS
<1>1. /\ state = "Idle" /\ running = 0 /\ pc = "begin" /\ at[Ender] = "ready"
      /\ \A x \in Everyone : at[x] = "ready"
  BY DEF Init, Everyone
<1>2. \A w \in Threads : at[w] = "ready"
  BY <1>1 DEF Everyone
<1> QED
  BY <1>1, <1>2 DEF Lives, Open

(* Who was at its end is, and who was not is not. *)
LEMMA SameAlive ==
  ASSUME \A w \in Threads : at'[w] = "ended" <=> at[w] = "ended"
  PROVE  Alive' = Alive
BY DEF Alive

LEMMA LivesStep ==
  ASSUME PoolOK, Typed, Lives, InOneHand, [Next]_poolVars
  PROVE  Lives'
<1> USE DEF Open
<1>0. Ender \notin Threads /\ \A w \in Threads : w \in Everyone /\ w # Ender
  BY DEF PoolOK, Everyone
<1>1. CASE StartThread
  <2>1. at' = at /\ pc' = pc /\ plan' = plan /\ running' = Cardinality(Threads) /\ state' = "ExecutingOrWaiting"
        /\ state = "Idle"
    BY <1>1 DEF StartThread, endVars
  <2>2. (\A x \in Everyone : at[x] = "ready") /\ pc = "begin"
    BY <2>1 DEF Lives
  <2>3. Alive' = Threads
    BY <2>1, <2>2, <1>0 DEF Alive
  <2> QED
    BY <2>1, <2>2, <2>3, <1>0 DEF Lives, Everyone
<1>2. ASSUME NEW m \in Messages, EmplaceMessage(m), UNCHANGED <<state, running, plan, pc>>
      PROVE  Lives'
  <2>1. \A x \in Everyone : at'[x] = at[x] \/ (at[x] = "wait" /\ at'[x] = "ready")
    BY <1>2, TakenIn
  <2>2. Alive' = Alive
    BY <1>0, <2>1, SameAlive
  <2> QED
    BY <1>0, <1>2, <2>1, <2>2 DEF Lives, Everyone
<1>3. ASSUME NEW x \in Everyone, Wakes(x) PROVE Lives'
  <2>1. /\ at[x] = "wait" /\ at' = [at EXCEPT ![x] = "ready"] /\ UNCHANGED <<state, running, plan, pc>>
        /\ at \in [Everyone -> Places]
    BY <1>3 DEF Wakes, endVars, Typed
  <2>2. \A y \in Everyone : at'[y] = at[y] \/ (at[y] = "wait" /\ at'[y] = "ready")
    BY <2>1
  <2>3. Alive' = Alive
    BY <1>0, <2>2, SameAlive
  <2> QED
    BY <1>0, <2>1, <2>2, <2>3 DEF Lives, Everyone
<1>4. ASSUME NEW w \in Threads, Take(w) \/ Wait(w) PROVE Lives'
  <2>1. /\ at[w] = "ready" /\ state \in {"ExecutingOrWaiting", "EndAfterWorkDone"}
        /\ at' = [at EXCEPT ![w] = "task"] \/ (at' = [at EXCEPT ![w] = "wait"] /\ state = "ExecutingOrWaiting")
        /\ UNCHANGED <<state, running, plan, pc>> /\ at \in [Everyone -> Places]
    BY <1>4 DEF Take, Wait, endVars, Typed
  <2>2. (\A y \in Everyone : y # w => at'[y] = at[y]) /\ at'[w] \in {"task", "wait"}
        /\ (at'[w] = "wait" => state = "ExecutingOrWaiting")
    BY <1>0, <2>1
  <2>3. Alive' = Alive
    BY <1>0, <2>1, <2>2, SameAlive
  <2>4. ~(\A v \in Threads : at[v] = "ended")
    BY <2>1
  <2>5. at'[Ender] = at[Ender]
    BY <1>0, <2>2 DEF Everyone
  <2> QED
    BY <1>0, <2>1, <2>2, <2>3, <2>4, <2>5 DEF Lives
<1>5. ASSUME NEW w \in Threads, EndThread(w) PROVE Lives'
  <2>1. /\ running \in Nat \ {0} /\ running - 1 \in Nat /\ running - 1 = Cardinality(Alive')
        /\ running = 1 => Alive' = {}
        /\ at'[w] = "ended"
        /\ \A x \in Everyone : x # w => at'[x] = at[x] \/ (at[x] = "wait" /\ at'[x] = "ready")
        /\ running = 1 => \A x \in Everyone : at'[x] # "wait"
    BY <1>5, Leaving
  <2>2. /\ state \in {"EndNow", "EndAfterWorkDone"} /\ at[w] = "ready" /\ running' = running - 1
        /\ state' = IF running = 1 THEN "Terminated" ELSE state
        /\ plan' = plan /\ pc' = pc
    BY <1>5 DEF EndThread, endVars
  <2>3. running = 1 => \A v \in Threads : at'[v] = "ended"
    BY <2>1 DEF Alive
  <2>4. at'[Ender] = at[Ender] \/ at'[Ender] = "ready"
    BY <1>0, <2>1 DEF Everyone
  <2>5. at'[Ender] = "wait" => at[Ender] = "wait" /\ running # 1
    BY <2>1, <2>4 DEF Everyone
  <2>6. pc \notin {"rest", "done"}
    BY <2>2 DEF Lives
  <2>7. \A v \in Threads : at[v] # "wait" /\ at'[v] # "wait"
    BY <1>0, <2>1, <2>2 DEF Lives
  <2> QED
    BY <2>1, <2>2, <2>3, <2>4, <2>5, <2>6, <2>7 DEF Lives
<1>6. ASSUME NEW w \in Threads, OnMessage(w) PROVE Lives'
  <2>1. at[w] = "task" /\ UNCHANGED <<state, running, plan, pc>>
    BY <1>6 DEF OnMessage, endVars
  <2>2. /\ at'[w] \in {"barrier", "ready"}
        /\ \A y \in Everyone : y # w => at'[y] = at[y] \/ (at[y] = "barrier" /\ at'[y] = "ready")
    <3>1. CASE hand[w] = Barrier
      BY <1>0, <1>6, <3>1, Arriving DEF OnMessage
    <3>2. CASE hand[w] # Barrier
      BY <1>0, <1>6, <3>2 DEF OnMessage, Typed
    <3> QED
      BY <3>1, <3>2
  <2>3. Alive' = Alive
    BY <1>0, <2>1, <2>2, SameAlive
  <2>4. state # "Idle"
    BY <1>0, <2>1 DEF Lives
  <2> QED
    BY <1>0, <2>1, <2>2, <2>3, <2>4 DEF Lives, Everyone
<1>7. CASE BeginEnd
  <2>1. /\ \A x \in Everyone : at'[x] = at[x] \/ (at[x] = "wait" /\ at'[x] = "ready")
        /\ state # "Idle" /\ pc' \in {"state", "end"} /\ pc = "begin" /\ UNCHANGED <<state, running, plan>>
        /\ at[Ender] = "ready"
    BY <1>7, WokenAre DEF BeginEnd, EnderAt
  <2>2. Alive' = Alive
    BY <1>0, <2>1, SameAlive
  <2> QED
    BY <1>0, <2>1, <2>2 DEF Lives, Everyone
<1>8. CASE CheckState \/ RoundEnds \/ WaitThreadJoin \/ HandleRest
  <2>1. /\ UNCHANGED <<state, running, at, plan>> /\ at[Ender] = "ready" /\ pc # "begin"
        /\ pc' \in {"join", "rest", "done"} => pc \in {"join", "rest"}
        /\ pc' \in {"rest", "done"} => pc = "rest" \/ \A w \in Threads : at[w] = "ended"
        /\ pc' # "waiting"
    BY <1>8 DEF CheckState, RoundEnds, WaitThreadJoin, HandleRest, EnderAt, NextRound
  <2>2. Alive' = Alive
    BY <2>1, SameAlive
  <2> QED
    BY <2>1, <2>2 DEF Lives
<1>9. CASE WaitBarrier
  <2>1. /\ at'[Ender] \in {"barrier", "ready"}
        /\ \A y \in Everyone : y # Ender => at'[y] = at[y] \/ (at[y] = "barrier" /\ at'[y] = "ready")
    BY <1>9, Arriving DEF WaitBarrier, Everyone
  <2>2. UNCHANGED <<state, running, plan>> /\ pc = "post" /\ pc' = "sleep"
    BY <1>9 DEF WaitBarrier, EnderAt
  <2>3. Alive' = Alive
    BY <1>0, <2>1, SameAlive
  <2> QED
    BY <1>0, <2>1, <2>2, <2>3 DEF Lives, Everyone
<1>10. CASE WaitForEnd
  <2>1. /\ pc = "end" /\ at[Ender] = "ready" /\ running' = running /\ plan' = plan
        /\ state' = IF state = "ExecutingOrWaiting" THEN (IF plan = "now" THEN "EndNow" ELSE "EndAfterWorkDone") ELSE state
        /\ \/ running = 0 /\ pc' = "join" /\ at' = AllWoken
           \/ running # 0 /\ pc' = "waiting" /\ at' = [AllWoken EXCEPT ![Ender] = "wait"]
    BY <1>10 DEF WaitForEnd, EnderAt, NotifyForEnd
  <2>2. /\ \A w \in Threads : at'[w] # "wait" /\ (at'[w] = at[w] \/ (at[w] = "wait" /\ at'[w] = "ready"))
        /\ at'[Ender] = IF running = 0 THEN "ready" ELSE "wait"
    <3>1. /\ AllWoken \in [Everyone -> Places] /\ Ender \in Everyone
          /\ \A x \in Everyone : AllWoken[x] = IF at[x] = "wait" THEN "ready" ELSE at[x]
      BY WokenAre DEF Everyone
    <3> QED
      BY <1>0, <2>1, <3>1
  <2>3. Alive' = Alive
    BY <2>2, SameAlive
  <2>4. state # "Idle" /\ state' # "Idle" /\ state' \notin Open /\ running \in Nat
    BY <2>1 DEF Lives, Typed
  <2> QED
    BY <2>1, <2>2, <2>3, <2>4 DEF Lives
<1>11. CASE WaitsOn
  <2>1. /\ pc = "waiting" /\ at[Ender] = "ready" /\ UNCHANGED <<state, running, plan>> /\ Ender \in Everyone
        /\ \/ running = 0 /\ pc' = "join" /\ at' = at
           \/ running # 0 /\ pc' = pc /\ at' = [at EXCEPT ![Ender] = "wait"]
    BY <1>11 DEF WaitsOn, EnderAt, Everyone
  <2>2. /\ \A w \in Threads : at'[w] = at[w]
        /\ at'[Ender] = IF running = 0 THEN "ready" ELSE "wait"
    BY <1>0, <2>1 DEF Typed
  <2>3. Alive' = Alive
    BY <2>2, SameAlive
  <2>4. state # "Idle" /\ running \in Nat
    BY <2>1 DEF Lives, Typed
  <2> QED
    BY <2>1, <2>2, <2>3, <2>4 DEF Lives
<1>12. CASE NotifyForEndNow
  <2>1. /\ \A x \in Everyone : at'[x] = IF at[x] = "wait" THEN "ready" ELSE at[x]
        /\ ExitHandler /\ state = "ExecutingOrWaiting" /\ state' = "EndNow" /\ UNCHANGED <<running, plan, pc>>
    BY <1>12, WokenAre DEF NotifyForEndNow, NotifyForEnd, endVars
  <2>2. Alive' = Alive
    BY <1>0, <2>1, SameAlive
  <2> QED
    BY <1>0, <2>1, <2>2 DEF Lives, Everyone
<1>13. CASE UNCHANGED poolVars
  BY <1>13 DEF poolVars, Lives, Alive
<1>14. CASE \E t \in Tasks : AddTask(t)
  BY <1>2, <1>14 DEF AddTask, endVars, Messages
<1>15. CASE PostBarrier
  BY <1>2, <1>15 DEF PostBarrier, Messages
<1> QED
  BY <1>1, <1>3, <1>4, <1>5, <1>6, <1>7, <1>8, <1>9, <1>10, <1>11, <1>12, <1>13, <1>14, <1>15
     DEF Next, Works, Ends, Everyone

-----------------------------------------------------------------------------
(* The messages *)

LEMMA InitMessages == PoolOK /\ Init => Once /\ InOneHand /\ NothingLeft
<1> SUFFICES ASSUME PoolOK, Init PROVE Once /\ InOneHand /\ NothingLeft
  OBVIOUS
<1>1. /\ came = <<>> /\ took = <<>> /\ queue = <<>> /\ done = {} /\ pc = "begin"
      /\ \A w \in Threads : hand[w] = Nothing /\ at[w] = "ready"
  BY DEF Init
<1>2. <<>> \o <<>> = <<>> /\ Len(<<>>) = 0
  OBVIOUS
<1> QED
  BY <1>1, <1>2 DEF Once, InOneHand, NothingLeft, PoolOK

(* A message behind the others. *)
LEMMA Behind ==
  ASSUME NEW S, NEW q \in Seq(S), NEW m \in S
  PROVE  /\ Append(q, m) \in Seq(S) /\ Len(Append(q, m)) = Len(q) + 1 /\ Append(q, m)[Len(q) + 1] = m
         /\ \A i \in 1 .. Len(q) : Append(q, m)[i] = q[i]
OBVIOUS

(* The first message of a queue comes behind what was taken. *)
LEMMA FirstIsNext ==
  ASSUME NEW S, NEW r \in Seq(S), NEW q \in Seq(S), q # <<>>
  PROVE  /\ r \o q = Append(r, Head(q)) \o Tail(q)
         /\ Len(r) + 1 \in 1 .. Len(r \o q) /\ (r \o q)[Len(r) + 1] = Head(q)
         /\ \A i \in 1 .. Len(r) : i \in 1 .. Len(r \o q) /\ (r \o q)[i] = r[i]
         /\ Len(Tail(q)) = Len(q) - 1 /\ Head(q) \in S /\ Tail(q) \in Seq(S)
         /\ Len(q) \in Nat \ {0} /\ Len(r) \in Nat
OBVIOUS

LEMMA OnceStep ==
  ASSUME PoolOK, Typed, Once, [Next]_poolVars
  PROVE  Once'
<1>0. queue \in Seq(Messages) /\ took \in Seq(Messages) /\ came \in Seq(Messages) /\ Barrier \notin Tasks
  BY DEF Typed, PoolOK
<1>1. ASSUME NEW m \in Messages, EmplaceMessage(m), took' = took,
             m = Barrier \/ m \notin asked, asked' = asked \cup ({m} \ {Barrier})
      PROVE  Once'
  <2>1. CASE state \notin Open
    BY <1>1, <2>1, TakenIn DEF Once
  <2>2. CASE state \in Open
    <3>1. queue' = Append(queue, m) /\ came' = Append(came, m)
      BY <1>1, <2>2, TakenIn
    <3>2. came' = took \o queue'
      <4>1. Append(took \o queue, m) = took \o Append(queue, m)
        <5>1. m \in Messages /\ queue \in Seq(Messages) /\ took \in Seq(Messages)
          BY <1>0, <1>1
        <5> QED
          BY ONLY <5>1, SMTT(30)
      <4> QED
        BY <3>1, <4>1 DEF Once
    <3>3. /\ Len(came') = Len(came) + 1 /\ came'[Len(came) + 1] = m /\ Len(came) \in Nat
          /\ \A i \in 1 .. Len(came) : came'[i] = came[i]
      BY <1>0, <3>1, Behind
    <3>4. \A i \in 1 .. Len(came') : i = Len(came) + 1 \/ i \in 1 .. Len(came)
      BY <3>3
    <3>5. \A i \in 1 .. Len(came') : came'[i] \in asked' \cup {Barrier}
      BY <1>1, <3>3, <3>4 DEF Once
    <3>6. ASSUME NEW i \in 1 .. Len(came'), NEW j \in 1 .. Len(came'), came'[i] \in Tasks, came'[i] = came'[j]
          PROVE  i = j
      <4>1. \A k \in 1 .. Len(came) : came[k] \in asked \cup {Barrier}
        BY DEF Once
      <4>2. CASE i \in 1 .. Len(came) /\ j \in 1 .. Len(came)
        BY <3>3, <3>6, <4>2 DEF Once
      <4>3. CASE m = Barrier
        BY <1>0, <3>3, <3>4, <3>6, <4>2, <4>3
      <4>4. CASE m # Barrier
        <5>1. m \notin asked
          BY <1>1, <4>4
        <5> QED
          BY <3>3, <3>4, <3>6, <4>1, <4>2, <4>4, <5>1
      <4> QED
        BY <4>3, <4>4
    <3> QED
      BY <1>1, <3>2, <3>5, <3>6 DEF Once
  <2> QED
    BY <2>1, <2>2
<1>2. ASSUME queue # <<>>, queue' = Tail(queue), took' = Append(took, Head(queue)), UNCHANGED <<came, asked>>
      PROVE  Once'
  <2>1. took \o queue = Append(took, Head(queue)) \o Tail(queue)
    BY <1>0, <1>2
  <2>2. came' = took' \o queue'
    <3>1. came = took \o queue
      BY DEF Once
    <3> QED
      BY ONLY <1>2, <2>1, <3>1
  <2>3. /\ \A i \in 1 .. Len(came) : came[i] \in asked \cup {Barrier}
        /\ \A i, j \in 1 .. Len(came) : came[i] \in Tasks /\ came[i] = came[j] => i = j
    BY DEF Once
  <2>4. came' = came /\ asked' = asked
    BY <1>2
  <2> QED
    BY ONLY <2>2, <2>3, <2>4 DEF Once
<1>3. ASSUME UNCHANGED <<queue, took, came, asked>>
      PROVE  Once'
  BY <1>3 DEF Once
<1>4. CASE \E t \in Tasks : AddTask(t)
  <2>1. PICK t \in Tasks : AddTask(t)
    BY <1>4
  <2>2. t \notin asked /\ asked' = asked \cup {t} /\ EmplaceMessage(t) /\ took' = took /\ t # Barrier
    BY <1>0, <2>1 DEF AddTask
  <2> QED
    BY <1>1, <2>2 DEF Messages
<1>5. CASE PostBarrier
  BY <1>1, <1>5 DEF PostBarrier, Messages
<1>6. CASE \E w \in Threads : Take(w)
  BY <1>2, <1>6 DEF Take
<1>7. CASE HandleRest
  BY <1>2, <1>3, <1>7 DEF HandleRest
<1>8. CASE \E w \in Threads : Wait(w) \/ EndThread(w) \/ OnMessage(w)
  BY <1>3, <1>8 DEF Wait, EndThread, OnMessage, endVars
<1>9. CASE StartThread \/ NotifyForEndNow \/ \E x \in Everyone : Wakes(x)
  BY <1>3, <1>9 DEF StartThread, NotifyForEndNow, Wakes, endVars
<1>10. CASE BeginEnd \/ CheckState \/ RoundEnds \/ WaitBarrier \/ WaitForEnd \/ WaitsOn \/ WaitThreadJoin
  BY <1>3, <1>10 DEF BeginEnd, CheckState, RoundEnds, WaitBarrier, WaitForEnd, WaitsOn, WaitThreadJoin
<1>11. CASE UNCHANGED poolVars
  BY <1>3, <1>11 DEF poolVars
<1> QED
  BY <1>4, <1>5, <1>6, <1>7, <1>8, <1>9, <1>10, <1>11 DEF Next, Works, Ends, Everyone

LEMMA InOneHandStep ==
  ASSUME PoolOK, Typed, Lives, Once, InOneHand, [Next]_poolVars
  PROVE  InOneHand'
<1>0. /\ Ender \notin Threads /\ \A w \in Threads : w \in Everyone /\ w # Ender
      /\ Barrier \notin Tasks /\ Nothing \notin Tasks /\ Nothing # Barrier /\ Nothing \notin Messages
      /\ queue \in Seq(Messages) /\ took \in Seq(Messages)
      /\ at \in [Everyone -> Places] /\ hand \in [Threads -> Messages \cup {Nothing}]
  BY DEF PoolOK, Everyone, Messages, Barrier, Nothing, Typed
<1>1. ASSUME UNCHANGED <<hand, took, done>>, pc \notin {"rest", "done"} \/ pc' \in {"rest", "done"},
             \A w \in Threads : at'[w] = "task" <=> at[w] = "task"
      PROVE  InOneHand'
  <2>1. InHand' = InHand
    BY <1>1 DEF InHand
  <2> QED
    BY <1>1, <2>1 DEF InOneHand
<1>2. ASSUME \A x \in Everyone : at'[x] = at[x] \/ (at[x] = "wait" /\ at'[x] = "ready"),
             UNCHANGED <<hand, took, done>>, pc \notin {"rest", "done"}
      PROVE  InOneHand'
  <2>1. \A w \in Threads : at'[w] = "task" <=> at[w] = "task"
    BY <1>0, <1>2
  <2> QED
    BY <1>1, <1>2, <2>1
<1>3. ASSUME NEW m \in Messages, EmplaceMessage(m), UNCHANGED <<hand, took, done, pc>>
      PROVE  InOneHand'
  <2>1. \A x \in Everyone : at'[x] = at[x] \/ (at[x] = "wait" /\ at'[x] = "ready")
    BY <1>3, TakenIn
  <2>2. \A w \in Threads : at'[w] = "task" <=> at[w] = "task"
    BY <1>0, <2>1
  <2> QED
    BY <1>1, <1>3, <2>2
<1>4. ASSUME NEW w \in Threads, Take(w) PROVE InOneHand'
  <2> DEFINE m == Head(queue)
             n == Len(took)
  <2>1. /\ at[w] = "ready" /\ queue # <<>> /\ took' = Append(took, m)
        /\ hand' = [hand EXCEPT ![w] = m] /\ at' = [at EXCEPT ![w] = "task"]
        /\ done' = done /\ pc' = pc
    BY <1>4 DEF Take, endVars
  <2>2. /\ m \in Messages /\ n + 1 \in 1 .. Len(came) /\ came[n + 1] = m /\ n \in Nat
        /\ \A i \in 1 .. n : i \in 1 .. Len(came) /\ came[i] = took[i]
    <3>1. came = took \o queue
      BY DEF Once
    <3> HIDE DEF m, n
    <3>2. /\ Len(took) + 1 \in 1 .. Len(took \o queue) /\ (took \o queue)[Len(took) + 1] = Head(queue)
          /\ \A i \in 1 .. Len(took) : i \in 1 .. Len(took \o queue) /\ (took \o queue)[i] = took[i]
          /\ Head(queue) \in Messages /\ Len(took) \in Nat
      BY ONLY <1>0, <2>1, SMTT(30)
    <3> QED
      BY <3>1, <3>2 DEF m, n
  <2>3. Len(took') = n + 1 /\ took'[n + 1] = m /\ \A i \in 1 .. n : took'[i] = took[i]
    BY <1>0, <2>1, <2>2
  <2> HIDE DEF m, n
  <2>4. /\ hand[w] = Nothing /\ hand'[w] = m /\ at'[w] = "task" /\ m # Nothing
        /\ \A v \in Threads : v # w => hand'[v] = hand[v] /\ at'[v] = at[v]
    BY <1>0, <2>1, <2>2 DEF InOneHand
  <2>5. m \in Tasks => \A i \in 1 .. n : took[i] # m
    <3>1. ASSUME m \in Tasks, NEW i \in 1 .. n, took[i] = m PROVE FALSE
      <4>1. i \in 1 .. Len(came) /\ came[i] = m
        BY <2>2, <3>1
      <4>2. i # n + 1
        BY <2>2
      <4>3. \A j, k \in 1 .. Len(came) : came[j] \in Tasks /\ came[j] = came[k] => j = k
        BY DEF Once
      <4> QED
        BY <2>2, <3>1, <4>1, <4>2, <4>3
    <3> QED
      BY <3>1
  <2>6. InHand' = InHand \cup {m}
    BY <2>4 DEF InHand
  <2>7. \A i \in 1 .. n + 1 : i = n + 1 \/ i \in 1 .. n
    BY <2>2
  <2>8. \A i \in 1 .. n : i \in 1 .. n + 1
    BY <2>2
  <2>9. n + 1 \in 1 .. n + 1
    BY <2>2
  <2>10. \A v \in Threads : hand'[v] # Nothing <=> at'[v] = "task"
    BY <2>4 DEF InOneHand
  <2>11. \A i \in 1 .. Len(took') : took'[i] \in InHand' \cup done' \cup {Barrier}
    BY <2>1, <2>3, <2>6, <2>7 DEF InOneHand, n
  <2>12. /\ \A v \in Threads : hand'[v] # Nothing => \E i \in 1 .. Len(took') : took'[i] = hand'[v]
         /\ \A t \in done' : \E i \in 1 .. Len(took') : took'[i] = t
    BY <2>1, <2>3, <2>4, <2>8, <2>9 DEF InOneHand, n
  <2>13. m \in Tasks => m \notin done /\ \A v \in Threads : hand[v] # m
    BY <2>4, <2>5 DEF InOneHand, n
  <2>14. /\ \A v, u \in Threads : v # u /\ hand'[v] \in Tasks => hand'[v] # hand'[u]
         /\ \A v \in Threads : hand'[v] \in Tasks => hand'[v] \notin done'
    BY <2>1, <2>4, <2>13 DEF InOneHand
  <2> QED
    BY <2>1, <2>10, <2>11, <2>12, <2>14 DEF InOneHand
<1>5. ASSUME NEW w \in Threads, OnMessage(w) PROVE InOneHand'
  <2>1. /\ at[w] = "task" /\ hand' = [hand EXCEPT ![w] = Nothing] /\ UNCHANGED <<took, pc>>
        /\ hand[w] # Nothing /\ hand[w] \in Messages
    BY <1>0, <1>5 DEF OnMessage, endVars, InOneHand
  <2>2. /\ at'[w] # "task" /\ \A v \in Threads : v # w => (at'[v] = "task" <=> at[v] = "task")
        /\ \/ hand[w] = Barrier /\ done' = done
           \/ hand[w] # Barrier /\ done' = done \cup {hand[w]}
    <3>1. CASE hand[w] = Barrier
      <4>1. /\ at'[w] \in {"barrier", "ready"} /\ done' = done
            /\ \A y \in Everyone : y # w => at'[y] = at[y] \/ (at[y] = "barrier" /\ at'[y] = "ready")
        BY <1>0, <1>5, <3>1, Arriving DEF OnMessage
      <4> QED
        BY <1>0, <3>1, <4>1
    <3>2. CASE hand[w] # Barrier
      BY <1>0, <1>5, <3>2 DEF OnMessage
    <3> QED
      BY <3>1, <3>2
  <2>3. hand'[w] = Nothing /\ \A v \in Threads : v # w => hand'[v] = hand[v]
    BY <1>0, <2>1
  <2>4. InHand \subseteq InHand' \cup {hand[w]}
    BY <2>3 DEF InHand
  <2>5. \A i \in 1 .. Len(took') : took'[i] \in InHand' \cup done' \cup {Barrier}
    BY <2>1, <2>2, <2>4 DEF InOneHand
  <2>6. /\ \A v \in Threads : hand'[v] # Nothing <=> at'[v] = "task"
        /\ \A v \in Threads : hand'[v] # Nothing => \E i \in 1 .. Len(took') : took'[i] = hand'[v]
    BY <2>1, <2>2, <2>3 DEF InOneHand
  <2>7. \A t \in done' : \E i \in 1 .. Len(took') : took'[i] = t
    BY <2>1, <2>2 DEF InOneHand
  <2>8. hand[w] # Barrier => hand[w] \in Tasks
    BY <2>1 DEF Messages
  <2>9. /\ \A v, u \in Threads : v # u /\ hand'[v] \in Tasks => hand'[v] # hand'[u]
        /\ \A v \in Threads : hand'[v] \in Tasks => hand'[v] \notin done'
        /\ pc' \notin {"rest", "done"} => Barrier \notin done'
    BY <1>0, <2>1, <2>2, <2>3, <2>8 DEF InOneHand
  <2> QED
    BY <2>5, <2>6, <2>7, <2>9 DEF InOneHand
<1>6. CASE HandleRest
  <2>1. CASE queue = <<>>
    BY <1>1, <1>6, <2>1 DEF HandleRest
  <2>2. CASE queue # <<>>
    <3> DEFINE m == Head(queue)
               n == Len(took)
    <3>1. /\ pc = "rest" /\ pc' = pc /\ UNCHANGED <<at, hand>> /\ took' = Append(took, m) /\ done' = done \cup {m}
      BY <1>6, <2>2 DEF HandleRest, EnderAt
    <3>2. m \in Messages /\ n \in Nat
      BY <1>0, <2>2
    <3>3. Len(took') = n + 1 /\ took'[n + 1] = m /\ \A i \in 1 .. n : took'[i] = took[i]
      BY <1>0, <3>1, <3>2
    <3> HIDE DEF m, n
    <3>4. /\ \A i \in 1 .. n + 1 : i = n + 1 \/ i \in 1 .. n
          /\ \A i \in 1 .. n : i \in 1 .. n + 1
          /\ n + 1 \in 1 .. n + 1
      BY <3>2
    <3>5. \A w \in Threads : hand[w] = Nothing
      BY <3>1 DEF Lives, InOneHand
    <3>6. InHand' = InHand
      BY <3>1 DEF InHand
    <3>7. /\ \A i \in 1 .. Len(took') : took'[i] \in InHand' \cup done' \cup {Barrier}
          /\ \A t \in done' : \E i \in 1 .. Len(took') : took'[i] = t
      BY <3>1, <3>3, <3>4, <3>6 DEF InOneHand, n
    <3> QED
      BY <1>0, <3>1, <3>5, <3>7 DEF InOneHand
  <2> QED
    BY <2>1, <2>2
<1>7. ASSUME NEW w \in Threads, EndThread(w) PROVE InOneHand'
  <2>1. /\ at'[w] = "ended"
        /\ \A x \in Everyone : x # w => at'[x] = at[x] \/ (at[x] = "wait" /\ at'[x] = "ready")
    BY <1>7, Leaving
  <2>2. at[w] = "ready" /\ UNCHANGED <<hand, took, done, pc>>
    BY <1>7 DEF EndThread, endVars
  <2>3. \A v \in Threads : at'[v] = "task" <=> at[v] = "task"
    BY <1>0, <2>1, <2>2
  <2> QED
    BY <1>1, <2>2, <2>3
<1>8. ASSUME NEW w \in Threads, Wait(w) PROVE InOneHand'
  <2>1. at[w] = "ready" /\ at' = [at EXCEPT ![w] = "wait"] /\ UNCHANGED <<hand, took, done, pc>>
    BY <1>8 DEF Wait, endVars
  <2>2. \A v \in Threads : at'[v] = "task" <=> at[v] = "task"
    BY <1>0, <2>1
  <2> QED
    BY <1>1, <2>1, <2>2
<1>9. ASSUME NEW x \in Everyone, Wakes(x) PROVE InOneHand'
  <2>1. at[x] = "wait" /\ at' = [at EXCEPT ![x] = "ready"] /\ UNCHANGED <<hand, took, done, pc>>
    BY <1>9 DEF Wakes, endVars
  <2>2. \A v \in Threads : at'[v] = "task" <=> at[v] = "task"
    BY <1>0, <2>1
  <2> QED
    BY <1>1, <2>1, <2>2
<1>10. CASE BeginEnd
  BY <1>2, <1>10, WokenAre DEF BeginEnd, EnderAt
<1>11. CASE StartThread \/ CheckState \/ RoundEnds \/ WaitThreadJoin
  <2>1. UNCHANGED <<at, hand, took, done>> /\ (pc \notin {"rest", "done"} \/ pc' \in {"rest", "done"})
    BY <1>11 DEF StartThread, CheckState, RoundEnds, WaitThreadJoin, NextRound, EnderAt, endVars
  <2> QED
    BY <1>1, <2>1
<1>12. CASE WaitBarrier
  <2>1. \A y \in Everyone : y # Ender => at'[y] = at[y] \/ (at[y] = "barrier" /\ at'[y] = "ready")
    BY <1>12, Arriving DEF WaitBarrier, Everyone
  <2>2. UNCHANGED <<hand, took, done>> /\ pc = "post"
    BY <1>12 DEF WaitBarrier, EnderAt
  <2>3. \A v \in Threads : at'[v] = "task" <=> at[v] = "task"
    BY <1>0, <2>1
  <2> QED
    BY <1>1, <2>2, <2>3
<1>13. CASE WaitForEnd \/ WaitsOn
  <2>1. /\ UNCHANGED <<hand, took, done>> /\ pc \in {"end", "waiting"}
        /\ at' \in {at, AllWoken, [at EXCEPT ![Ender] = "wait"], [AllWoken EXCEPT ![Ender] = "wait"]}
    BY <1>13 DEF WaitForEnd, WaitsOn, EnderAt
  <2>2. /\ AllWoken \in [Everyone -> Places]
        /\ \A x \in Everyone : AllWoken[x] = IF at[x] = "wait" THEN "ready" ELSE at[x]
    BY WokenAre
  <2>3. \A v \in Threads : at'[v] = "task" <=> at[v] = "task"
    BY <1>0, <2>1, <2>2
  <2> QED
    BY <1>1, <2>1, <2>3
<1>14. CASE NotifyForEndNow
  <2>1. \A v \in Threads : at'[v] = "task" <=> at[v] = "task"
    BY <1>0, <1>14, WokenAre DEF NotifyForEndNow
  <2> QED
    BY <1>1, <1>14, <2>1 DEF NotifyForEndNow, endVars
<1>15. CASE UNCHANGED poolVars
  BY <1>1, <1>15 DEF poolVars
<1>16. CASE \E t \in Tasks : AddTask(t)
  BY <1>3, <1>16 DEF AddTask, endVars, Messages
<1>17. CASE PostBarrier
  BY <1>3, <1>17 DEF PostBarrier, Messages
<1> QED
  BY <1>4, <1>5, <1>6, <1>7, <1>8, <1>9, <1>10, <1>11, <1>12, <1>13, <1>14, <1>15, <1>16, <1>17
     DEF Next, Works, Ends, Everyone

LEMMA NothingLeftStep ==
  ASSUME PoolOK, Typed, Lives, NothingLeft, [Next]_poolVars
  PROVE  NothingLeft'
<1>0. Ender \notin Threads /\ Threads # {} /\ \A w \in Threads : w \in Everyone /\ w # Ender
  BY DEF PoolOK, Everyone
<1>1. ASSUME UNCHANGED <<queue, plan>>, pc' = "done" => pc = "done" \/ plan = "workdone" \/ queue = <<>>,
             \A w \in Threads : at'[w] = "ended" => at[w] = "ended"
      PROVE  NothingLeft'
  BY <1>1 DEF NothingLeft
<1>2. ASSUME NEW m \in Messages, EmplaceMessage(m), UNCHANGED <<state, plan, pc>>
      PROVE  NothingLeft'
  <2>1. CASE state \in Open
    <3>1. \A w \in Threads : at'[w] # "ended"
      BY <1>0, <1>2, <2>1, TakenIn DEF Lives
    <3>2. pc' # "done"
      BY <1>2, <2>1 DEF Lives
    <3> QED
      BY <3>1, <3>2 DEF NothingLeft
  <2>2. CASE state \notin Open
    BY <1>1, <1>2, <2>2, TakenIn
  <2> QED
    BY <2>1, <2>2
<1>3. ASSUME NEW w \in Threads, Take(w) PROVE NothingLeft'
  <2>1. /\ at[w] = "ready" /\ queue # <<>> /\ UNCHANGED <<plan, pc>> /\ at' = [at EXCEPT ![w] = "task"]
        /\ at \in [Everyone -> Places]
    BY <1>3 DEF Take, endVars, Typed
  <2>2. \A v \in Threads : at'[v] = "ended" => at[v] = "ended"
    BY <1>0, <2>1
  <2> QED
    BY <2>1, <2>2 DEF NothingLeft, Lives
<1>4. ASSUME NEW w \in Threads, EndThread(w) PROVE NothingLeft'
  <2>1. /\ at[w] = "ready" /\ UNCHANGED <<queue, plan, pc>>
        /\ state = "EndNow" \/ queue = <<>>
    BY <1>4 DEF EndThread, endVars
  <2>2. pc # "done"
    BY <2>1 DEF Lives
  <2> QED
    BY <2>1, <2>2 DEF NothingLeft, Lives
<1>5. CASE HandleRest
  <2>1. CASE queue = <<>>
    BY <1>1, <1>5, <2>1 DEF HandleRest
  <2>2. CASE queue # <<>>
    BY <1>5, <2>2 DEF HandleRest, EnderAt, NothingLeft
  <2> QED
    BY <2>1, <2>2
<1>6. ASSUME NEW w \in Threads, OnMessage(w) PROVE NothingLeft'
  <2>1. UNCHANGED <<queue, plan, pc>> /\ at[w] = "task"
    BY <1>6 DEF OnMessage, endVars
  <2>2. \A v \in Threads : at'[v] = "ended" => at[v] = "ended"
    <3>1. CASE hand[w] = Barrier
      BY <1>0, <1>6, <3>1, Arriving DEF OnMessage
    <3>2. CASE hand[w] # Barrier
      BY <1>0, <1>6, <3>2 DEF OnMessage, Typed
    <3> QED
      BY <3>1, <3>2
  <2> QED
    BY <1>1, <2>1, <2>2
<1>7. ASSUME NEW w \in Threads, Wait(w) PROVE NothingLeft'
  BY <1>0, <1>1, <1>7 DEF Wait, endVars, Typed
<1>8. ASSUME NEW x \in Everyone, Wakes(x) PROVE NothingLeft'
  BY <1>0, <1>1, <1>8 DEF Wakes, endVars, Typed
<1>9. CASE BeginEnd
  BY <1>0, <1>1, <1>9, WokenAre DEF BeginEnd
<1>10. CASE StartThread \/ CheckState \/ RoundEnds
  BY <1>1, <1>10 DEF StartThread, CheckState, RoundEnds, NextRound, endVars
<1>11. CASE WaitThreadJoin
  BY <1>1, <1>11 DEF WaitThreadJoin
<1>12. CASE WaitBarrier
  <2>1. \A y \in Everyone : y # Ender => at'[y] = at[y] \/ (at[y] = "barrier" /\ at'[y] = "ready")
    BY <1>12, Arriving DEF WaitBarrier, Everyone
  <2> QED
    BY <1>0, <1>1, <1>12, <2>1 DEF WaitBarrier
<1>13. CASE WaitForEnd \/ WaitsOn
  <2>1. /\ UNCHANGED <<queue, plan>> /\ pc' # "done"
        /\ at' \in {at, AllWoken, [at EXCEPT ![Ender] = "wait"], [AllWoken EXCEPT ![Ender] = "wait"]}
    BY <1>13 DEF WaitForEnd, WaitsOn, EnderAt
  <2>2. \A v \in Threads : at'[v] = "ended" => at[v] = "ended"
    BY <1>0, <2>1, WokenAre DEF Typed
  <2> QED
    BY <1>1, <2>1, <2>2
<1>14. CASE NotifyForEndNow
  BY <1>0, <1>1, <1>14, WokenAre DEF NotifyForEndNow, endVars
<1>15. CASE UNCHANGED poolVars
  BY <1>1, <1>15 DEF poolVars
<1>16. CASE \E t \in Tasks : AddTask(t)
  BY <1>2, <1>16 DEF AddTask, endVars, Messages
<1>17. CASE PostBarrier
  BY <1>2, <1>17 DEF PostBarrier, Messages
<1> QED
  BY <1>3, <1>4, <1>5, <1>6, <1>7, <1>8, <1>9, <1>10, <1>11, <1>12, <1>13, <1>14, <1>15, <1>16, <1>17
     DEF Next, Works, Ends, Everyone

-----------------------------------------------------------------------------
(* Who sleeps *)

LEMMA InitSleepers == PoolOK /\ Init => NobodySleepsBesideWork
BY DEF Init, NobodySleepsBesideWork

(* The sleepers of the pool. *)
Sleepers == {w \in Threads : at[w] = "wait"}

LEMMA SleepersAre ==
  ASSUME Typed
  PROVE  /\ Waiting \cap Threads = Sleepers /\ (at[Ender] # "wait" => Waiting \subseteq Threads)
         /\ \A x \in Waiting : x \in Everyone /\ at[x] = "wait"
         /\ Sleepers \subseteq Waiting
BY DEF Waiting, Sleepers, Typed, Everyone

(* Those who are ready are counted. *)
LEMMA ReadyCount ==
  ASSUME PoolOK
  PROVE  /\ IsFiniteSet(Ready) /\ Cardinality(Ready) \in Nat
         /\ IsFiniteSet(Ready') /\ Cardinality(Ready') \in Nat
<1>1. Ready \subseteq Threads /\ Ready' \subseteq Threads /\ IsFiniteSet(Threads)
  BY DEF Ready, PoolOK
<1> QED
  BY <1>1, FS_Subset, FS_CardinalityType

(* While the pool is open and one thread runs, it does not sleep beside work. *)
LEMMA OneIsAwake ==
  ASSUME PoolOK, Typed, Lives, state = "ExecutingOrWaiting", running <= 1, Ready # {}
  PROVE  Sleepers = {}
<1> SUFFICES ASSUME Sleepers # {} PROVE FALSE
  OBVIOUS
<1>1. PICK r \in Ready, w \in Sleepers : TRUE
  OBVIOUS
<1>2. r # w /\ {r, w} \subseteq Alive
  BY <1>1 DEF Ready, Sleepers, Alive
<1>3. IsFiniteSet(Alive) /\ running = Cardinality(Alive)
  BY FS_Subset DEF Alive, PoolOK, Lives
<1>4. IsFiniteSet({w}) /\ Cardinality({w}) = 1
  BY FS_Singleton
<1>5. {w} \cup {r} = {r, w} /\ r \notin {w}
  BY <1>2
<1>6. Cardinality({r, w}) = 2
  <2>1. Cardinality({w} \cup {r}) = Cardinality({w}) + 1
    BY <1>4, <1>5, FS_AddElement
  <2> QED
    BY <1>4, <1>5, <2>1
<1>7. Cardinality({r, w}) <= Cardinality(Alive)
  BY <1>2, <1>3, FS_Subset
<1> QED
  BY <1>3, <1>6, <1>7 DEF Typed

LEMMA SleepersStep ==
  ASSUME PoolOK, Typed, Lives, NobodySleepsBesideWork, [Next]_poolVars, Typed', Lives'
  PROVE  NobodySleepsBesideWork'
<1>0. /\ Ender \notin Threads /\ \A w \in Threads : w \in Everyone /\ w # Ender
      /\ queue \in Seq(Messages) /\ Len(queue) \in Nat /\ Len(queue') \in Nat
      /\ at \in [Everyone -> Places] /\ at' \in [Everyone -> Places]
  BY DEF PoolOK, Everyone, Typed
<1>1. Waiting \cap Threads = Sleepers /\ (Waiting \cap Threads)' = Sleepers'
  BY SleepersAre DEF Waiting, Sleepers, Typed, Everyone
<1>2. /\ IsFiniteSet(Ready) /\ Cardinality(Ready) \in Nat
      /\ IsFiniteSet(Ready') /\ Cardinality(Ready') \in Nat
  BY ReadyCount
<1>3. SUFFICES ASSUME ~timed', state' = "ExecutingOrWaiting", Sleepers' # {}
               PROVE  Cardinality(Ready') >= Len(queue')
  <2>1. state' = "EndAfterWorkDone" => Sleepers' = {}
    BY DEF Lives, Sleepers, Open
  <2> QED
    BY <1>1, <2>1 DEF NobodySleepsBesideWork
<1>4. ASSUME Ready \subseteq Ready', Sleepers' \subseteq Sleepers, Len(queue') <= Len(queue),
             timed' = timed, state' = state
      PROVE  Cardinality(Ready') >= Len(queue')
  <2>1. Cardinality(Ready) >= Len(queue)
    BY <1>1, <1>3, <1>4 DEF NobodySleepsBesideWork
  <2>2. Cardinality(Ready) <= Cardinality(Ready')
    BY <1>2, <1>4, FS_Subset
  <2> QED
    BY <1>0, <1>2, <1>4, <2>1, <2>2
<1>5. ASSUME NEW m \in Messages, EmplaceMessage(m), UNCHANGED <<state, timed, running>>
      PROVE  Cardinality(Ready') >= Len(queue')
  <2>1. /\ queue' = Append(queue, m) /\ CheckNotify /\ state = "ExecutingOrWaiting" /\ ~timed
        /\ \A x \in Everyone : at'[x] = at[x] \/ (at[x] = "wait" /\ at'[x] = "ready")
    BY <1>3, <1>5, TakenIn DEF EmplaceMessage, Open
  <2>2. Sleepers' \subseteq Sleepers
    BY <1>0, <2>1 DEF Sleepers
  <2>3. Cardinality(Ready) >= Len(queue)
    BY <1>1, <1>3, <2>1, <2>2 DEF NobodySleepsBesideWork
  <2>4. Len(queue') = Len(queue) + 1
    BY <1>0, <1>5, <2>1
  <2>5. running > 1 \/ queue = <<>>
    <3> SUFFICES ASSUME running <= 1, queue # <<>> PROVE FALSE
      BY DEF Typed
    <3>1. Len(queue) > 0
      BY <1>0
    <3>2. Ready # {}
      BY <1>0, <1>2, <2>3, <3>1, FS_EmptySet
    <3> QED
      BY <1>3, <2>1, <2>2, <3>2, OneIsAwake
  <2>6. at[Ender] # "wait" /\ Waiting # {}
    BY <1>1, <1>3, <2>1, <2>2 DEF Lives, Open
  <2>7. PICK x \in Waiting : at' = [at EXCEPT ![x] = "ready"]
    BY <2>1, <2>5, <2>6 DEF CheckNotify, NotifyOne
  <2>8. x \in Threads /\ at[x] = "wait"
    BY <2>6, <2>7, SleepersAre
  <2>9. Ready' = Ready \cup {x} /\ x \notin Ready
    BY <1>0, <2>7, <2>8 DEF Ready
  <2>10. Cardinality(Ready') = Cardinality(Ready) + 1
    BY <1>2, <2>9, FS_AddElement
  <2> QED
    BY <1>0, <1>2, <2>3, <2>4, <2>10
<1>6. CASE StartThread
  <2>1. Sleepers' = {}
    BY <1>0, <1>6 DEF StartThread, Sleepers, Lives
  <2> QED
    BY <1>3, <2>1
<1>7. ASSUME NEW w \in Threads, Take(w) PROVE Cardinality(Ready') >= Len(queue')
  <2>1. /\ at[w] = "ready" /\ at' = [at EXCEPT ![w] = "task"] /\ queue # <<>> /\ queue' = Tail(queue)
        /\ UNCHANGED <<state, timed>>
    BY <1>7 DEF Take, endVars
  <2>2. Sleepers' = Sleepers /\ Ready' = Ready \ {w} /\ w \in Ready
    BY <1>0, <2>1 DEF Sleepers, Ready
  <2>3. Cardinality(Ready) >= Len(queue)
    BY <1>1, <1>3, <2>1, <2>2 DEF NobodySleepsBesideWork
  <2>4. Cardinality(Ready') = Cardinality(Ready) - 1
    BY <1>2, <2>2, FS_RemoveElement
  <2>5. Len(queue') = Len(queue) - 1
    BY <1>0, <2>1
  <2> QED
    BY <1>0, <1>2, <2>3, <2>4, <2>5
<1>8. ASSUME NEW w \in Threads, Wait(w) PROVE Cardinality(Ready') >= Len(queue')
  <2>1. queue' = <<>>
    BY <1>8 DEF Wait
  <2>2. Len(queue') = 0
    BY <2>1
  <2> QED
    BY <1>2, <2>2
<1>9. ASSUME NEW x \in Everyone, Wakes(x) PROVE Cardinality(Ready') >= Len(queue')
  <2>1. at[x] = "wait" /\ at' = [at EXCEPT ![x] = "ready"] /\ UNCHANGED <<state, timed, queue>>
    BY <1>9 DEF Wakes, endVars
  <2>2. Ready \subseteq Ready' /\ Sleepers' \subseteq Sleepers
    BY <1>0, <2>1 DEF Ready, Sleepers
  <2> QED
    BY <1>0, <1>4, <2>1, <2>2
<1>10. ASSUME NEW w \in Threads, OnMessage(w) PROVE Cardinality(Ready') >= Len(queue')
  <2>1. UNCHANGED <<state, timed, queue>> /\ at[w] = "task"
    BY <1>10 DEF OnMessage, endVars
  <2>2. at'[w] # "wait" /\ \A y \in Everyone : y # w => at'[y] = at[y] \/ (at[y] = "barrier" /\ at'[y] = "ready")
    <3>1. CASE hand[w] = Barrier
      BY <1>0, <1>10, <3>1, Arriving DEF OnMessage
    <3>2. CASE hand[w] # Barrier
      BY <1>0, <1>10, <3>2 DEF OnMessage
    <3> QED
      BY <3>1, <3>2
  <2>3. Ready \subseteq Ready' /\ Sleepers' \subseteq Sleepers
    BY <1>0, <2>1, <2>2 DEF Ready, Sleepers
  <2> QED
    BY <1>0, <1>4, <2>1, <2>3
<1>11. CASE BeginEnd
  <2>1. CASE plan = "quit"
    <3>1. Sleepers' = {}
      BY <1>0, <1>11, <2>1, WokenAre DEF BeginEnd, Sleepers
    <3> QED
      BY <1>3, <3>1
  <2>2. CASE plan # "quit"
    <3>1. UNCHANGED <<at, queue, state, timed>>
      BY <1>11, <2>2 DEF BeginEnd
    <3>2. Ready' = Ready /\ Sleepers' = Sleepers
      BY <3>1 DEF Ready, Sleepers
    <3> QED
      BY <1>0, <1>4, <3>1, <3>2
  <2> QED
    BY <2>1, <2>2
<1>12. CASE CheckState \/ RoundEnds \/ WaitThreadJoin \/ UNCHANGED poolVars
  <2>1. UNCHANGED <<at, queue, state, timed>>
    BY <1>12 DEF CheckState, RoundEnds, WaitThreadJoin, poolVars
  <2>2. Ready' = Ready /\ Sleepers' = Sleepers
    BY <2>1 DEF Ready, Sleepers
  <2> QED
    BY <1>0, <1>4, <2>1, <2>2
<1>13. CASE WaitBarrier
  <2>1. \A y \in Everyone : y # Ender => at'[y] = at[y] \/ (at[y] = "barrier" /\ at'[y] = "ready")
    BY <1>13, Arriving DEF WaitBarrier, Everyone
  <2>2. UNCHANGED <<queue, state, timed>>
    BY <1>13 DEF WaitBarrier
  <2>3. Ready \subseteq Ready' /\ Sleepers' \subseteq Sleepers
    BY <1>0, <2>1 DEF Ready, Sleepers
  <2> QED
    BY <1>0, <1>4, <2>2, <2>3
<1>14. state' # "ExecutingOrWaiting" \/ ~(WaitForEnd \/ WaitsOn \/ HandleRest \/ NotifyForEndNow \/ \E w \in Threads : EndThread(w))
  BY DEF WaitForEnd, WaitsOn, HandleRest, NotifyForEndNow, NotifyForEnd, EndThread, EnderAt, Lives, Open
<1>15. CASE \E t \in Tasks : AddTask(t)
  BY <1>5, <1>15 DEF AddTask, endVars, Messages
<1>16. CASE PostBarrier
  BY <1>5, <1>16 DEF PostBarrier, Messages
<1> QED
  BY <1>3, <1>6, <1>7, <1>8, <1>9, <1>10, <1>11, <1>12, <1>13, <1>14, <1>15, <1>16
     DEF Next, Works, Ends, Everyone

-----------------------------------------------------------------------------
(* The theorems *)

(* Whatever threads add, take and end: the invariant of MessageQueue and its
   ThreadController. *)
THEOREM PoolInvariant == PoolOK /\ Spec => []Inv
<1> SUFFICES ASSUME PoolOK PROVE Spec => []Inv
  OBVIOUS
<1>1. Init => Inv
  BY InitTyped, InitLives, InitMessages, InitSleepers DEF Inv
<1>2. Inv /\ [Next]_poolVars => Inv'
  <2> SUFFICES ASSUME Inv, [Next]_poolVars PROVE Inv'
    OBVIOUS
  <2>1. Typed' /\ Lives' /\ Once' /\ InOneHand' /\ NothingLeft'
    BY TypedStep, LivesStep, OnceStep, InOneHandStep, NothingLeftStep DEF Inv
  <2>2. NobodySleepsBesideWork'
    BY <2>1, SleepersStep DEF Inv
  <2> QED
    BY <2>1, <2>2 DEF Inv
<1> QED
  BY <1>1, <1>2, PTL DEF Spec

(* The state is well typed; the count of running threads never exceeds the pool. *)
THEOREM TypeCorrect == PoolOK /\ Spec => []PoolTypeOK
<1> SUFFICES ASSUME PoolOK PROVE Spec => []PoolTypeOK
  OBVIOUS
<1>1. Inv => PoolTypeOK
  <2> SUFFICES ASSUME Inv PROVE PoolTypeOK
    OBVIOUS
  <2>1. running \in 0 .. Cardinality(Threads)
    <3>1. CASE state = "Idle"
      BY <3>1, FS_CardinalityType DEF Inv, Lives, PoolOK
    <3>2. CASE state # "Idle"
      <4>1. IsFiniteSet(Threads) /\ Alive \subseteq Threads /\ running = Cardinality(Alive)
        BY <3>2 DEF Inv, Lives, PoolOK, Alive
      <4> QED
        BY <4>1, FS_Subset, FS_CardinalityType
    <3> QED
      BY <3>1, <3>2
  <2> QED
    BY <2>1 DEF Inv, Typed, PoolTypeOK, Open, Messages
<1> QED
  BY <1>1, PoolInvariant, PTL

(* Messages are taken in the order in which they were accepted, each by one thread
   and once (MessageQueue::DoMessages). *)
THEOREM MessagesInOrder == PoolOK /\ Spec => []TakenInOrder
<1> SUFFICES ASSUME PoolOK PROVE Spec => []TakenInOrder
  OBVIOUS
<1>1. Inv => TakenInOrder
  <2> SUFFICES ASSUME Inv PROVE TakenInOrder
    OBVIOUS
  <2>1. took \in Seq(Messages) /\ hand \in [Threads -> Messages \cup {Nothing}]
    BY DEF Inv, Typed
  <2>2. came = took \o queue
    BY DEF Inv, Once
  <2>3. \A i \in DOMAIN took : took[i] \in InHand \cup done \cup {Barrier}
    <3>1. DOMAIN took = 1 .. Len(took)
      BY <2>1
    <3> QED
      BY <3>1 DEF Inv, InOneHand
  <2>4. \A v, w \in Threads : v # w /\ hand[v] \in Tasks => hand[v] # hand[w]
    BY DEF Inv, InOneHand
  <2>5. ASSUME NEW w \in Threads, hand[w] # Nothing PROVE hand[w] \notin done
    <3>1. CASE hand[w] \in Tasks
      BY <3>1 DEF Inv, InOneHand
    <3>2. CASE hand[w] = Barrier
      <4>1. at[w] = "task"
        BY <2>5 DEF Inv, InOneHand
      <4>2. pc \notin {"rest", "done"}
        BY <4>1 DEF Inv, Lives
      <4> QED
        BY <3>2, <4>2 DEF Inv, InOneHand
    <3> QED
      BY <2>1, <2>5, <3>1, <3>2 DEF Messages
  <2>6. InHand \cap done = {}
    BY <2>5 DEF InHand
  <2> QED
    BY <2>2, <2>3, <2>4, <2>6 DEF TakenInOrder
<1> QED
  BY <1>1, PoolInvariant, PTL

(* A message that waits has a thread that comes to take it, unless none sleeps: the
   notify that a busy thread saves is not missed (MessageQueue's CheckNotify). *)
THEOREM WorkHasAThread == PoolOK /\ Spec => []NobodySleepsBesideWork
<1> SUFFICES ASSUME PoolOK PROVE Spec => []NobodySleepsBesideWork
  OBVIOUS
<1>1. Inv => NobodySleepsBesideWork
  BY DEF Inv
<1> QED
  BY <1>1, PoolInvariant, PTL

(* Who ends the pool sleeps only while a thread is left to wake it, and nobody else
   sleeps then (ThreadController::OnBeforeThreadEnd, NotifyForEnd). *)
THEOREM EnderIsAlwaysTold == PoolOK /\ Spec => []EnderIsTold
<1> SUFFICES ASSUME PoolOK PROVE Spec => []EnderIsTold
  OBVIOUS
<1>1. Inv => EnderIsTold
  <2> SUFFICES ASSUME Inv PROVE EnderIsTold
    OBVIOUS
  <2>1. Typed /\ Lives
    BY DEF Inv
  <2>2. state = "Terminated" => (\A w \in Threads : at[w] = "ended") /\ at[Ender] # "wait"
    <3> SUFFICES ASSUME state = "Terminated" PROVE (\A w \in Threads : at[w] = "ended") /\ at[Ender] # "wait"
      OBVIOUS
    <3>1. \A w \in Threads : at[w] = "ended"
      BY <2>1 DEF Lives
    <3>2. Alive = {} /\ running = Cardinality(Alive)
      BY <2>1, <3>1 DEF Lives, Alive
    <3>3. running = 0
      BY <3>2, FS_EmptySet
    <3> QED
      BY <2>1, <3>1, <3>3 DEF Lives
  <2>3. state \notin Open => Waiting \subseteq {Ender}
    BY <2>1, SleepersAre DEF Lives, Everyone
  <2>4. state \notin Open /\ at[Ender] = "wait" => running > 0
    BY <2>1 DEF Lives
  <2> QED
    BY <2>2, <2>3, <2>4 DEF EnderIsTold
<1> QED
  BY <1>1, PoolInvariant, PTL

(* When the end of the pool returns its threads are gone and what was accepted is
   done, if what is left is handled then or no thread was hurried
   (WaitDefaultThreadPoolQuit, WaitForEndNow, WaitForEndAfterWorkDone). *)
THEOREM AcceptedIsDone == PoolOK /\ Spec => []DoneWhenEnded
<1> SUFFICES ASSUME PoolOK PROVE Spec => []DoneWhenEnded
  OBVIOUS
<1>1. Inv => DoneWhenEnded
  <2> SUFFICES ASSUME Inv, pc = "done"
               PROVE  /\ \A w \in Threads : at[w] = "ended"
                      /\ plan # "workdone" \/ ~ExitHandler => Accepted \subseteq done
    BY DEF DoneWhenEnded
  <2>1. \A w \in Threads : at[w] = "ended"
    BY DEF Inv, Lives
  <2>2. ASSUME plan # "workdone" \/ ~ExitHandler PROVE Accepted \subseteq done
    <3>1. queue = <<>>
      BY <2>1, <2>2 DEF Inv, NothingLeft, PoolOK
    <3>2. came = took /\ DOMAIN came = 1 .. Len(took)
      <4>1. came = took \o queue /\ took \in Seq(Messages)
        BY DEF Inv, Once, Typed
      <4> QED
        BY <3>1, <4>1
    <3>3. InHand = {}
      BY <2>1 DEF InHand, Inv, InOneHand
    <3> QED
      BY <3>2, <3>3 DEF Accepted, Inv, InOneHand
  <2> QED
    BY <2>1, <2>2
<1> QED
  BY <1>1, PoolInvariant, PTL

-----------------------------------------------------------------------------
(* A week has a day and a day has a second. *)
WeekOK == WeekdayCount \in Nat \ {0} /\ DaySeconds \in Nat \ {0}

-----------------------------------------------------------------------------
(* Days and seconds *)

(* A product of a positive number is as large as the number, or none. *)
LEMMA ProductGrows ==
  ASSUME NEW d \in Nat \ {0}, NEW k \in Int, k > 0
  PROVE  k * d >= d
OBVIOUS

(* A time has one quotient and one rest. *)
LEMMA OneQuotient ==
  ASSUME NEW d \in Nat \ {0}, NEW p \in Int, NEW q \in Int, NEW r \in 0 .. d - 1, NEW s \in 0 .. d - 1,
         p * d + r = q * d + s
  PROVE  p = q /\ r = s
<1>1. (p - q) * d = s - r
  OBVIOUS
<1>2. CASE p > q
  <2>1. (p - q) * d >= d
    BY <1>2, ProductGrows
  <2> QED
    BY <1>1, <2>1
<1>3. CASE p < q
  <2>1. (q - p) * d >= d
    BY <1>3, ProductGrows
  <2>2. (q - p) * d = r - s
    OBVIOUS
  <2> QED
    BY <2>1, <2>2
<1> QED
  BY <1>2, <1>3

LEMMA DivMod ==
  ASSUME NEW d \in Nat \ {0}, NEW t \in Nat
  PROVE  t \div d \in Nat /\ t % d \in 0 .. d - 1 /\ t = (t \div d) * d + (t % d)
<1>1. t % d \in 0 .. d - 1
  OBVIOUS
<1>2. t \div d \in Int
  OBVIOUS
<1>3. t = (t \div d) * d + (t % d)
  OBVIOUS
<1>4. t \div d >= 0
  <2> SUFFICES ASSUME t \div d < 0 PROVE FALSE
    BY <1>2
  <2>1. (-(t \div d)) * d >= d
    BY <1>2, ProductGrows
  <2>2. t = -((-(t \div d)) * d) + (t % d)
    BY <1>2, <1>3
  <2> QED
    BY <1>1, <1>2, <2>1, <2>2
<1> QED
  BY <1>1, <1>2, <1>3, <1>4

(* The quotient and the rest of a time that is given by them. *)
LEMMA QuotientAndRest ==
  ASSUME NEW d \in Nat \ {0}, NEW q \in Nat, NEW r \in 0 .. d - 1
  PROVE  (q * d + r) \div d = q /\ (q * d + r) % d = r
<1> DEFINE t == q * d + r
<1>1. t \in Nat /\ t = q * d + r
  OBVIOUS
<1> HIDE DEF t
<1>2. t \div d \in Nat /\ t % d \in 0 .. d - 1 /\ t = (t \div d) * d + (t % d)
  BY <1>1, DivMod
<1>3. q = t \div d /\ r = t % d
  BY <1>1, <1>2, OneQuotient
<1> QED
  BY <1>3 DEF t

(* Any time is its day and its second. *)
LEMMA TimeIsDayAndSecond ==
  ASSUME WeekOK, NEW t \in Nat
  PROVE  DayOf(t) \in Nat /\ SecOf(t) \in 0 .. DaySeconds - 1 /\ t = DayOf(t) * DaySeconds + SecOf(t)
BY DivMod DEF WeekOK, DayOf, SecOf

(* A later day is a day later at least. *)
LEMMA LaterDay ==
  ASSUME WeekOK, NEW a \in Int, NEW b \in Int, a < b
  PROVE  a * DaySeconds + DaySeconds <= b * DaySeconds /\ a * DaySeconds \in Int /\ b * DaySeconds \in Int
<1>1. (b - a) * DaySeconds >= DaySeconds
  BY ProductGrows DEF WeekOK
<1>2. (b - a) * DaySeconds = b * DaySeconds - a * DaySeconds
  BY DEF WeekOK
<1> QED
  BY <1>1, <1>2 DEF WeekOK

(* Times are ordered by their days first. *)
LEMMA DaysInOrder ==
  ASSUME WeekOK, NEW s \in Nat, NEW t \in Nat, s <= t
  PROVE  DayOf(s) <= DayOf(t) /\ (DayOf(s) = DayOf(t) => SecOf(s) <= SecOf(t))
<1>1. /\ DayOf(s) \in Nat /\ SecOf(s) \in 0 .. DaySeconds - 1 /\ s = DayOf(s) * DaySeconds + SecOf(s)
      /\ DayOf(t) \in Nat /\ SecOf(t) \in 0 .. DaySeconds - 1 /\ t = DayOf(t) * DaySeconds + SecOf(t)
  BY TimeIsDayAndSecond
<1>2. DaySeconds \in Nat
  BY DEF WeekOK
<1>3. DayOf(s) <= DayOf(t)
  <2> SUFFICES ASSUME DayOf(t) < DayOf(s) PROVE FALSE
    BY <1>1
  <2>1. DayOf(t) * DaySeconds + DaySeconds <= DayOf(s) * DaySeconds
    BY <1>1, LaterDay
  <2> QED
    BY <1>1, <1>2, <2>1
<1>4. DayOf(s) = DayOf(t) => SecOf(s) <= SecOf(t)
  BY <1>1, <1>2
<1> QED
  BY <1>3, <1>4

(* In any week there is a day that is on, if there is one in the configuration. *)
LEMMA SomeDayIsOn ==
  ASSUME WeekOK, NEW c, c.Weekdays \subseteq 0 .. WeekdayCount - 1, c.Weekdays # {}, NEW day \in Nat
  PROVE  \E d \in day .. day + WeekdayCount - 1 : IsOn(c, d)
<1> DEFINE W == WeekdayCount
           q == day \div W
           r == day % W
<1>1. W \in Nat \ {0}
  BY DEF WeekOK
<1>2. q \in Nat /\ r \in 0 .. W - 1 /\ day = q * W + r
  BY <1>1, DivMod
<1>3. PICK w \in c.Weekdays : TRUE
  OBVIOUS
<1>4. w \in 0 .. W - 1
  BY <1>3
<1>5. \A k \in Nat : (k * W + w) % W = w
  BY <1>1, <1>4, QuotientAndRest
<1> HIDE DEF W, q, r
<1>6. CASE r <= w
  <2> DEFINE d == q * W + w
  <2>1. d \in day .. day + W - 1
    BY <1>1, <1>2, <1>4, <1>6
  <2>2. d + W = (q + 1) * W + w
    BY <1>1, <1>2, <1>4
  <2>3. (d + W) % W = w
    BY <1>2, <1>5, <2>2
  <2> QED
    BY <1>3, <2>1, <2>3 DEF IsOn, W
<1>7. CASE w < r
  <2> DEFINE d == (q + 1) * W + w
  <2>1. d \in day .. day + W - 1
    BY <1>1, <1>2, <1>4, <1>7
  <2>2. d + W = (q + 2) * W + w
    BY <1>1, <1>2, <1>4
  <2>3. (d + W) % W = w
    BY <1>2, <1>5, <2>2
  <2> QED
    BY <1>3, <2>1, <2>3 DEF IsOn, W
<1> QED
  BY <1>2, <1>4, <1>6, <1>7

(* The next start is on the first day that is on. *)
LEMMA NextStartIs ==
  ASSUME WeekOK, NEW c, c.Weekdays \subseteq 0 .. WeekdayCount - 1, c.Weekdays # {}, NEW day \in Nat
  PROVE  \E d \in Nat : /\ d >= day /\ IsOn(c, d) /\ NextStart(c, day) = d * DaySeconds + c.Start
                        /\ \A e \in day .. d - 1 : ~IsOn(c, e)
<1> DEFINE on == {d \in day .. day + WeekdayCount - 1 : IsOn(c, d)}
<1>1. on \in SUBSET Nat /\ on # {} /\ WeekdayCount \in Nat
  <2>1. \E d \in day .. day + WeekdayCount - 1 : IsOn(c, d)
    BY SomeDayIsOn
  <2>2. on # {}
    BY <2>1
  <2>3. WeekdayCount \in Nat
    BY DEF WeekOK
  <2>4. on \subseteq Nat
    BY <2>3
  <2> QED
    BY <2>2, <2>3, <2>4
<1>2. PICK n \in on : \A m \in on : n <= m
  <2>1. PICK x \in on : \A y \in on : ~(<<y, x>> \in OpToRel(<, Nat))
    BY <1>1, WFMin, NatLessThanWellFounded
  <2>2. \A y \in on : ~(y < x)
    BY <1>1, <2>1 DEF OpToRel
  <2> QED
    BY <1>1, <2>2
<1>3. (CHOOSE d \in on : \A e \in on : d <= e) = n
  BY <1>1, <1>2
<1>4. NextStart(c, day) = n * DaySeconds + c.Start
  BY <1>3 DEF NextStart
<1>5. \A e \in day .. n - 1 : ~IsOn(c, e)
  <2> SUFFICES ASSUME NEW e \in day .. n - 1, IsOn(c, e) PROVE FALSE
    OBVIOUS
  <2>1. e \in on /\ e < n /\ n \in Nat /\ e \in Nat
    BY <1>1, <1>2
  <2> QED
    BY <1>2, <2>1
<1> QED
  BY <1>1, <1>2, <1>4, <1>5

-----------------------------------------------------------------------------
(* What a configuration means, in days and seconds *)

(* A schedule that ends on its day. *)
LEMMA InScheduleToday ==
  ASSUME WeekOK, NEW c \in Configs, c.Start < c.End, NEW t \in Nat
  PROVE  InSchedule(c, t) <=> IsOn(c, DayOf(t)) /\ c.Start <= SecOf(t) /\ SecOf(t) <= c.End
<1> DEFINE D == DaySeconds
           day == DayOf(t)
           sec == SecOf(t)
<1>1. D \in Nat \ {0} /\ day \in Nat /\ sec \in 0 .. D - 1 /\ t = day * D + sec
  BY TimeIsDayAndSecond DEF WeekOK
<1>2. c.Start \in 0 .. D - 1 /\ c.End \in 0 .. D + 1 /\ (c.End > D - 1 => c.End = NoEndTime)
  BY <1>1 DEF Configs, NoEndTime
<1>3. (day - 1) * D + D = day * D /\ day * D \in Nat /\ (day - 1) * D \in Int
  BY <1>1
<1>4. t \in Lasts(c, day) <=> c.Start <= sec /\ sec <= c.End
  <2>1. CASE c.End = NoEndTime
    BY <1>1, <1>2, <1>3, <2>1 DEF Lasts, NoEndTime
  <2>2. CASE c.End # NoEndTime
    BY <1>1, <1>2, <1>3, <2>2 DEF Lasts, NoEndTime
  <2> QED
    BY <2>1, <2>2
<1>5. t \notin Lasts(c, day - 1)
  <2>1. CASE c.End = NoEndTime
    BY <1>1, <1>2, <1>3, <2>1 DEF Lasts, NoEndTime
  <2>2. CASE c.End # NoEndTime
    BY <1>1, <1>2, <1>3, <2>2 DEF Lasts, NoEndTime
  <2> QED
    BY <2>1, <2>2
<1>6. day - 1 .. day = {day - 1, day}
  BY <1>1
<1> QED
  BY <1>4, <1>5, <1>6 DEF InSchedule

(* The last second of a schedule that ends on the next day. *)
LastSec(c) == IF c.End = c.Start THEN c.End - 1 ELSE c.End

(* A schedule that ends on the next day. *)
LEMMA InScheduleNextDay ==
  ASSUME WeekOK, NEW c \in Configs, ~(c.Start < c.End), NEW t \in Nat
  PROVE  InSchedule(c, t) <=> \/ c.Start <= SecOf(t) /\ IsOn(c, DayOf(t))
                              \/ SecOf(t) <= LastSec(c) /\ IsOn(c, DayOf(t) - 1)
<1> DEFINE D == DaySeconds
           day == DayOf(t)
           sec == SecOf(t)
<1>1. D \in Nat \ {0} /\ day \in Nat /\ sec \in 0 .. D - 1 /\ t = day * D + sec
  BY TimeIsDayAndSecond DEF WeekOK
<1>2. c.Start \in 0 .. D - 1 /\ c.End \in 0 .. D - 1 /\ c.End <= c.Start
  BY <1>1 DEF Configs, NoEndTime
<1>3. (day - 1) * D + D = day * D /\ (day + 1) * D = day * D + D /\ day * D \in Nat /\ (day - 1) * D \in Int
      /\ day - 1 + 1 = day
  BY <1>1
<1>4. LastSec(c) \in Int /\ -1 <= LastSec(c) /\ LastSec(c) < c.Start
  BY <1>2 DEF LastSec
<1> HIDE DEF D, day, sec
<1>5. t \in Lasts(c, day) <=> c.Start <= sec
  <2>1. Lasts(c, day) = day * D + c.Start .. (day + 1) * D + LastSec(c)
    BY DEF Lasts, LastSec, D
  <2> QED
    BY <1>1, <1>2, <1>3, <1>4, <2>1
<1>6. t \in Lasts(c, day - 1) <=> sec <= LastSec(c)
  <2>1. Lasts(c, day - 1) = (day - 1) * D + c.Start .. (day - 1 + 1) * D + LastSec(c)
    BY DEF Lasts, LastSec, D
  <2> QED
    BY <1>1, <1>2, <1>3, <1>4, <2>1
<1>7. day - 1 .. day = {day - 1, day}
  BY <1>1
<1> QED
  BY <1>5, <1>6, <1>7 DEF InSchedule, day, sec

(* A time up to and with a second of a day; and before it. *)
LEMMA UpTo ==
  ASSUME WeekOK, NEW x \in Nat, NEW d \in Nat, NEW s \in 0 .. DaySeconds - 1
  PROVE  /\ x <= d * DaySeconds + s => DayOf(x) < d \/ (DayOf(x) = d /\ SecOf(x) <= s)
         /\ x < d * DaySeconds + s => DayOf(x) < d \/ (DayOf(x) = d /\ SecOf(x) < s)
<1> DEFINE t == d * DaySeconds + s
<1>1. DaySeconds \in Nat \ {0}
  BY DEF WeekOK
<1>2. t \in Nat
  BY <1>1
<1>3. DayOf(t) = d /\ SecOf(t) = s
  BY <1>1, QuotientAndRest DEF DayOf, SecOf
<1> HIDE DEF t
<1>4. /\ DayOf(x) \in Nat /\ SecOf(x) \in 0 .. DaySeconds - 1 /\ x = DayOf(x) * DaySeconds + SecOf(x)
      /\ t = d * DaySeconds + s
  BY <1>2, <1>3, TimeIsDayAndSecond
<1>5. x <= t => DayOf(x) <= d /\ (DayOf(x) = d => SecOf(x) <= s)
  BY <1>2, <1>3, DaysInOrder
<1>6. x < t /\ DayOf(x) = d => SecOf(x) # s
  BY <1>1, <1>4
<1>7. x < t => x <= t
  BY <1>2
<1>8. x <= t => DayOf(x) < d \/ (DayOf(x) = d /\ SecOf(x) <= s)
  BY <1>4, <1>5
<1>9. x < t => DayOf(x) < d \/ (DayOf(x) = d /\ SecOf(x) < s)
  BY <1>1, <1>4, <1>6, <1>7, <1>8
<1> QED
  BY <1>8, <1>9 DEF t

-----------------------------------------------------------------------------
(* SchConfig::Check *)

(* Of a schedule that ends on its day, or not at all. *)
LEMMA ChecksToday ==
  ASSUME WeekOK, NEW c \in Configs, c.Start < c.End, NEW n \in Nat
  PROVE  ChecksRight(c, n)
<1> DEFINE D == DaySeconds
           day == DayOf(n)
           sec == SecOf(n)
           In(x) == InSchedule(c, x)
           next == NextCheck(c, n, "OutSch")
<1>1. D \in Nat \ {0} /\ day \in Nat /\ sec \in 0 .. D - 1 /\ n = day * D + sec
  BY TimeIsDayAndSecond DEF WeekOK
<1>2. /\ c.Start \in 0 .. D - 1 /\ c.End \in Int /\ (c.End \in 0 .. D - 1 \/ c.End = NoEndTime)
      /\ NoEndTime = D + 1 /\ c.Weekdays \subseteq 0 .. WeekdayCount - 1
  BY <1>1 DEF Configs, NoEndTime
<1>3. \A x \in Nat : In(x) <=> IsOn(c, DayOf(x)) /\ c.Start <= SecOf(x) /\ SecOf(x) <= c.End
  BY InScheduleToday
<1>4. IsIn(c, n, "OutSch") = In(n)
  BY <1>1, <1>3 DEF IsIn, EndsToday, InSchedule
<1>5. SUFFICES /\ next # 0 => next > n
               /\ next = 0 => c.Weekdays = {} \/ (In(n) /\ c.End = NoEndTime)
               /\ c.End # NoEndTime \/ ~In(n)
                    => \A x \in n .. IF next = 0 THEN n + WeekdayCount * DaySeconds ELSE next - 1 : In(x) = In(n)
  BY <1>2, <1>4 DEF ChecksRight
<1>5a. /\ In(n) => next = IF c.End = NoEndTime THEN 0 ELSE day * D + c.End + 1
       /\ ~In(n) => next = IF c.Weekdays = {} THEN 0 ELSE NextStart(c, IF c.End < sec THEN day + 1 ELSE day)
  <2>1. ~(c.Start >= c.End) /\ c.Start < c.End
    BY <1>2
  <2>2. In(n) => IsIn(c, n, "OutSch")
    BY <1>4
  <2>3. ~In(n) => ~IsIn(c, n, "OutSch")
    BY <1>4
  <2> HIDE DEF In
  <2>4. In(n) => next = IF c.End = NoEndTime THEN 0 ELSE day * D + c.End + 1
    BY <2>1, <2>2 DEF NextCheck
  <2>5. ~In(n) => next = IF c.Weekdays = {} THEN 0 ELSE NextStart(c, IF c.End < sec THEN day + 1 ELSE day)
    BY <2>1, <2>3 DEF NextCheck
  <2> QED
    BY <2>4, <2>5
<1>6. \A x \in Nat : x >= n => DayOf(x) \in Nat /\ SecOf(x) \in 0 .. D - 1
                                 /\ day <= DayOf(x) /\ (day = DayOf(x) => sec <= SecOf(x))
  BY <1>1, TimeIsDayAndSecond, DaysInOrder
<1>7. \A x : In(x) \in BOOLEAN
  BY DEF InSchedule
<1>8. CASE In(n) /\ c.End = NoEndTime
  <2>1. next = 0
    BY <1>8, <1>5a
  <2> QED
    BY <1>8, <2>1
<1>9. CASE In(n) /\ c.End # NoEndTime
  <2>1. next = day * D + c.End + 1
    BY <1>9, <1>5a
  <2>0. c.Start <= sec /\ sec <= c.End
    BY <1>1, <1>3, <1>9
  <2> HIDE DEF next, In, day, sec
  <2>2. next > n /\ next # 0 /\ next - 1 = day * D + c.End
    BY <1>1, <1>2, <1>9, <2>0, <2>1
  <2>3. ASSUME NEW x \in n .. next - 1 PROVE In(x)
    <3>1. x \in Nat /\ x >= n /\ x <= day * D + c.End
      BY <1>1, <1>2, <2>2
    <3>2. DayOf(x) < day \/ (DayOf(x) = day /\ SecOf(x) <= c.End)
      BY <1>1, <1>2, <1>9, <3>1, UpTo
    <3>3. DayOf(x) = day /\ sec <= SecOf(x) /\ SecOf(x) <= c.End /\ SecOf(x) \in Nat
      BY <1>1, <1>6, <3>1, <3>2
    <3> QED
      BY <1>1, <1>2, <1>3, <1>9, <3>1, <3>3 DEF day, sec
  <2> QED
    BY <1>7, <1>9, <2>2, <2>3
<1>10. CASE ~In(n) /\ c.Weekdays = {}
  <2>1. \A x \in Nat : ~In(x)
    BY <1>3, <1>10 DEF IsOn
  <2>2. next = 0 /\ WeekdayCount * DaySeconds \in Nat
    BY <1>10, <1>5a DEF WeekOK
  <2> HIDE DEF next, In
  <2> QED
    BY <1>7, <1>10, <2>1, <2>2
<1>11. CASE ~In(n) /\ c.Weekdays # {}
  <2> DEFINE from == IF c.End < sec THEN day + 1 ELSE day
  <2>1. next = NextStart(c, from)
    BY <1>11, <1>5a
  <2>2. from \in Nat /\ day <= from
    BY <1>1
  <2>3. PICK d \in Nat : /\ d >= from /\ IsOn(c, d) /\ NextStart(c, from) = d * D + c.Start
                         /\ \A e \in from .. d - 1 : ~IsOn(c, e)
    BY <1>2, <1>11, <2>2, NextStartIs
  <2>4. d * D + c.Start > n
    <3>1. CASE d = day
      <4>1. sec < c.Start
        BY <1>1, <1>2, <1>3, <1>11, <2>3, <3>1
      <4> QED
        BY <1>1, <1>2, <3>1, <4>1
    <3>2. CASE d # day
      <4>0. day < d
        BY <1>1, <2>2, <2>3, <3>2
      <4>1. day * D + D <= d * D
        BY <1>1, <4>0, LaterDay
      <4> QED
        BY <1>1, <1>2, <4>1
    <3> QED
      BY <3>1, <3>2
  <2>5. next = d * D + c.Start /\ next \in Nat
    BY <1>1, <1>2, <2>1, <2>3
  <2> HIDE DEF next, In, day, sec
  <2>6. ASSUME NEW x \in n .. next - 1 PROVE ~In(x)
    <3>1. x \in Nat /\ x >= n /\ x < d * D + c.Start
      BY <1>1, <2>5
    <3>2. DayOf(x) < d \/ (DayOf(x) = d /\ SecOf(x) < c.Start)
      BY <1>1, <1>2, <3>1, UpTo
    <3>3. DayOf(x) \in Nat /\ SecOf(x) \in 0 .. D - 1 /\ day <= DayOf(x) /\ (day = DayOf(x) => sec <= SecOf(x))
      BY <1>6, <3>1
    <3>4. CASE DayOf(x) = d
      BY <1>2, <1>3, <3>1, <3>2, <3>3, <3>4
    <3>5. CASE DayOf(x) < d /\ from <= DayOf(x)
      <4>1. DayOf(x) \in from .. d - 1
        BY <2>2, <3>3, <3>5
      <4> QED
        BY <1>3, <2>3, <3>1, <4>1
    <3>6. CASE DayOf(x) < from
      <4>1. c.End < sec /\ DayOf(x) = day
        BY <1>1, <3>3, <3>6
      <4> QED
        BY <1>1, <1>2, <1>3, <3>1, <3>3, <4>1
    <3> QED
      BY <2>2, <3>2, <3>3, <3>4, <3>5, <3>6
  <2> QED
    BY <1>1, <1>7, <1>11, <2>4, <2>5, <2>6
<1> QED
  BY <1>8, <1>9, <1>10, <1>11

(* Of a schedule that ends on the next day. *)
LEMMA ChecksNextDay ==
  ASSUME WeekOK, NEW c \in Configs, ~(c.Start < c.End), NEW n \in Nat
  PROVE  ChecksRight(c, n)
<1> DEFINE D == DaySeconds
           day == DayOf(n)
           sec == SecOf(n)
           last == LastSec(c)
           In(x) == InSchedule(c, x)
           next == NextCheck(c, n, "OutSch")
           late == IF c.Start = c.End /\ In(n) THEN 2 ELSE 1
<1>1. D \in Nat \ {0} /\ day \in Nat /\ sec \in 0 .. D - 1 /\ n = day * D + sec
  BY TimeIsDayAndSecond DEF WeekOK
<1>2. /\ c.Start \in 0 .. D - 1 /\ c.End \in 0 .. D - 1 /\ c.End <= c.Start
      /\ c.End # NoEndTime /\ c.Weekdays \subseteq 0 .. WeekdayCount - 1
  BY <1>1 DEF Configs, NoEndTime
<1>3. /\ last \in Int /\ -1 <= last /\ last < c.Start /\ last + 1 \in 0 .. D - 1
      /\ last = IF c.End = c.Start THEN c.End - 1 ELSE c.End
  <2>1. last = IF c.End = c.Start THEN c.End - 1 ELSE c.End
    BY DEF LastSec
  <2> HIDE DEF last, In, next, late, day, sec
  <2>2. CASE c.End = c.Start
    BY <1>1, <1>2, <2>1, <2>2
  <2>3. CASE c.End # c.Start
    BY <1>1, <1>2, <2>1, <2>3
  <2> QED
    BY <2>2, <2>3
<1>4. \A x \in Nat : In(x) <=> \/ c.Start <= SecOf(x) /\ IsOn(c, DayOf(x))
                               \/ SecOf(x) <= last /\ IsOn(c, DayOf(x) - 1)
  BY InScheduleNextDay
<1>5. /\ c.Start <= sec => (In(n) <=> IsOn(c, day))
      /\ sec < c.Start => (In(n) <=> sec <= last /\ IsOn(c, day - 1))
      /\ sec < c.Start => (sec <= last <=> sec <= c.End)
  <2> HIDE DEF last, In
  <2>1. In(n) <=> (c.Start <= sec /\ IsOn(c, day)) \/ (sec <= last /\ IsOn(c, day - 1))
    BY <1>4
  <2> HIDE DEF day, sec
  <2> QED
    BY <1>1, <1>2, <1>3, <2>1
<1>6. In(n) \in BOOLEAN /\ IsOn(c, day) \in BOOLEAN /\ IsOn(c, day - 1) \in BOOLEAN
  BY DEF InSchedule, IsOn
<1>7. IsIn(c, n, "OutSch") = In(n)
  <2>1. IsIn(c, n, "OutSch") = IF c.Start <= sec THEN IsOn(c, day) ELSE sec <= c.End /\ IsOn(c, day - 1)
    BY DEF IsIn, EndsNextDay
  <2> HIDE DEF last, In, day, sec
  <2> QED
    BY <1>1, <1>2, <1>5, <1>6, <2>1
<1>8. /\ In(n) => next = (IF c.Start <= sec THEN day + 1 ELSE day) * D + c.End + 1
      /\ ~In(n) => next = IF c.Weekdays = {} THEN 0
                            ELSE NextStart(c, IF c.Start <= sec THEN day + 1 ELSE day)
  <2>1. c.Start >= c.End /\ ~(c.Start < c.End)
    BY <1>2
  <2>2. (In(n) => IsIn(c, n, "OutSch")) /\ (~In(n) => ~IsIn(c, n, "OutSch"))
    BY <1>7
  <2> HIDE DEF In
  <2>3. In(n) => next = (IF c.Start <= sec THEN day + 1 ELSE day) * D + c.End + 1
    BY <1>2, <2>1, <2>2 DEF NextCheck
  <2>4. ~In(n) => next = IF c.Weekdays = {} THEN 0
                           ELSE NextStart(c, IF c.Start <= sec THEN day + 1 ELSE day)
    BY <2>1, <2>2 DEF NextCheck
  <2> QED
    BY <2>3, <2>4
<1>9. SUFFICES /\ next # 0 => next > n
               /\ next = 0 => c.Weekdays = {}
               /\ \A x \in n .. IF next = 0 THEN n + WeekdayCount * DaySeconds ELSE next - late : In(x) = In(n)
  BY <1>7 DEF ChecksRight
<1>10. \A x \in Nat : x >= n => DayOf(x) \in Nat /\ SecOf(x) \in 0 .. D - 1
                                  /\ day <= DayOf(x) /\ (day = DayOf(x) => sec <= SecOf(x))
  BY <1>1, TimeIsDayAndSecond, DaysInOrder
<1>11. \A x : In(x) \in BOOLEAN
  BY DEF InSchedule
<1>12. CASE In(n)
  <2> DEFINE e == IF c.Start <= sec THEN day + 1 ELSE day
  <2>1. next = e * D + c.End + 1 /\ e \in Nat /\ e * D \in Nat
    BY <1>1, <1>8, <1>12
  <2>2. late = IF c.Start = c.End THEN 2 ELSE 1
    BY <1>12
  <2> HIDE DEF next, In, late, last
  <2>3. next - late = e * D + last
    BY <1>2, <1>3, <2>1, <2>2
  <2>4. next > n
    <3>1. CASE c.Start <= sec
      <4>1. e = day + 1 /\ day * D + D <= e * D
        BY <1>1, <3>1, LaterDay
      <4> QED
        BY <1>1, <1>2, <2>1, <4>1
    <3>2. CASE ~(c.Start <= sec)
      <4>1. e = day /\ sec <= c.End
        BY <1>1, <1>2, <1>5, <1>12, <3>2
      <4> QED
        BY <1>1, <1>2, <2>1, <4>1
    <3> QED
      BY <3>1, <3>2
  <2> HIDE DEF day, sec
  <2>5. ASSUME NEW x \in n .. next - late PROVE In(x)
    <3> HIDE DEF e
    <3>1. x \in Nat /\ x >= n /\ x < e * D + (last + 1)
      BY <1>1, <1>3, <2>1, <2>3
    <3>2. DayOf(x) < e \/ (DayOf(x) = e /\ SecOf(x) < last + 1)
      BY <1>3, <2>1, <3>1, UpTo
    <3>3. DayOf(x) \in Nat /\ SecOf(x) \in 0 .. D - 1 /\ day <= DayOf(x) /\ (day = DayOf(x) => sec <= SecOf(x))
      BY <1>10, <3>1
    <3>4. CASE c.Start <= sec
      <4>1. e = day + 1 /\ IsOn(c, day)
        BY <1>5, <1>12, <3>4 DEF e
      <4>2. CASE DayOf(x) = day
        BY <1>1, <1>2, <1>4, <3>1, <3>3, <3>4, <4>1, <4>2
      <4>3. CASE DayOf(x) # day
        <5>1. DayOf(x) = day + 1 /\ SecOf(x) <= last /\ DayOf(x) - 1 = day
          BY <1>1, <1>3, <3>2, <3>3, <4>1, <4>3
        <5> QED
          BY <1>4, <3>1, <4>1, <5>1
      <4> QED
        BY <4>2, <4>3
    <3>5. CASE ~(c.Start <= sec)
      <4>1. e = day /\ IsOn(c, day - 1)
        BY <1>1, <1>2, <1>5, <1>12, <3>5 DEF e
      <4>2. DayOf(x) = day /\ SecOf(x) <= last
        BY <1>1, <1>3, <3>2, <3>3, <4>1
      <4> QED
        BY <1>4, <3>1, <4>1, <4>2
    <3> QED
      BY <3>4, <3>5
  <2> QED
    BY <1>1, <1>11, <1>12, <2>1, <2>4, <2>5
<1>13. CASE ~In(n) /\ c.Weekdays = {}
  <2>1. \A x \in Nat : ~In(x)
    BY <1>4, <1>13 DEF IsOn
  <2>2. next = 0 /\ WeekdayCount * DaySeconds \in Nat
    BY <1>8, <1>13 DEF WeekOK
  <2> HIDE DEF next, In
  <2> QED
    BY <1>11, <1>13, <2>1, <2>2
<1>14. CASE ~In(n) /\ c.Weekdays # {}
  <2> DEFINE from == IF c.Start <= sec THEN day + 1 ELSE day
  <2>1. next = NextStart(c, from)
    BY <1>8, <1>14
  <2>2. from \in Nat /\ day <= from
    BY <1>1
  <2>3. PICK d \in Nat : /\ d >= from /\ IsOn(c, d) /\ NextStart(c, from) = d * D + c.Start
                         /\ \A e \in from .. d - 1 : ~IsOn(c, e)
    BY <1>2, <1>14, <2>2, NextStartIs
  <2>4. d * D + c.Start > n
    <3>1. CASE d = day
      <4>1. sec < c.Start
        BY <1>1, <1>2, <2>3, <3>1
      <4> QED
        BY <1>1, <1>2, <3>1, <4>1
    <3>2. CASE d # day
      <4>0. day < d
        BY <1>1, <2>2, <2>3, <3>2
      <4>1. day * D + D <= d * D
        BY <1>1, <4>0, LaterDay
      <4> QED
        BY <1>1, <1>2, <4>1
    <3> QED
      BY <3>1, <3>2
  <2>5. next = d * D + c.Start /\ next \in Nat
    BY <1>1, <1>2, <2>1, <2>3
  <2>6. late = 1
    BY <1>14
  <2> HIDE DEF next, In, last, late, day, sec
  <2>7. \A e \in day .. d - 1 : ~IsOn(c, e)
    <3> SUFFICES ASSUME NEW e \in day .. d - 1 PROVE ~IsOn(c, e)
      OBVIOUS
    <3>1. CASE e = day /\ c.Start <= sec
      BY <1>5, <1>14, <3>1
    <3>2. CASE ~(e = day /\ c.Start <= sec)
      <4>1. e \in from .. d - 1
        BY <1>1, <3>2
      <4> QED
        BY <2>3, <4>1
    <3> QED
      BY <3>1, <3>2
  <2>8. ASSUME NEW x \in n .. next - late, In(x) PROVE FALSE
    <3>1. x \in Nat /\ x >= n /\ x < d * D + c.Start
      BY <1>1, <2>5, <2>6
    <3>2. DayOf(x) < d \/ (DayOf(x) = d /\ SecOf(x) < c.Start)
      BY <1>1, <1>2, <3>1, UpTo
    <3>3. DayOf(x) \in Nat /\ SecOf(x) \in 0 .. D - 1 /\ day <= DayOf(x) /\ (day = DayOf(x) => sec <= SecOf(x))
      BY <1>10, <3>1
    <3>4. CASE c.Start <= SecOf(x) /\ IsOn(c, DayOf(x))
      <4>1. DayOf(x) \in day .. d - 1
        BY <1>1, <1>2, <3>2, <3>3, <3>4
      <4> QED
        BY <2>7, <3>4, <4>1
    <3>5. CASE SecOf(x) <= last /\ IsOn(c, DayOf(x) - 1)
      <4>1. CASE DayOf(x) = day
        <5>1. sec <= last /\ sec < c.Start
          BY <1>1, <1>2, <1>3, <3>3, <3>5, <4>1
        <5> QED
          BY <1>5, <1>14, <3>5, <4>1, <5>1
      <4>2. CASE DayOf(x) # day
        <5>1. DayOf(x) - 1 \in day .. d - 1
          BY <1>1, <3>2, <3>3, <4>2
        <5> QED
          BY <2>7, <3>5, <5>1
      <4> QED
        BY <4>1, <4>2
    <3> QED
      BY <1>4, <2>8, <3>1, <3>4, <3>5
  <2> QED
    BY <1>1, <1>11, <1>14, <2>4, <2>5, <2>8
<1> QED
  BY <1>12, <1>13, <1>14

(* Whether a day is in the schedule is a truth value; so is a test of it. *)
LEMMA IsOnIsBoolean == ASSUME NEW c, NEW d PROVE IsOn(c, d) \in BOOLEAN
<1>1. ASSUME NEW a, NEW S PROVE (a \in S) \in BOOLEAN
  OBVIOUS
<1> QED
  BY <1>1 DEF IsOn

(* So is the check of a schedule that ends on the next day. *)
LEMMA EndsNextDayIsBoolean == ASSUME NEW c, NEW t, NEW b PROVE EndsNextDay(c, t, b) \in BOOLEAN
<1>1. CASE c.Start <= SecOf(t)
  BY <1>1, IsOnIsBoolean DEF EndsNextDay
<1>2. CASE ~(c.Start <= SecOf(t))
  <2>1. EndsNextDay(c, t, b) = (SecOf(t) <= c.End /\ IsOn(c, DayOf(t) - 1))
    BY <1>2 DEF EndsNextDay
  <2>2. ASSUME NEW p, NEW q PROVE (p /\ q) \in BOOLEAN
    OBVIOUS
  <2> QED
    BY <2>1, <2>2
<1> QED
  BY <1>1, <1>2

(* The next time to look is a time. *)
LEMMA NextCheckIsTime ==
  ASSUME WeekOK, NEW c \in Configs, NEW t \in Nat, NEW before
  PROVE  NextCheck(c, t, before) \in Nat
<1>1. DayOf(t) \in Nat /\ DaySeconds \in Nat /\ DayOf(t) + 1 \in Nat
  BY TimeIsDayAndSecond DEF WeekOK
<1>2. c.Start \in Nat /\ (c.End # NoEndTime => c.End \in Nat) /\ c.Weekdays \subseteq 0 .. WeekdayCount - 1
  BY <1>1 DEF Configs
<1>3. ASSUME c.Weekdays # {}, NEW day \in Nat PROVE NextStart(c, day) \in Nat
  <2>1. PICK d \in Nat : NextStart(c, day) = d * DaySeconds + c.Start
    BY <1>2, <1>3, NextStartIs
  <2> QED
    BY <1>1, <1>2, <2>1
<1>4. ASSUME c.End # NoEndTime, NEW day \in Nat PROVE day * DaySeconds + c.End + 1 \in Nat
  BY <1>1, <1>2, <1>4
<1>5. CASE IsIn(c, t, before)
  <2>1. CASE c.End = NoEndTime
    BY <1>5, <2>1 DEF NextCheck
  <2>2. CASE c.End # NoEndTime
    <3>1. PICK day \in Nat : NextCheck(c, t, before) = day * DaySeconds + c.End + 1
      BY <1>1, <1>5, <2>2 DEF NextCheck
    <3> QED
      BY <1>4, <2>2, <3>1
  <2> QED
    BY <2>1, <2>2
<1>6. CASE ~IsIn(c, t, before)
  <2>1. CASE c.Weekdays = {}
    BY <1>6, <2>1 DEF NextCheck
  <2>2. CASE c.Weekdays # {}
    <3>1. PICK day \in Nat : NextCheck(c, t, before) = NextStart(c, day)
      BY <1>1, <1>6, <2>2 DEF NextCheck
    <3> QED
      BY <1>3, <2>2, <3>1
  <2> QED
    BY <2>1, <2>2
<1> QED
  BY <1>5, <1>6

(* Check says what the configuration means, at any time. *)
LEMMA ChecksAnyTime == ASSUME WeekOK, NEW c \in Configs, NEW t \in Nat PROVE ChecksRight(c, t)
BY ChecksToday, ChecksNextDay

(* A check that finds a schedule that does not last in it, or not, finds what one
   that knows nothing finds: what was before counts for one that lasts only. *)
LEMMA BeforeHardlyCounts ==
  ASSUME WeekOK, NEW c \in Configs, NEW t \in Nat, NEW before
  PROVE  /\ IsIn(c, t, before) \in BOOLEAN
         /\ ~IsIn(c, t, before) => ~IsIn(c, t, "OutSch")
         /\ IsIn(c, t, before) /\ c.End # NoEndTime => IsIn(c, t, "OutSch")
         /\ IsIn(c, t, before) = IsIn(c, t, "OutSch") => NextCheck(c, t, before) = NextCheck(c, t, "OutSch")
<1>1. EndsToday(c, t, before) \in BOOLEAN
  BY DEF EndsToday
<1>2. EndsNextDay(c, t, before) = EndsNextDay(c, t, "OutSch") /\ EndsNextDay(c, t, before) \in BOOLEAN
  BY EndsNextDayIsBoolean DEF EndsNextDay
<1>3. IsIn(c, t, before) \in BOOLEAN /\ IsIn(c, t, "OutSch") \in BOOLEAN
  BY <1>1, <1>2 DEF IsIn, EndsToday
<1>4. /\ ~EndsToday(c, t, before) => ~EndsToday(c, t, "OutSch")
      /\ EndsToday(c, t, before) /\ c.End # NoEndTime => EndsToday(c, t, "OutSch")
  BY DEF EndsToday
<1>5. IsIn(c, t, before) = IsIn(c, t, "OutSch") => NextCheck(c, t, before) = NextCheck(c, t, "OutSch")
  BY <1>3 DEF NextCheck
<1> QED
  BY <1>2, <1>3, <1>4, <1>5 DEF IsIn

(* What a state says of a time is what the configuration means. *)
Agrees(c, st, t) ==
  /\ InSchedule(c, t) => st = "InSch"
  /\ st = "InSch" => InSchedule(c, t) \/ c.End = NoEndTime

(* What a check finds holds up to the second before the next time to look. *)
LEMMA HoldsUpToTheNext ==
  ASSUME WeekOK, NEW c \in Configs, NEW time \in Nat, NEW before, NEW st,
         (st = "InSch") = IsIn(c, time, before),
         NEW t \in Nat, t >= time,
         NextCheck(c, time, before) = 0 \/ t + 1 < NextCheck(c, time, before)
  PROVE  Agrees(c, st, t)
<1> DEFINE next == NextCheck(c, time, "OutSch")
<1>1. ChecksRight(c, time)
  BY ChecksAnyTime
<1>2. /\ IsIn(c, time, "OutSch") = InSchedule(c, time)
      /\ next = 0 => c.Weekdays = {} \/ (InSchedule(c, time) /\ c.End = NoEndTime)
      /\ (c.End # NoEndTime \/ ~InSchedule(c, time)) /\ next # 0
           => \A u \in time .. next - (IF c.Start = c.End /\ InSchedule(c, time) THEN 2 ELSE 1) :
                InSchedule(c, u) = InSchedule(c, time)
  BY <1>1 DEF ChecksRight
<1>3. /\ IsIn(c, time, before) \in BOOLEAN
      /\ ~IsIn(c, time, before) => ~IsIn(c, time, "OutSch")
      /\ IsIn(c, time, before) /\ c.End # NoEndTime => IsIn(c, time, "OutSch")
      /\ IsIn(c, time, before) = IsIn(c, time, "OutSch") => NextCheck(c, time, before) = next
  BY BeforeHardlyCounts
<1>4. InSchedule(c, time) \in BOOLEAN /\ InSchedule(c, t) \in BOOLEAN /\ IsIn(c, time, "OutSch") \in BOOLEAN
  BY BeforeHardlyCounts DEF InSchedule
<1>5. CASE IsIn(c, time, before) /\ c.End = NoEndTime
  BY <1>5 DEF Agrees
<1>6. CASE ~(IsIn(c, time, before) /\ c.End = NoEndTime)
  <2>1. /\ IsIn(c, time, before) = InSchedule(c, time) /\ NextCheck(c, time, before) = next
        /\ c.End # NoEndTime \/ ~InSchedule(c, time)
    BY <1>2, <1>3, <1>4, <1>6
  <2>2. CASE next = 0
    <3>1. c.Weekdays = {}
      BY <1>2, <2>1, <2>2
    <3>2. \A u \in Nat : ~InSchedule(c, u)
      BY <3>1 DEF InSchedule, IsOn
    <3> QED
      BY <2>1, <3>2 DEF Agrees
  <2>3. CASE next # 0
    <3>1. next \in Nat
      BY <2>3, NextCheckIsTime
    <3>2. t \in time .. next - 2
      BY <2>1, <2>3, <3>1
    <3>3. InSchedule(c, t) = InSchedule(c, time)
      BY <1>2, <2>1, <2>3, <3>1, <3>2
    <3> QED
      BY <2>1, <3>3 DEF Agrees
  <2> QED
    BY <2>2, <2>3
<1> QED
  BY <1>5, <1>6

-----------------------------------------------------------------------------
(* The task *)

(* The clock and the configurations there are. *)
ConfigsKept ==
  /\ now \in Nat /\ cfg \in Configs
  /\ call.at \in {"idle", "start", "stop"} /\ (call.at = "start" => call.config \in Configs)
  /\ emit.at \in {"idle", "called", "tell"}
  /\ schSt \in {"Unknown", "Restart", "Stopped", "Stopping", "InSch", "OutSch", "Disposing"}

(* A task that was disposed of, and whose call was waited for, does nothing. *)
DisposedDoesNothing == schSt = "Disposing" /\ call.at # "stop" => emit = Idle /\ due = 0 /\ told = "none"

(* What was told is what the state says, but for what is about to be told. *)
ToldIsState ==
  /\ emit.at = "tell" =>
       /\ emit.sch \in {"InSch", "OutSch"} /\ emit.restart \in BOOLEAN
       /\ schSt \notin {"Unknown", "Stopped"} /\ (schSt \in {"InSch", "OutSch"} => emit.sch = schSt)
       /\ ~emit.restart => ((emit.sch = "InSch" => told # "InSch") /\ (emit.sch = "OutSch" => told = "InSch"))
  /\ emit.at # "tell" =>
       /\ schSt = "InSch" => told = "InSch"
       /\ schSt = "OutSch" => told # "InSch"
       /\ schSt \in {"Stopped", "Unknown"} => told = "none"
  /\ schSt = "Stopping" => call.at = "stop"
  /\ call.at = "stop" => schSt \in {"Stopping", "Disposing"}
  /\ ~again

SchInv == ConfigsKept /\ DisposedDoesNothing /\ ToldIsState

(* The times that were read are not later than now. *)
ClockWasRead ==
  /\ emit.at = "called" => emit.time \in Nat /\ emit.time <= now
  /\ call.at = "start" => call.time \in Nat /\ call.time <= now

(* Up to the second before the timer calls, the state is what the configuration
   says; without a timer for ever. The thread that was called is about to look, and
   a task that was stopped waits for its owner. *)
Watches ==
  schSt \in {"InSch", "OutSch", "Stopped"} /\ emit.at # "called" /\ ~(schSt = "Stopped" /\ due = 0)
    => \A t \in Nat : t >= now /\ (due = 0 \/ t + 1 < due) => Agrees(cfg, schSt, t)

(* At first nothing was said. *)
LEMMA InitInv == SchInit => SchInv
BY DEF SchInit, SchInv, ConfigsKept, DisposedDoesNothing, ToldIsState, Idle

(* The clock and the timer thread. *)
LEMMA TimerStep == SchInv /\ (Tick \/ TimerThread) => SchInv'
<1> SUFFICES ASSUME SchInv, Tick \/ TimerThread PROVE SchInv'
  OBVIOUS
<1> USE DEF SchInv
<1>1. CASE Tick
  BY <1>1 DEF Tick, ConfigsKept, DisposedDoesNothing, ToldIsState
<1>2. CASE TimerCalls
  BY <1>2 DEF TimerCalls, ConfigsKept, DisposedDoesNothing, ToldIsState, Idle
<1>3. CASE EmitOnTimer
  <2>1. emit.at = "called" /\ UNCHANGED <<now, cfg, call, calls, told, again>>
    BY <1>3 DEF EmitOnTimer
  <2>2. CASE emit' = Idle /\ UNCHANGED schSt
    BY <1>3, <2>1, <2>2 DEF EmitOnTimer, ConfigsKept, DisposedDoesNothing, ToldIsState, Idle
  <2>3. CASE ~(emit' = Idle /\ UNCHANGED schSt)
    <3> DEFINE sch == IF IsIn(cfg, emit.time, schSt) THEN "InSch" ELSE "OutSch"
    <3>1. /\ schSt \notin {"Stopping", "Disposing"} /\ schSt' = sch
          /\ emit' = [at |-> "tell", sch |-> sch, restart |-> schSt = "Restart"]
          /\ IsChanged(cfg, emit.time, schSt) \/ schSt = "Restart"
      BY <1>3, <2>3 DEF EmitOnTimer
    <3>2. IsChanged(cfg, emit.time, schSt) => (schSt = "InSch" => sch = "OutSch") /\ (schSt # "InSch" => sch = "InSch")
      <4>1. IsIn(cfg, emit.time, schSt) \in BOOLEAN
        <5>1. EndsToday(cfg, emit.time, schSt) \in BOOLEAN
          BY DEF EndsToday
        <5>2. EndsNextDay(cfg, emit.time, schSt) \in BOOLEAN
          BY EndsNextDayIsBoolean
        <5> QED
          BY <5>1, <5>2 DEF IsIn
      <4> QED
        BY <4>1 DEF IsChanged
    <3> HIDE DEF sch
    <3>3. sch \in {"InSch", "OutSch"}
      BY DEF sch
    <3>4. ConfigsKept' /\ DisposedDoesNothing'
      BY <2>1, <3>1, <3>3 DEF ConfigsKept, DisposedDoesNothing
    <3>5. schSt # "Restart" => (sch = "InSch" => told # "InSch") /\ (sch = "OutSch" => told = "InSch")
      BY <2>1, <3>1, <3>2, <3>3 DEF ToldIsState, ConfigsKept
    <3>6. ToldIsState'
      BY <2>1, <3>1, <3>3, <3>5 DEF ToldIsState
    <3> QED
      BY <3>4, <3>6
  <2> QED
    BY <2>2, <2>3
<1>4. CASE OnStateChanged
  <2>1. /\ emit.at = "tell" /\ emit' = Idle /\ told' = emit.sch
        /\ again' = (~emit.restart /\ (told = emit.sch \/ (told = "none" /\ emit.sch = "OutSch")))
        /\ UNCHANGED <<now, cfg, schSt, due, call, calls>>
    BY <1>4 DEF OnStateChanged
  <2>2. ~again'
    BY <2>1 DEF ToldIsState
  <2>3. ConfigsKept' /\ DisposedDoesNothing'
    BY <2>1 DEF ConfigsKept, DisposedDoesNothing, Idle
  <2>4. ToldIsState'
    BY <2>1, <2>2 DEF ToldIsState, Idle
  <2> QED
    BY <2>3, <2>4
<1> QED
  BY <1>1, <1>2, <1>3, <1>4 DEF TimerThread

(* The owner of the task. *)
LEMMA OwnerStep == SchInv /\ (Owner \/ StartCalled \/ Restart \/ StopCalled) => SchInv'
<1> SUFFICES ASSUME SchInv, Owner \/ StartCalled \/ Restart \/ StopCalled PROVE SchInv'
  OBVIOUS
<1> USE DEF SchInv
<1>1. CASE StartCalled
  <2>1. PICK days \in SUBSET (0 .. WeekdayCount - 1) :
          call' = [at |-> "start", time |-> now, config |-> [cfg EXCEPT !.Weekdays = days]]
    BY <1>1 DEF StartCalled
  <2>2. call.at = "idle" /\ UNCHANGED <<now, cfg, schSt, due, emit, told, again>>
    BY <1>1 DEF StartCalled, NextCall, Idle
  <2>3. [cfg EXCEPT !.Weekdays = days] \in Configs
    BY DEF ConfigsKept, Configs
  <2>4. ConfigsKept'
    BY <2>1, <2>2, <2>3 DEF ConfigsKept
  <2>5. DisposedDoesNothing' /\ ToldIsState'
    BY <2>1, <2>2 DEF DisposedDoesNothing, ToldIsState
  <2> QED
    BY <2>4, <2>5
<1>2. CASE Start
  <2>1. /\ call.at = "start" /\ call' = Idle /\ cfg' = call.config
        /\ schSt' = IF schSt = "Unknown" THEN "Stopped" ELSE schSt
        /\ schSt = "Disposing" => due' = due
        /\ UNCHANGED <<now, emit, calls, told, again>>
    BY <1>2 DEF Start
  <2>2. ConfigsKept' /\ DisposedDoesNothing'
    BY <2>1 DEF ConfigsKept, DisposedDoesNothing, Idle
  <2>3. ToldIsState'
    BY <2>1 DEF ToldIsState, Idle
  <2> QED
    BY <2>2, <2>3
<1>3. CASE Restart
  BY <1>3 DEF Restart, NextCall, ConfigsKept, DisposedDoesNothing, ToldIsState, Idle
<1>4. CASE StopCalled
  BY <1>4 DEF StopCalled, NextCall, ConfigsKept, DisposedDoesNothing, ToldIsState, Idle
<1>5. CASE StopWaits
  BY <1>5 DEF StopWaits, ConfigsKept, DisposedDoesNothing, ToldIsState, Idle
<1> QED
  BY <1>1, <1>2, <1>3, <1>4, <1>5 DEF Owner

(* The invariant. *)
THEOREM SchInvariant == SchSpec => []SchInv
<1>1. SchInit => SchInv
  BY InitInv
<1>2. SchInv /\ [SchNext]_schVars => SchInv'
  <2>1. SchInv /\ UNCHANGED schVars => SchInv'
    BY DEF SchInv, ConfigsKept, DisposedDoesNothing, ToldIsState, schVars
  <2> QED
    BY <2>1, TimerStep, OwnerStep DEF SchNext
<1> QED
  BY <1>1, <1>2, PTL DEF SchSpec

(* At first the task is not known. *)
LEMMA InitWatches == SchInit => ClockWasRead /\ Watches
BY DEF SchInit, ClockWasRead, Watches, Idle

(* The clock, and what was read from it. *)
LEMMA ClockStep == ConfigsKept /\ ClockWasRead /\ [SchNext]_schVars => ClockWasRead'
<1> SUFFICES ASSUME ConfigsKept, ClockWasRead, [SchNext]_schVars PROVE ClockWasRead'
  OBVIOUS
<1> USE DEF ConfigsKept, ClockWasRead
<1>1. CASE Tick
  BY <1>1 DEF Tick
<1>2. CASE TimerThread
  BY <1>2 DEF TimerThread, TimerCalls, EmitOnTimer, OnStateChanged, Idle
<1>3. CASE Owner
  BY <1>3 DEF Owner, Start, StopWaits, Idle
<1>4. CASE StartCalled \/ Restart \/ StopCalled
  BY <1>4 DEF StartCalled, Restart, StopCalled, NextCall, Idle
<1>5. CASE UNCHANGED schVars
  BY <1>5 DEF schVars
<1> QED
  BY <1>1, <1>2, <1>3, <1>4, <1>5 DEF SchNext

(* What the state says stays right until the timer calls. *)
LEMMA WatchesStep ==
  ASSUME WeekOK PROVE SchInv /\ ClockWasRead /\ Watches /\ [SchNext]_schVars => Watches'
<1> SUFFICES ASSUME SchInv, ClockWasRead, Watches, [SchNext]_schVars PROVE Watches'
  OBVIOUS
<1>0. ConfigsKept /\ ToldIsState
  BY DEF SchInv
<1>1. CASE Tick
  <2>1. now' = now + 1 /\ now \in Nat /\ UNCHANGED <<cfg, schSt, due, emit>>
    BY <1>0, <1>1 DEF Tick, ConfigsKept
  <2>2. \A t \in Nat : t >= now' => t >= now
    BY <2>1
  <2> QED
    BY <2>1, <2>2 DEF Watches
<1>2. CASE TimerCalls
  BY <1>2 DEF TimerCalls, Watches
<1>3. CASE EmitOnTimer
  <2> DEFINE next == NextCheck(cfg, emit.time, schSt)
             in == IsIn(cfg, emit.time, schSt)
  <2>1. emit.at = "called" /\ UNCHANGED <<now, cfg>>
    BY <1>3 DEF EmitOnTimer
  <2>2. CASE schSt \in {"Stopping", "Disposing"}
    BY <1>3, <2>2 DEF EmitOnTimer, Watches
  <2>3. CASE schSt \notin {"Stopping", "Disposing"}
    <3>1. /\ due' = IF next = 0 THEN due ELSE next
          /\ \/ schSt' = IF in THEN "InSch" ELSE "OutSch"
             \/ ~IsChanged(cfg, emit.time, schSt) /\ schSt' = schSt
      BY <1>3, <2>3 DEF EmitOnTimer
    <3>2. emit.time \in Nat /\ now \in Nat /\ emit.time <= now /\ cfg \in Configs
      BY <1>0, <2>1 DEF ConfigsKept, ClockWasRead
    <3>3. in \in BOOLEAN
      BY <3>2, BeforeHardlyCounts
    <3>4. (schSt' = "InSch") = in
      BY <3>1, <3>3 DEF IsChanged
    <3>5. ASSUME NEW t \in Nat, t >= now', due' = 0 \/ t + 1 < due' PROVE Agrees(cfg', schSt', t)
      <4> HIDE DEF in, next
      <4>1. t >= emit.time
        BY <2>1, <3>2, <3>5
      <4>2. next = 0 \/ t + 1 < next
        BY <3>1, <3>5
      <4>3. Agrees(cfg, schSt', t)
        BY <3>2, <3>4, <4>1, <4>2, HoldsUpToTheNext DEF in, next
      <4> QED
        BY <2>1, <4>3
    <3> QED
      BY <3>5 DEF Watches
  <2> QED
    BY <2>2, <2>3
<1>4. CASE OnStateChanged
  BY <1>4 DEF OnStateChanged, Watches, Idle
<1>5. CASE StartCalled
  BY <1>5 DEF StartCalled, Watches
<1>6. CASE Start
  <2> DEFINE c == call.config
             next == NextCheck(c, call.time, schSt)
             in == IsIn(c, call.time, schSt)
  <2>1. /\ call.at = "start" /\ cfg' = c /\ UNCHANGED <<now, emit>>
        /\ schSt' = IF schSt = "Unknown" THEN "Stopped" ELSE schSt
        /\ due' = IF schSt \in {"Disposing", "Restart"} THEN due
                  ELSE IF IsChanged(c, call.time, schSt) THEN call.time + 1 ELSE next
    BY <1>6 DEF Start
  <2>2. call.time \in Nat /\ now \in Nat /\ call.time <= now /\ c \in Configs
    BY <1>0, <2>1 DEF ConfigsKept, ClockWasRead
  <2>3. in \in BOOLEAN
    BY <2>2, BeforeHardlyCounts
  <2> HIDE DEF c
  <2>4. ASSUME schSt' \in {"InSch", "OutSch", "Stopped"},
               NEW t \in Nat, t >= now', due' = 0 \/ t + 1 < due'
        PROVE  Agrees(cfg', schSt', t)
    <3>1. due' = IF IsChanged(c, call.time, schSt) THEN call.time + 1 ELSE next
      BY <2>1, <2>4
    <3>2. CASE IsChanged(c, call.time, schSt)
      BY <2>1, <2>2, <2>4, <3>1, <3>2
    <3>3. CASE ~IsChanged(c, call.time, schSt)
      <4>1. (schSt = "InSch") = in /\ (schSt' = "InSch") = in
        BY <2>1, <2>3, <3>3 DEF IsChanged
      <4>2. next = 0 \/ t + 1 < next
        BY <2>4, <3>1, <3>3
      <4>3. t >= call.time
        BY <2>1, <2>2, <2>4
      <4>4. Agrees(c, schSt', t)
        BY <2>2, <4>1, <4>2, <4>3, HoldsUpToTheNext
      <4> QED
        BY <2>1, <4>4
    <3> QED
      BY <3>2, <3>3
  <2> QED
    BY <2>4 DEF Watches
<1>7. CASE Restart \/ StopCalled
  BY <1>7 DEF Restart, StopCalled, Watches
<1>8. CASE StopWaits
  BY <1>8 DEF StopWaits, Watches
<1>9. CASE UNCHANGED schVars
  BY <1>9 DEF schVars, Watches
<1> QED
  BY <1>1, <1>2, <1>3, <1>4, <1>5, <1>6, <1>7, <1>8, <1>9 DEF SchNext, TimerThread, Owner

(* Check says what the configuration means, whenever it is asked and whatever
   the configuration is (SchConfig::Check). *)
THEOREM CheckIsAlwaysRight == WeekOK /\ SchSpec => []CheckIsRight
<1> SUFFICES ASSUME WeekOK PROVE SchSpec => []CheckIsRight
  OBVIOUS
<1>1. SchInv => CheckIsRight
  BY ChecksToday, ChecksNextDay DEF SchInv, ConfigsKept, CheckIsRight
<1> QED
  BY <1>1, SchInvariant, PTL

(* A task that was disposed of calls nobody (DisposeAndWait). *)
THEOREM StoppedStaysQuiet == SchSpec => []StoppedIsQuiet
<1>1. SchInv => StoppedIsQuiet
  BY DEF SchInv, DisposedDoesNothing, StoppedIsQuiet, Idle
<1> QED
  BY <1>1, SchInvariant, PTL

(* The owner is told of changes only (SchTask::Timer::EmitOnTimer). *)
THEOREM OnlyChangesAreTold == SchSpec => []ToldOfChanges
<1>1. SchInv => ToldOfChanges
  BY DEF SchInv, ToldIsState, ToldOfChanges
<1> QED
  BY <1>1, SchInvariant, PTL

(* The state of a task is what the configuration says up to the next time to look,
   and its owner was told so: no timer that is not set and no configuration that
   changes is forgotten (SchTask::Start, SchTask::Timer::EmitOnTimer). *)
THEOREM OwnerIsToldWhatIs == WeekOK /\ SchSpec => []ToldWhatIs
<1> SUFFICES ASSUME WeekOK PROVE SchSpec => []ToldWhatIs
  OBVIOUS
<1>1. SchInv /\ Watches => ToldWhatIs
  <2> SUFFICES ASSUME SchInv, Watches,
                      schSt \notin {"Unknown", "Restart", "Stopping", "Disposing"}, emit = Idle,
                      due = 0 \/ due > now + 1, ~(schSt = "Stopped" /\ due = 0 /\ told = "none")
               PROVE  /\ InSchedule(cfg, now) => told = "InSch"
                      /\ told = "InSch" => InSchedule(cfg, now) \/ cfg.End = NoEndTime
    BY DEF ToldWhatIs
  <2>1. schSt \in {"InSch", "OutSch", "Stopped"} /\ emit.at = "idle" /\ now \in Nat
    BY DEF SchInv, ConfigsKept, Idle
  <2>2. (told = "InSch") = (schSt = "InSch") /\ (schSt = "Stopped" => told = "none")
    BY <2>1 DEF SchInv, ToldIsState
  <2>3. Agrees(cfg, schSt, now)
    BY <2>1, <2>2 DEF Watches
  <2> QED
    BY <2>2, <2>3 DEF Agrees
<1>2. ClockWasRead /\ Watches /\ SchInv /\ [SchNext]_schVars => (ClockWasRead /\ Watches)'
  BY ClockStep, WatchesStep DEF SchInv
<1> QED
  BY <1>1, <1>2, InitWatches, SchInvariant, PTL DEF SchSpec
=============================================================================
