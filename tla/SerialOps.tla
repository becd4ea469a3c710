----------------------------- MODULE SerialOps -----------------------------
(***************************************************************************)
(* What fon9::AQueue promises to the object it protects (a Device, the     *)
(* plugins manager): queued operations run one at a time, in the order in  *)
(* which they were submitted; an operation may be run in place, in the     *)
(* caller's thread, only while nothing is queued, nothing queued is        *)
(* running, and nothing that it excludes is running in place.  Nothing     *)
(* here says how: no flags, no worker state, no wake-up.                   *)
(***************************************************************************)
EXTENDS Naturals, Sequences

CONSTANTS Callers,   \* threads that submit operations or run them in place
          Kinds,     \* the kinds an in-place operation may have
          Excludes(_, _)   \* the kinds that may not run in place together

VARIABLES pending,   \* submitted operations that have not been run, in order
          executed,  \* the operations that have been run, in order
          opBusy,    \* the queue's worker is running operations
          inplace    \* the in-place operations now running: <<thread, kind>>

absVars == <<pending, executed, opBusy, inplace>>

Init == pending = <<>> /\ executed = <<>> /\ opBusy = FALSE /\ inplace = {}

Submit == /\ pending' = Append(pending, Len(executed) + Len(pending) + 1)
          /\ UNCHANGED <<executed, opBusy, inplace>>

BeginOps == /\ ~opBusy /\ inplace = {} /\ opBusy' = TRUE
            /\ UNCHANGED <<pending, executed, inplace>>

Execute == /\ opBusy /\ pending # <<>>
           /\ executed' = Append(executed, Head(pending))
           /\ pending' = Tail(pending)
           /\ UNCHANGED <<opBusy, inplace>>

EndOps == /\ opBusy /\ opBusy' = FALSE
          /\ UNCHANGED <<pending, executed, inplace>>

Enter(t, k) == /\ ~opBusy /\ pending = <<>>
               /\ \A p \in inplace : ~Excludes(p[2], k)
               /\ inplace' = inplace \cup {<<t, k>>}
               /\ UNCHANGED <<pending, executed, opBusy>>

Leave(t, k) == /\ <<t, k>> \in inplace
               /\ inplace' = inplace \ {<<t, k>>}
               /\ UNCHANGED <<pending, executed, opBusy>>

Next == \/ Submit \/ BeginOps \/ Execute \/ EndOps
        \/ \E t \in Callers, k \in Kinds : Enter(t, k) \/ Leave(t, k)

SafeSpec == Init /\ [][Next]_absVars
=============================================================================
