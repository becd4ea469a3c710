-------------------------- MODULE TcpClientProofs --------------------------
(***************************************************************************)
(* A device and its TCP client: for any senders, any configurations, and   *)
(* any order in which the threads, epoll, the timer and the user get ahead *)
(* of each other, what is sent keeps its order, nothing is left to nobody, *)
(* and a disposed device stays as it is.                                   *)
(*                                                                         *)
(* The invariant says what lies between the threads.  A job in place has   *)
(* the queue to itself (InPlace, which is the contract of AQueue).  Tasks  *)
(* and events may be late: they are of a link that there was, and what     *)
(* they say of the present one is true (Known).  epoll forgets a socket    *)
(* only on behalf of a failure that is on its way (Failing), and a buffer  *)
(* that nobody writes has somebody on the way to it (Sends).  What was     *)
(* written, what is written, what waits in the buffer and what waits in    *)
(* the tasks are, in this order, what the device accepted (InOrder).       *)
(*                                                                         *)
(* A task of the op thread is described by what it may make of the device  *)
(* (Settled, Moves), so that the many ways a state ends are gone through   *)
(* once (DeviceTask); the steps of the link by what they leave of the      *)
(* socket (LinkStep).                                                      *)
(***************************************************************************)
EXTENDS TcpClient, FiniteSetTheorems, SequenceTheorems, TLAPS

-----------------------------------------------------------------------------
(* The invariant *)

Bits == {"read", "write"}
Socks == [id : Nat, conn : {"connecting", "connected"}, status : {"Empty", "Sending"},
          sending : Seq(Nat), queue : Seq(Nat), bits : SUBSET Bits, reg : BOOLEAN,
          pend : SUBSET {"send", "remove"}, acc : Nat, wire : Seq(Nat)]
Devices == [st : States, config : Configs \cup {None}, dn : Nat, next : Nat, n : Nat,
            timer : BOOLEAN, links : Nat, sock : Socks]
Tasks == [op : Ops, id : Nat, arg : Nat \cup Configs \cup {None}]
Threads == Senders \cup {Fdr}
Places == {"no", "writing", "check", "leave"}

(* What was written, is being sent and waits, in this order. *)
Data(s) == s.wire \o s.sending \o s.queue

(* A device between two tasks: it has a socket exactly while it links or is
   linked, and asks for a name only while it links. *)
Settled(d) ==
  /\ d.sock.id <= d.links /\ (d.sock.id = 0 => d.sock = NoSock)
  /\ d.sock.id # 0 => d.st \in {"Linking", "LinkReady", "Lingering"}
  /\ CanSend(d.st) => d.sock.id # 0 /\ d.sock.conn = "connected"
  /\ d.st = "Linking" => (d.sock.id # 0) # (d.dn # 0)
  /\ d.dn # 0 => d.st = "Linking"
  /\ d.st = "Disposing" => ~d.timer
  /\ d.sock.status = "Sending" => CanSend(d.st)
  /\ d.sock.status = "Empty" => d.sock.sending = <<>> /\ d.sock.queue = <<>>
  /\ ~CanSend(d.st) => d.sock.acc = 0

(* What a task of the op thread makes of d: its socket stays, goes or is a new
   one; who links or waits to be reopened has its timer. *)
Moves(d, e) ==
  /\ e \in Devices /\ Settled(e) /\ e.links \in {d.links, d.links + 1}
  /\ \/ e.sock = d.sock /\ (d.sock.id # 0 => e.st \in {d.st, "Lingering"})
     \/ e.sock = NoSock
     \/ e.sock = NewSock(d.links + 1) /\ e.links = d.links + 1
  /\ e.st = "LinkReady" => d.st = "LinkReady" /\ e.sock = d.sock
  /\ e.st = "Lingering" => e.sock = d.sock /\ (d.st = "Lingering" \/ e.sock.status = "Sending")
  /\ e.st \in Reopens \cup {"Linking"} => e.timer \/ (e.st = d.st /\ e.timer = d.timer)
  /\ d.st = "Disposing" => e.st = "Disposing"

-----------------------------------------------------------------------------
(* What the op thread does to the device *)

(* A new socket ... *)
LEMMA NewSockType ==
  ASSUME NEW i \in Nat
  PROVE  /\ NewSock(i) \in Socks
         /\ NewSock(i).id = i /\ NewSock(i).status = "Empty" /\ NewSock(i).reg = TRUE
         /\ NewSock(i).sending = <<>> /\ NewSock(i).queue = <<>> /\ NewSock(i).wire = <<>>
         /\ NewSock(i).pend = {} /\ NewSock(i).conn = "connecting" /\ NewSock(i).acc = 0
<1>1. <<>> \in Seq(Nat) /\ {"write"} \in SUBSET Bits /\ {} \in SUBSET {"send", "remove"}
  BY DEF Bits
<1> QED
  BY <1>1 DEF NewSock, Socks

(* ... and none at all are sockets. *)
LEMMA NoSockType ==
  /\ NoSock \in Socks /\ NoSock.id = 0 /\ NoSock.status = "Empty" /\ NoSock.reg = FALSE
  /\ NoSock.sending = <<>> /\ NoSock.queue = <<>> /\ NoSock.wire = <<>>
  /\ NoSock.pend = {} /\ NoSock.conn = "connecting" /\ NoSock.acc = 0
<1>1. NewSock(0) \in Socks /\ {} \in SUBSET Bits
  BY NewSockType
<1> QED
  BY <1>1, NewSockType DEF NoSock, Socks

(* A device that has given up its link. *)
Clean(e) == e \in Devices /\ e.sock = NoSock /\ e.dn = 0

(* ClearLinking takes the link, the query and the timer away. *)
LEMMA Cleared ==
  ASSUME NEW d \in Devices
  PROVE  /\ Clean(ClearLinking(d)) /\ ClearLinking(d).st = d.st /\ ClearLinking(d).links = d.links
         /\ ClearLinking(d).timer = FALSE /\ ClearLinking(d).config = d.config
         /\ ClearLinking(d).next = 0 /\ ClearLinking(d).n = 0
<1> DEFINE r == [d EXCEPT !.sock = NoSock]
<1>1. r \in Devices /\ r.sock = NoSock /\ r.st = d.st /\ r.links = d.links /\ r.config = d.config
  BY NoSockType DEF Devices
<1>2. ClearLinking(d) = [r EXCEPT !.dn = 0, !.next = 0, !.n = 0, !.timer = FALSE]
  BY DEF ClearLinking, ResetImpl
<1> DEFINE e == [r EXCEPT !.dn = 0, !.next = 0, !.n = 0, !.timer = FALSE]
<1> HIDE DEF r
<1>3. /\ e \in Devices /\ e.sock = r.sock /\ e.dn = 0 /\ e.st = r.st /\ e.links = r.links
      /\ e.timer = FALSE /\ e.config = r.config /\ e.next = 0 /\ e.n = 0
  BY <1>1 DEF Devices
<1>4. ClearLinking(d) = e
  BY <1>2
<1> HIDE DEF e
<1> QED
  BY <1>1, <1>3, <1>4 DEF Clean

(* The derived class is told of a new state, from before. *)
LEMMA Told ==
  ASSUME NEW c \in Devices, NEW before \in States, before # c.st
  PROVE  LET e == StateChanged(c, before)
         IN /\ e \in Devices /\ e.st = c.st /\ e.links = c.links /\ e.config = c.config
            /\ CanSend(before) /\ c.st # "Lingering" => e = [c EXCEPT !.sock = NoSock]
            /\ before = "Linking" /\ c.st # "LinkReady" => Clean(e)
            /\ before # "Linking" /\ ~CanSend(before) => e = c
            /\ CanSend(before) /\ c.st = "Lingering" => e = c
            /\ before = "Linking" /\ c.st = "LinkReady" => e = c
<1>1. [c EXCEPT !.sock = NoSock] \in Devices
  BY NoSockType DEF Devices
<1>2. CASE CanSend(before) /\ c.st = "Lingering"
  BY <1>2 DEF StateChanged, CanSend
<1>3. CASE CanSend(before) /\ c.st # "Lingering"
  <2>1. StateChanged(c, before) = [c EXCEPT !.sock = NoSock] /\ before # "Linking"
    BY <1>3 DEF StateChanged, ResetImpl, CanSend
  <2> QED
    BY <1>1, <1>3, <2>1 DEF Devices
<1>4. CASE before = "Linking" /\ c.st # "LinkReady"
  <2>1. StateChanged(c, before) = ClearLinking(c) /\ ~CanSend(before)
    BY <1>4 DEF StateChanged, CanSend
  <2> QED
    BY <1>4, <2>1, Cleared DEF Clean
<1>5. CASE ~CanSend(before) /\ ~(before = "Linking" /\ c.st # "LinkReady")
  <2>1. StateChanged(c, before) = c
    BY <1>5 DEF StateChanged
  <2> QED
    BY <1>5, <2>1
<1> QED
  BY <1>2, <1>3, <1>4, <1>5

(* OpImpl_SetState: the present state, and a new one. *)
LEMMA SameState ==
  ASSUME NEW d \in Devices
  PROVE  /\ SetState(d, d.st) = [d EXCEPT !.timer = @ \/ d.st \in Reopens]
         /\ SetState(d, d.st) \in Devices
<1>1. SetState(d, d.st) = [d EXCEPT !.timer = @ \/ d.st \in Reopens]
  BY DEF SetState
<1>2. (d.timer \/ d.st \in Reopens) \in BOOLEAN
  OBVIOUS
<1> QED
  BY <1>1, <1>2 DEF Devices

(* A new state: the socket and the query go with the link. *)
LEMMA NewState ==
  ASSUME NEW d \in Devices, NEW st \in States, d.st \notin {"Disposing", st}
  PROVE  /\ SetState(d, st) = [StateChanged([d EXCEPT !.st = st], d.st) EXCEPT !.timer = st \in Reopens]
         /\ SetState(d, st) \in Devices /\ SetState(d, st).st = st /\ SetState(d, st).links = d.links
         /\ SetState(d, st).config = d.config /\ (SetState(d, st).timer <=> st \in Reopens)
         /\ CanSend(d.st) /\ st # "Lingering" => SetState(d, st).sock = NoSock /\ SetState(d, st).dn = d.dn
         /\ d.st = "Linking" /\ st # "LinkReady" => SetState(d, st).sock = NoSock /\ SetState(d, st).dn = 0
         /\ d.st # "Linking" /\ ~CanSend(d.st) => SetState(d, st).sock = d.sock /\ SetState(d, st).dn = d.dn
         /\ CanSend(d.st) /\ st = "Lingering" => SetState(d, st).sock = d.sock /\ SetState(d, st).dn = d.dn
         /\ d.st = "Linking" /\ st = "LinkReady" => SetState(d, st).sock = d.sock /\ SetState(d, st).dn = d.dn
<1> DEFINE c == [d EXCEPT !.st = st]
           t == StateChanged(c, d.st)
           e == [t EXCEPT !.timer = st \in Reopens]
<1>1. SetState(d, st) = e
  BY DEF SetState
<1>2. c \in Devices /\ c.st = st /\ c.sock = d.sock /\ c.dn = d.dn /\ c.links = d.links /\ c.config = d.config
  BY DEF Devices
<1>3. d.st \in States /\ d.st # c.st
  BY <1>2 DEF Devices
<1> HIDE DEF c
<1>4. /\ t \in Devices /\ t.st = st /\ t.links = d.links /\ t.config = d.config
      /\ CanSend(d.st) /\ st # "Lingering" => t = [c EXCEPT !.sock = NoSock]
      /\ d.st = "Linking" /\ st # "LinkReady" => Clean(t)
      /\ d.st # "Linking" /\ ~CanSend(d.st) => t = c
      /\ CanSend(d.st) /\ st = "Lingering" => t = c
      /\ d.st = "Linking" /\ st = "LinkReady" => t = c
  BY <1>2, <1>3, Told
<1>5. CanSend(d.st) /\ st # "Lingering" => t.sock = NoSock /\ t.dn = d.dn
  BY <1>2, <1>4 DEF Devices
<1> HIDE DEF t
<1>6. (st \in Reopens) \in BOOLEAN
  OBVIOUS
<1>7. /\ e \in Devices /\ e.st = t.st /\ e.links = t.links /\ e.config = t.config /\ e.sock = t.sock /\ e.dn = t.dn
      /\ e.timer = (st \in Reopens)
  BY <1>4, <1>6 DEF Devices
<1> HIDE DEF e
<1>8. SetState(d, st) = [t EXCEPT !.timer = st \in Reopens]
  BY <1>1 DEF e
<1> QED
  BY ZenonT(40), <1>1, <1>2, <1>4, <1>5, <1>7, <1>8 DEF Clean, c, t

(* A device that gives up its link, if it still has one, and asks for no name. *)
Leaving(d) ==
  /\ d \in Devices /\ d.st # "Disposing" /\ d.dn = 0
  /\ Clean(d) \/ d.st \in {"Linking", "LinkReady", "Lingering"}

(* What comes of it: no socket, or the new one. *)
Fresh(n, e) ==
  /\ e \in Devices /\ Settled(e) /\ e.links \in {n, n + 1}
  /\ e.sock = NoSock \/ (e.sock = NewSock(n + 1) /\ e.links = n + 1)
  /\ e.st \notin {"LinkReady", "Lingering", "Disposing"}
  /\ e.st \in Reopens \cup {"Linking"} => e.timer

(* The link, or the attempt, has failed. *)
LEMMA Fails ==
  ASSUME NEW d, Leaving(d), NEW st \in {"LinkError", "LinkBroken", "ConfigError"},
         d.st = st => Clean(d)
  PROVE  Fresh(d.links, SetState(d, st))
<1>1. d \in Devices /\ st \in States /\ d.st \in States
  BY DEF Leaving, Devices, States
<1> DEFINE e == SetState(d, st)
<1>2. CASE d.st = st
  <2>1. e = [d EXCEPT !.timer = @ \/ d.st \in Reopens] /\ e \in Devices
    BY <1>1, <1>2, SameState
  <2>2. e.sock = d.sock /\ e.dn = d.dn /\ e.links = d.links /\ e.st = st /\ (st \in Reopens => e.timer)
    BY <1>1, <1>2, <2>1 DEF Devices
  <2>3. e.sock = NoSock /\ e.dn = 0 /\ d.links \in Nat
    BY <1>1, <1>2, <2>2 DEF Clean, Devices
  <2> HIDE DEF e
  <2>4. Settled(e)
    BY <2>1, <2>2, <2>3, NoSockType DEF Settled, CanSend
  <2>5. Fresh(d.links, e)
    BY <2>1, <2>2, <2>3, <2>4 DEF Fresh
  <2> QED
    BY <2>5 DEF e
<1>3. CASE d.st # st
  <2>1. e \in Devices /\ e.st = st /\ e.links = d.links /\ (e.timer <=> st \in Reopens)
    BY <1>1, <1>3, NewState DEF Leaving
  <2>2. e.sock = NoSock /\ e.dn = 0
    <3>1. CASE CanSend(d.st) \/ d.st = "Linking"
      BY <1>1, <1>3, <3>1, NewState DEF Leaving
    <3>2. CASE ~CanSend(d.st) /\ d.st # "Linking"
      BY <1>1, <1>3, <3>2, NewState DEF Leaving, Clean, CanSend
    <3> QED
      BY <3>1, <3>2
  <2>3. d.links \in Nat
    BY <1>1 DEF Devices
  <2> HIDE DEF e
  <2>4. Settled(e)
    BY <2>1, <2>2, <2>3, NoSockType DEF Settled, CanSend
  <2>5. Fresh(d.links, e)
    BY <2>1, <2>2, <2>3, <2>4 DEF Fresh
  <2> QED
    BY <2>5 DEF e
<1> QED
  BY <1>2, <1>3

(* A link is begun; its socket comes after this. *)
LEMMA Begins ==
  ASSUME NEW d, Leaving(d)
  PROVE  LET l == [SetState(d, "Linking") EXCEPT !.timer = TRUE]
         IN /\ l \in Devices /\ l.st = "Linking" /\ l.dn = 0 /\ l.links = d.links /\ l.timer
            /\ Clean(d) => l.sock = NoSock
<1> DEFINE e == SetState(d, "Linking")
           l == [e EXCEPT !.timer = TRUE]
<1>1. d \in Devices /\ "Linking" \in States
  BY DEF Leaving, States
<1>2. e \in Devices /\ e.st = "Linking" /\ e.dn = 0 /\ e.links = d.links /\ (Clean(d) => e.sock = NoSock)
  <2>1. CASE d.st = "Linking"
    <3>1. e = [d EXCEPT !.timer = @ \/ d.st \in Reopens] /\ e \in Devices
      BY <1>1, <2>1, SameState
    <3> QED
      BY <1>1, <2>1, <3>1 DEF Leaving, Clean, Devices
  <2>2. CASE d.st # "Linking"
    BY <1>1, <2>2, NewState DEF Leaving, Clean, CanSend
  <2> QED
    BY <2>1, <2>2
<1> HIDE DEF e
<1>3. /\ l \in Devices /\ l.st = e.st /\ l.dn = e.dn /\ l.links = e.links /\ l.timer = TRUE
      /\ l.sock = e.sock
  BY <1>2 DEF Devices
<1> HIDE DEF l
<1>4. /\ l \in Devices /\ l.st = "Linking" /\ l.dn = 0 /\ l.links = d.links /\ l.timer
      /\ Clean(d) => l.sock = NoSock
  BY <1>2, <1>3
<1> QED
  BY <1>4 DEF l, e

(* OpImpl_ConnectToNext. *)
LEMMA Connecting ==
  ASSUME NEW d, Leaving(d), NEW e \in ConnectToNext(d)
  PROVE  Fresh(d.links, e)
<1>1. CASE d.next >= d.n
  <2> DEFINE c == [d EXCEPT !.next = 0]
             st == IF d.st = "LinkReady" THEN "LinkBroken" ELSE "LinkError"
  <2>1. e = SetState(c, IF d.st = "LinkReady" THEN "LinkBroken" ELSE "LinkError")
    BY <1>1 DEF ConnectToNext
  <2>2. Leaving(c) /\ c.links = d.links /\ c.st = d.st /\ (Clean(d) => Clean(c))
    BY DEF Leaving, Clean, Devices
  <2> HIDE DEF c
  <2>3. st \in {"LinkError", "LinkBroken", "ConfigError"} /\ (c.st = st => Clean(c))
    BY <2>2 DEF Leaving
  <2> QED
    BY <2>1, <2>2, <2>3, Fails
<1>2. CASE ~(d.next >= d.n)
  <2> DEFINE c == [d EXCEPT !.next = @ + 1]
             l == [SetState(c, "Linking") EXCEPT !.timer = TRUE]
  <2>1. \/ e = SetState(c, "LinkError") \/ e = SetState(l, "LinkError")
        \/ \E i \in {d.links + 1} \cap 1 .. MaxLinks : e = [l EXCEPT !.links = i, !.sock = NewSock(i)]
    BY <1>2 DEF ConnectToNext
  <2>2. Leaving(c) /\ c.links = d.links /\ c.st = d.st /\ (Clean(d) => Clean(c))
    BY DEF Leaving, Clean, Devices
  <2> HIDE DEF c
  <2>3. l \in Devices /\ l.st = "Linking" /\ l.dn = 0 /\ l.links = d.links /\ l.timer
    BY <2>2, Begins
  <2> HIDE DEF l
  <2>4. CASE e = SetState(c, "LinkError")
    <3>1. c.st = "LinkError" => Clean(c)
      BY <2>2 DEF Leaving
    <3> QED
      BY <2>2, <2>4, <3>1, Fails
  <2>5. CASE e = SetState(l, "LinkError")
    <3>1. Leaving(l) /\ l.st # "LinkError"
      BY <2>3 DEF Leaving
    <3> QED
      BY <2>3, <2>5, <3>1, Fails
  <2>6. CASE \E i \in {d.links + 1} \cap 1 .. MaxLinks : e = [l EXCEPT !.links = i, !.sock = NewSock(i)]
    <3> DEFINE i == d.links + 1
    <3>1. e = [l EXCEPT !.links = i, !.sock = NewSock(i)]
      BY <2>6
    <3>2. i \in Nat /\ i # 0 /\ d.links \in Nat
      BY <2>3 DEF Devices
    <3>3. /\ NewSock(i) \in Socks /\ NewSock(i).id = i /\ NewSock(i).status = "Empty"
          /\ NewSock(i).sending = <<>> /\ NewSock(i).queue = <<>> /\ NewSock(i).acc = 0
      BY <3>2, NewSockType
    <3> HIDE DEF i
    <3>4. /\ e \in Devices /\ e.links = i /\ e.sock = NewSock(i) /\ e.st = "Linking" /\ e.dn = 0 /\ e.timer
      BY <2>3, <3>1, <3>2, <3>3 DEF Devices
    <3>5. Settled(e)
      BY <3>2, <3>3, <3>4 DEF Settled, CanSend
    <3> QED
      BY <3>4, <3>5 DEF Fresh, i
  <2> QED
    BY <2>1, <2>4, <2>5, <2>6
<1> QED
  BY <1>1, <1>2

(* A state without a link, from a device without one. *)
LEMMA CleanState ==
  ASSUME NEW d \in Devices, Clean(d), d.st # "Disposing", NEW st \in States \ {"LinkReady", "Lingering"}
  PROVE  /\ Clean(SetState(d, st)) /\ SetState(d, st).st = st /\ SetState(d, st).links = d.links
         /\ d.st # st => (SetState(d, st).timer <=> st \in Reopens)
<1>1. CASE d.st = st
  <2>1. SetState(d, st) = [d EXCEPT !.timer = @ \/ d.st \in Reopens] /\ SetState(d, st) \in Devices
    BY <1>1, SameState
  <2> QED
    BY <1>1, <2>1 DEF Clean, Devices
<1>2. CASE d.st # st
  BY <1>2, NewState DEF Clean, CanSend
<1> QED
  BY <1>1, <1>2

(* The values of a function on a finite set are no more than the set's elements. *)
LEMMA FiniteRange ==
  ASSUME NEW S, IsFiniteSet(S), NEW f, f = [x \in S |-> f[x]], NEW R, R = {f[x] : x \in S}
  PROVE  IsFiniteSet(R) /\ Cardinality(R) <= Cardinality(S)
<1>1. f \in Surjection(S, R)
  BY DEF Surjection
<1> QED
  BY <1>1, FS_Surjection

(* The elements of a sequence are finitely many. *)
LEMMA FiniteElements ==
  ASSUME NEW X, NEW q \in Seq(X)
  PROVE  IsFiniteSet(ToSet(q))
<1>1. 1 \in Int /\ Len(q) \in Int
  OBVIOUS
<1>2. IsFiniteSet(1 .. Len(q))
  BY <1>1, FS_Interval
<1>3. q = [i \in 1 .. Len(q) |-> q[i]]
  OBVIOUS
<1>4. ToSet(q) = {q[i] : i \in 1 .. Len(q)}
  BY DEF ToSet
<1> QED
  BY <1>2, <1>3, <1>4, FiniteRange

(* The tasks are finitely many, so some number is left for a query. *)
LEMMA NewQuery ==
  ASSUME tasks \in Seq(Tasks), batch \in Seq(Tasks)
  PROVE  NewDnId \in Nat \ {0}
<1> DEFINE q == Cardinality(Queued)
           f == [t \in Queued |-> t.id]
           ids == {f[t] : t \in Queued}
<1>1. IsFiniteSet(Queued)
  BY FiniteElements, FS_Union DEF Queued
<1>2. IsFiniteSet(ids) /\ Cardinality(ids) <= q /\ q \in Nat /\ Cardinality(ids) \in Nat
  <2>1. f = [t \in Queued |-> f[t]]
    OBVIOUS
  <2> HIDE DEF f
  <2>2. IsFiniteSet(ids) /\ Cardinality(ids) <= q
    BY <1>1, <2>1, FiniteRange
  <2> QED
    BY <1>1, <2>2, FS_CardinalityType
<1>3. IsFiniteSet(1 .. q + 1) /\ Cardinality(1 .. q + 1) = q + 1
  <2> HIDE DEF q, ids
  <2>1. q + 1 \in Int /\ 1 \in Int /\ ~(1 > q + 1)
    BY <1>2
  <2> QED
    BY <2>1, <1>2, FS_Interval
<1>4. \E i \in 1 .. q + 1 : i \notin ids
  <2>1. ~(1 .. q + 1 \subseteq ids)
    <3> SUFFICES ASSUME 1 .. q + 1 \subseteq ids PROVE FALSE
      OBVIOUS
    <3>1. Cardinality(1 .. q + 1) <= Cardinality(ids)
      BY <1>2, FS_Subset
    <3> HIDE DEF q, ids
    <3> QED
      BY <1>2, <1>3, <3>1
  <2> QED
    BY <2>1
<1>5. PICK i \in 1 .. q + 1 : \A t \in Queued : t.id # i
  BY <1>4
<1>6. NewDnId \in 1 .. q + 1
  BY <1>5 DEF NewDnId
<1> HIDE DEF q
<1> QED
  BY <1>2, <1>6

(* OpImpl_Reopen and OpImpl_Open. *)
LEMMA Reopening ==
  ASSUME tasks \in Seq(Tasks), batch \in Seq(Tasks), NEW d, Clean(d), d.st # "Disposing", NEW e \in ReopenImpl(d)
  PROVE  Fresh(d.links, e)
<1>0. Leaving(d) /\ d \in Devices /\ d.links \in Nat
  BY DEF Leaving, Clean, Devices
<1>1. CASE d.config = "names"
  <2> DEFINE l == [SetState(d, "Linking") EXCEPT !.timer = TRUE]
  <2>1. e = [l EXCEPT !.dn = NewDnId]
    BY <1>1 DEF ReopenImpl
  <2>2. l \in Devices /\ l.st = "Linking" /\ l.dn = 0 /\ l.links = d.links /\ l.timer /\ l.sock = NoSock
    BY <1>0, Begins
  <2> HIDE DEF l
  <2>3. NewDnId \in Nat \ {0}
    BY NewQuery
  <2>4. e \in Devices /\ e.st = "Linking" /\ e.links = d.links /\ e.timer /\ e.sock = NoSock /\ e.dn # 0
    BY <2>1, <2>2, <2>3 DEF Devices
  <2>5. Settled(e)
    BY <1>0, <2>4, NoSockType DEF Settled, CanSend
  <2> QED
    BY <2>4, <2>5 DEF Fresh
<1>2. CASE d.config = "addr"
  <2> DEFINE c == [d EXCEPT !.n = 1]
  <2>1. e \in ConnectToNext(c)
    BY <1>2 DEF ReopenImpl
  <2>2. Leaving(c) /\ c.links = d.links
    BY <1>0 DEF Leaving, Clean, Devices
  <2> HIDE DEF c
  <2> QED
    BY <2>1, <2>2, Connecting
<1>3. CASE d.config \notin {"names", "addr"}
  <2>1. e = SetState(d, "ConfigError")
    BY <1>3 DEF ReopenImpl
  <2> QED
    BY <1>0, <2>1, Fails
<1> QED
  BY <1>1, <1>2, <1>3

(* A device is opened again ... *)
LEMMA ReopenIs ==
  ASSUME tasks \in Seq(Tasks), batch \in Seq(Tasks), NEW d \in Devices, d.st # "Disposing", NEW e \in OpImpl_Reopen(d)
  PROVE  Fresh(d.links, e)
<1>1. Clean(ClearLinking(d)) /\ ClearLinking(d).st = d.st /\ ClearLinking(d).links = d.links
  BY Cleared
<1>2. e \in ReopenImpl(ClearLinking(d))
  BY DEF OpImpl_Reopen
<1> QED
  BY <1>1, <1>2, Reopening

(* ... or with another configuration. *)
LEMMA OpenIs ==
  ASSUME tasks \in Seq(Tasks), batch \in Seq(Tasks), NEW d \in Devices, d.st # "Disposing",
         NEW config \in Configs \cup {None}, NEW e \in OpImpl_Open(d, config)
  PROVE  Fresh(d.links, e)
<1> DEFINE c == SetState(ClearLinking(d), "Opening")
           o == [c EXCEPT !.config = config]
<1>1. Clean(ClearLinking(d)) /\ ClearLinking(d).st = d.st /\ ClearLinking(d).links = d.links /\ ClearLinking(d) \in Devices
  BY Cleared DEF Clean
<1>2. Clean(c) /\ c.st = "Opening" /\ c.links = d.links
  BY <1>1, CleanState DEF States
<1>3. e = SetState(o, "ConfigError") \/ e \in ReopenImpl(o)
  BY DEF OpImpl_Open
<1> HIDE DEF c
<1>4. Clean(o) /\ o.st = "Opening" /\ o.links = d.links
  BY <1>2 DEF Clean, Devices
<1> HIDE DEF o
<1>5. Leaving(o)
  BY <1>4 DEF Leaving, Clean
<1>6. CASE e = SetState(o, "ConfigError")
  BY <1>4, <1>5, <1>6, Fails
<1>7. CASE e \in ReopenImpl(o)
  BY <1>4, <1>7, Reopening
<1> QED
  BY <1>3, <1>6, <1>7

(* What Moves takes from Fresh. *)
LEMMA FreshMoves ==
  ASSUME NEW d \in Devices, d.st # "Disposing", NEW e, Fresh(d.links, e)
  PROVE  Moves(d, e) /\ (e.st \in Reopens \cup {"Linking"} => e.timer)
BY DEF Fresh, Moves

(* A device that nothing was done to. *)
LEMMA Stays ==
  ASSUME NEW d \in Devices, Settled(d)
  PROVE  /\ d.st = "Lingering" => d.sock.id # 0
         /\ Moves(d, d)
BY DEF Moves, Settled, CanSend, Devices

(* OpThr_Close. *)
LEMMA ClosedIs ==
  ASSUME NEW d \in Devices, Settled(d)
  PROVE  LET e == OpThr_Close(d)
         IN /\ Moves(d, e) /\ e.st \in {"Closed", "Disposing"} /\ e.sock = NoSock /\ e.dn = 0
            /\ d.st = "Disposing" => e = d
<1>1. CASE d.st \in {"Closed", "Disposing"}
  <2>1. OpThr_Close(d) = d /\ Moves(d, d)
    BY <1>1, Stays DEF OpThr_Close
  <2> QED
    BY <1>1, <2>1 DEF Settled
<1>2. CASE d.st \notin {"Closed", "Disposing"}
  <2> DEFINE c == ClearLinking(d)
             e == SetState(c, "Closed")
  <2>1. OpThr_Close(d) = e
    BY <1>2 DEF OpThr_Close
  <2>2. c \in Devices /\ Clean(c) /\ c.st = d.st /\ c.links = d.links
    BY Cleared DEF Clean
  <2> HIDE DEF c
  <2>3. Clean(e) /\ e.st = "Closed" /\ e.links = d.links /\ (e.timer <=> "Closed" \in Reopens)
    BY <1>2, <2>2, CleanState DEF States
  <2> HIDE DEF e
  <2>4. e \in Devices /\ e.sock = NoSock /\ e.dn = 0 /\ e.links \in Nat
    BY <2>3 DEF Clean, Devices
  <2>5. Settled(e)
    BY <2>3, <2>4, NoSockType DEF Settled, CanSend
  <2>6. Moves(d, e)
    BY <1>2, <2>3, <2>4, <2>5 DEF Moves
  <2> QED
    BY <1>2, <2>1, <2>3, <2>4, <2>6
<1> QED
  BY <1>1, <1>2

(* The task of AsyncDispose. *)
LEMMA DisposedIs ==
  ASSUME NEW d \in Devices, Settled(d)
  PROVE  Moves(d, SetState(OpThr_Close(d), "Disposing"))
<1> DEFINE c == OpThr_Close(d)
           e == SetState(c, "Disposing")
<1>1. /\ Moves(d, c) /\ c.st \in {"Closed", "Disposing"} /\ c.sock = NoSock /\ c.dn = 0
      /\ c \in Devices /\ Settled(c) /\ c.links \in {d.links, d.links + 1}
  BY ClosedIs DEF Moves
<1> HIDE DEF c
<1>2. e \in Devices /\ e.st = "Disposing" /\ e.links = c.links /\ e.sock = NoSock /\ e.dn = 0 /\ ~e.timer
  <2>1. CASE c.st = "Disposing"
    <3>1. e = [c EXCEPT !.timer = @ \/ c.st \in Reopens] /\ e \in Devices
      BY <1>1, <2>1, SameState
    <3>2. ~c.timer /\ c.st \notin Reopens
      BY <1>1, <2>1, ClientAssumption DEF Settled
    <3> QED
      BY <1>1, <2>1, <3>1, <3>2 DEF Devices
  <2>2. CASE c.st = "Closed"
    <3>1. "Disposing" \notin Reopens /\ "Disposing" \in States /\ ~CanSend(c.st)
      BY <2>2, ClientAssumption DEF States, CanSend
    <3> QED
      BY <1>1, <2>2, <3>1, NewState
  <2> QED
    BY <1>1, <2>1, <2>2
<1> HIDE DEF e
<1>3. Settled(e)
  <2>1. e.links \in Nat
    BY <1>2 DEF Devices
  <2> QED
    BY <1>2, <2>1, NoSockType DEF Settled, CanSend
<1>4. Moves(d, e)
  BY <1>1, <1>2, <1>3, ClientAssumption DEF Moves
<1> QED
  BY <1>4 DEF e, c

(* OpThr_CheckLingerClose. *)
LEMMA LingerEnds ==
  ASSUME NEW d \in Devices, Settled(d)
  PROVE  LET e == OpThr_CheckLingerClose(d)
         IN Moves(d, e) /\ ~(e.st = "Lingering" /\ e.sock.status = "Empty")
<1>1. CASE d.st = "Lingering" /\ d.sock.status = "Empty"
  BY <1>1, ClosedIs DEF OpThr_CheckLingerClose
<1>2. CASE ~(d.st = "Lingering" /\ d.sock.status = "Empty")
  BY <1>2, Stays DEF OpThr_CheckLingerClose
<1> QED
  BY <1>1, <1>2

(* OpThr_LingerClose. *)
LEMMA LingerIs ==
  ASSUME NEW d \in Devices, Settled(d)
  PROVE  /\ Moves(d, OpThr_LingerClose(d))
         /\ d.st # "Lingering" => ~(OpThr_LingerClose(d).st = "Lingering" /\ OpThr_LingerClose(d).sock.status = "Empty")
<1>1. CASE d.st = "LinkReady"
  <2> DEFINE c == SetState(d, "Lingering")
             e == OpThr_CheckLingerClose(c)
  <2>1. OpThr_LingerClose(d) = e
    BY <1>1 DEF OpThr_LingerClose
  <2>2. c \in Devices /\ c.st = "Lingering" /\ c.links = d.links /\ c.sock = d.sock /\ c.dn = d.dn
    BY <1>1, NewState DEF States, CanSend
  <2>3. d.sock.id # 0 /\ d.sock.conn = "connected" /\ d.dn = 0
    BY <1>1 DEF Settled, CanSend
  <2> HIDE DEF c
  <2>4. Settled(c)
    BY <2>2, <2>3 DEF Settled, CanSend
  <2>5. Moves(c, e) /\ ~(e.st = "Lingering" /\ e.sock.status = "Empty")
    BY <2>2, <2>4, LingerEnds
  <2>6. e \in Devices /\ e.sock.status \in {"Empty", "Sending"}
    BY <2>5 DEF Moves, Devices, Socks
  <2> HIDE DEF e
  <2>7. Moves(d, e)
    BY <1>1, <2>2, <2>5, <2>6, ClientAssumption DEF Moves
  <2> QED
    BY <2>1, <2>5, <2>7
<1>2. CASE d.st \in {"Lingering", "Closed", "Disposing"}
  <2>1. OpThr_LingerClose(d) = d
    BY <1>2 DEF OpThr_LingerClose
  <2> QED
    BY <1>2, <2>1, Stays
<1>3. CASE d.st \notin {"LinkReady", "Lingering", "Closed", "Disposing"}
  <2>1. OpThr_LingerClose(d) = OpThr_Close(d)
    BY <1>3 DEF OpThr_LingerClose
  <2> QED
    BY <2>1, ClosedIs
<1> QED
  BY <1>1, <1>2, <1>3

(* OpThr_SetBrokenState. *)
LEMMA BrokenIs ==
  ASSUME NEW d \in Devices, d.dn = 0, d.st = "Linking"
  PROVE  Fresh(d.links, OpThr_SetBrokenState(d))
<1>1. OpThr_SetBrokenState(d) = SetState(d, "LinkError") /\ Leaving(d)
  BY DEF OpThr_SetBrokenState, Leaving
<1> QED
  BY <1>1, Fails

-----------------------------------------------------------------------------
(* The threads *)

Typed ==
  /\ dev \in Devices /\ Settled(dev)
  /\ tasks \in Seq(Tasks) /\ batch \in Seq(Tasks) /\ taking \in BOOLEAN /\ firing \in BOOLEAN
  /\ job \in [by : Threads \cup {None}, at : Places] /\ (job.at = "no" <=> job = NoJob)
  /\ fdr \in [at : {"idle", "handle", "recv"}, id : Nat, ev : {None, "send", "write", "read", "error"},
              conn : {None, "connecting", "connected"}]

(* A job in place has the queue to itself, and nothing was left behind for a
   task to send while it sends. *)
InPlace ==
  /\ ~taking => batch = <<>>
  /\ job # NoJob => /\ ~taking /\ CanSend(dev.st) /\ dev.sock.status = "Sending"
                    /\ \A t \in Queued : t.op # "send"

(* Tasks and events are of links that there were; those of the present one know
   it. *)
LinkOps == {"connected", "error", "recv", "send", "continue"}
Knows(t, d) ==
  /\ t.op \in LinkOps => t.id \in 1 .. d.links
  /\ t.op = "dn" => t.id # 0
  /\ t.op \in {"dn", "send"} => t.arg \in Nat
  /\ t.op = "open" => t.arg \in Configs \cup {None}
  /\ t.op = "connected" /\ t.id = d.sock.id => d.sock.conn = "connected"
Known ==
  /\ \A t \in Queued : Knows(t, dev)
  /\ fdr.at = "handle" => fdr.id \in 1 .. dev.links /\ fdr.ev # None
  /\ fdr.at = "handle" /\ fdr.ev = "write" =>
       fdr.conn # None /\ (fdr.id = dev.sock.id => fdr.conn = dev.sock.conn)

(* epoll forgets a socket only when its failure is on the way to the device. *)
Failing ==
  dev.sock.id # 0 /\ (~dev.sock.reg \/ "remove" \in dev.sock.pend) => IsFailing

(* A buffer that nobody is writing has somebody on the way to it. *)
OnItsWay ==
  \/ "send" \in dev.sock.pend \/ Has("continue") \/ Detects("write") \/ IsFailing
  \/ fdr.at = "handle" /\ fdr.id = dev.sock.id /\ fdr.ev \in {"send", "write"}
Sends == dev.sock.status = "Sending" /\ job.at \in {"no", "leave"} => OnItsWay

(* The tasks, from the next one on, and those among them that send on the link
   of s: what was accepted on it is in its buffer and behind it in them. *)
Line == batch \o tasks
Live(s, line) == {i \in 1 .. Len(line) : line[i].op = "send" /\ line[i].id = s.id}
InLine(s, line) ==
  LET n == Len(Data(s))
  IN /\ n <= s.acc
     /\ \A i, j \in Live(s, line) : i < j => line[i].arg < line[j].arg
     /\ \A i \in Live(s, line) : line[i].arg \in n + 1 .. s.acc
     /\ \A k \in n + 1 .. s.acc : \E i \in Live(s, line) : line[i].arg = k

Counts(q) == \A i \in 1 .. Len(q) : q[i] = i
InOrder ==
  /\ Counts(Data(dev.sock))
  /\ dev.st # "Lingering" => InLine(dev.sock, Line)

Inv == /\ Typed /\ InPlace /\ Known /\ Failing /\ Sends /\ SomeoneWillReceive
       /\ SomeoneWillRetry /\ SomeoneWillClose /\ InOrder

-----------------------------------------------------------------------------
(* The queue *)

(* The elements of a sequence ... *)
LEMMA Elements ==
  ASSUME NEW X, NEW q \in Seq(X)
  PROVE  ToSet(q) \subseteq X /\ ToSet(<<>>) = {} /\ \A x : x \in ToSet(q) <=> \E i \in 1 .. Len(q) : q[i] = x
BY DEF ToSet

(* ... of one that is longer by one ... *)
LEMMA ElementsOfAppend ==
  ASSUME NEW X, NEW q \in Seq(X), NEW x \in X
  PROVE  ToSet(Append(q, x)) = ToSet(q) \cup {x}
<1> DEFINE a == Append(q, x)
<1>1. a \in Seq(X) /\ Len(a) = Len(q) + 1 /\ a[Len(q) + 1] = x /\ \A i \in 1 .. Len(q) : a[i] = q[i]
  OBVIOUS
<1>2. \A i \in 1 .. Len(a) : i \in 1 .. Len(q) \/ i = Len(q) + 1
  BY <1>1
<1> HIDE DEF a
<1>3. ToSet(a) = ToSet(q) \cup {x}
  <2>1. \A y \in ToSet(a) : y \in ToSet(q) \cup {x}
    BY <1>1, <1>2, Elements
  <2>2. Len(q) \in Nat /\ Len(a) \in Nat
    BY <1>1
  <2>3. \A y \in ToSet(q) : y \in ToSet(a)
    BY <1>1, <2>2, Elements
  <2>4. x \in ToSet(a)
    BY <1>1, <2>2, Elements
  <2> QED
    BY <2>1, <2>3, <2>4
<1> QED
  BY <1>3 DEF a

(* ... and of one that is shorter by its first. *)
LEMMA ElementsOfTail ==
  ASSUME NEW X, NEW q \in Seq(X), q # <<>>
  PROVE  Tail(q) \in Seq(X) /\ Head(q) \in X /\ ToSet(q) = ToSet(Tail(q)) \cup {Head(q)}
<1> DEFINE r == Tail(q)
<1>1. r \in Seq(X) /\ Len(r) = Len(q) - 1 /\ Len(q) \in Nat \ {0} /\ \A i \in 1 .. Len(r) : r[i] = q[i + 1]
  OBVIOUS
<1>2. Head(q) = q[1] /\ Head(q) \in X
  OBVIOUS
<1> HIDE DEF r
<1>3. \A y \in ToSet(q) : y \in ToSet(r) \cup {Head(q)}
  <2> TAKE y \in ToSet(q)
  <2>1. PICK i \in 1 .. Len(q) : q[i] = y
    BY Elements
  <2>2. CASE i = 1
    BY <1>2, <2>1, <2>2
  <2>3. CASE i # 1
    <3>1. i - 1 \in 1 .. Len(r) /\ r[i - 1] = y
      BY <1>1, <2>1, <2>3
    <3> QED
      BY <1>1, <3>1, Elements
  <2> QED
    BY <2>2, <2>3
<1>4. \A y \in ToSet(r) : y \in ToSet(q)
  <2> TAKE y \in ToSet(r)
  <2>1. PICK i \in 1 .. Len(r) : r[i] = y
    BY <1>1, Elements
  <2>2. i + 1 \in 1 .. Len(q) /\ q[i + 1] = y
    BY <1>1, <2>1
  <2> QED
    BY <2>2, Elements
<1>5. Head(q) \in ToSet(q)
  BY <1>1, <1>2, Elements
<1> QED
  BY <1>1, <1>2, <1>3, <1>4, <1>5 DEF r

(* A task is left behind the others. *)
LEMMA PushIs ==
  ASSUME tasks \in Seq(Tasks), batch \in Seq(Tasks), NEW t \in Tasks, Push(t), batch' = batch
  PROVE  /\ tasks' \in Seq(Tasks) /\ batch' \in Seq(Tasks) /\ Queued' = Queued \cup {t}
         /\ Line \in Seq(Tasks) /\ Line' = Append(Line, t)
<1>1. tasks' = Append(tasks, t) /\ tasks' \in Seq(Tasks)
  BY DEF Push
<1>2. ToSet(tasks') = ToSet(tasks) \cup {t}
  BY <1>1, ElementsOfAppend
<1>3. Line \in Seq(Tasks)
  BY DEF Line
<1>4. batch \o Append(tasks, t) = Append(batch \o tasks, t)
  OBVIOUS
<1> QED
  BY <1>1, <1>2, <1>3, <1>4 DEF Line, Queued

(* The next task leaves the line. *)
LEMMA TaskIs ==
  ASSUME tasks \in Seq(Tasks), batch \in Seq(Tasks), NEW op, Task(op)
  PROVE  /\ Head(batch) \in Tasks /\ Head(batch).op = op /\ Head(batch) \in Queued
         /\ batch' \in Seq(Tasks) /\ Queued = ToSet(tasks) \cup ToSet(batch') \cup {Head(batch)}
         /\ Line \in Seq(Tasks) /\ Line # <<>> /\ Head(Line) = Head(batch)
         /\ batch' \o tasks = Tail(Line)
<1>1. batch # <<>> /\ Head(batch).op = op /\ batch' = Tail(batch)
  BY DEF Task
<1>2. Tail(batch) \in Seq(Tasks) /\ Head(batch) \in Tasks /\ ToSet(batch) = ToSet(Tail(batch)) \cup {Head(batch)}
  BY <1>1, ElementsOfTail
<1>3. Line \in Seq(Tasks) /\ Line # <<>> /\ Head(Line) = Head(batch)
  BY <1>1 DEF Line
<1>4. Tail(batch) \o tasks = Tail(batch \o tasks)
  BY <1>1
<1> QED
  BY <1>1, <1>2, <1>3, <1>4 DEF Line, Queued

(* The op thread has done a task ... *)
LEMMA OneTaskLess ==
  ASSUME tasks \in Seq(Tasks), batch \in Seq(Tasks), NEW op, Task(op), UNCHANGED tasks
  PROVE  /\ Head(batch) \in Tasks /\ Head(batch).op = op /\ Head(batch) \in Queued
         /\ tasks' \in Seq(Tasks) /\ batch' \in Seq(Tasks) /\ Queued = Queued' \cup {Head(batch)}
         /\ Line \in Seq(Tasks) /\ Line # <<>> /\ Head(Line) = Head(batch) /\ Line' = Tail(Line)
BY TaskIs DEF Line, Queued

(* ... and has left another one behind. *)
LEMMA OneTaskMore ==
  ASSUME tasks \in Seq(Tasks), batch \in Seq(Tasks), NEW op, Task(op), NEW t \in Tasks, Push(t)
  PROVE  /\ Head(batch) \in Tasks /\ Head(batch).op = op /\ Head(batch) \in Queued
         /\ tasks' \in Seq(Tasks) /\ batch' \in Seq(Tasks) /\ Queued \cup {t} = Queued' \cup {Head(batch)}
         /\ \A u \in Queued : u.op # op => u \in Queued'
         /\ t \in Queued'
         /\ Line \in Seq(Tasks) /\ Line # <<>> /\ Head(Line) = Head(batch) /\ Line' = Append(Tail(Line), t)
<1>1. /\ Head(batch) \in Tasks /\ Head(batch).op = op /\ Head(batch) \in Queued
      /\ batch' \in Seq(Tasks) /\ Queued = ToSet(tasks) \cup ToSet(batch') \cup {Head(batch)}
      /\ Line \in Seq(Tasks) /\ Line # <<>> /\ Head(Line) = Head(batch)
      /\ batch' \o tasks = Tail(Line)
  BY TaskIs
<1>2. tasks' = Append(tasks, t) /\ tasks' \in Seq(Tasks) /\ ToSet(tasks') = ToSet(tasks) \cup {t}
  BY ElementsOfAppend DEF Push
<1>3. batch' \o Append(tasks, t) = Append(batch' \o tasks, t)
  BY SMTT(40), <1>1
<1>4. Queued' = ToSet(tasks) \cup ToSet(batch') \cup {t}
  BY <1>2 DEF Queued
<1>5. Line' = Append(Tail(Line), t)
  BY <1>1, <1>2, <1>3 DEF Line
<1> QED
  BY <1>1, <1>2, <1>4, <1>5

(* The op thread takes all there is. *)
LEMMA TakenIs ==
  ASSUME tasks \in Seq(Tasks), batch = <<>>, batch' = tasks, tasks' = <<>>
  PROVE  Line' = Line /\ Queued' = Queued /\ batch' \in Seq(Tasks) /\ tasks' \in Seq(Tasks)
BY Elements DEF Line, Queued

-----------------------------------------------------------------------------
(* What was accepted *)

(* The data of a socket are numbers. *)
LEMMA DataType ==
  ASSUME NEW s \in Socks
  PROVE  Data(s) \in Seq(Nat) /\ Len(Data(s)) \in Nat /\ s.acc \in Nat /\ s.id \in Nat
BY DEF Data, Socks

(* A task is left that does not send on the link. *)
LEMMA PushOther ==
  ASSUME NEW s \in Socks, NEW line \in Seq(Tasks), NEW t \in Tasks, InLine(s, line),
         ~(t.op = "send" /\ t.id = s.id)
  PROVE  InLine(s, Append(line, t))
<1> DEFINE a == Append(line, t)
<1>1. a \in Seq(Tasks) /\ Len(a) = Len(line) + 1 /\ a[Len(line) + 1] = t /\ \A i \in 1 .. Len(line) : a[i] = line[i]
  OBVIOUS
<1>2. Len(line) \in Nat
  OBVIOUS
<1> HIDE DEF a
<1>3. Live(s, a) = Live(s, line) /\ \A i \in Live(s, line) : a[i] = line[i]
  BY <1>1, <1>2 DEF Live
<1>4. InLine(s, a)
  BY <1>3 DEF InLine
<1> QED
  BY <1>4 DEF a

(* A message is left to a task. *)
LEMMA PushSend ==
  ASSUME NEW s \in Socks, NEW r \in Socks, NEW line \in Seq(Tasks), NEW t \in Tasks, InLine(s, line),
         t.op = "send", t.id = s.id, t.arg = s.acc + 1,
         r.id = s.id, r.acc = s.acc + 1, Data(r) = Data(s)
  PROVE  InLine(r, Append(line, t))
<1> DEFINE a == Append(line, t)
           n == Len(Data(s))
<1>1. a \in Seq(Tasks) /\ Len(a) = Len(line) + 1 /\ a[Len(line) + 1] = t /\ \A i \in 1 .. Len(line) : a[i] = line[i]
  OBVIOUS
<1>2. Len(line) \in Nat /\ n \in Nat /\ s.acc \in Nat /\ n <= s.acc
  BY DataType DEF InLine
<1> HIDE DEF a
<1>3. Live(r, a) = Live(s, line) \cup {Len(line) + 1} /\ \A i \in Live(s, line) : a[i] = line[i] /\ i \in 1 .. Len(line)
  BY <1>1, <1>2 DEF Live
<1>4. \A i \in Live(s, line) : line[i].arg \in n + 1 .. s.acc
  BY DEF InLine
<1>5. \A i, j \in Live(r, a) : i < j => a[i].arg < a[j].arg
  <2> TAKE i, j \in Live(r, a)
  <2> HAVE i < j
  <2>1. i \in Live(s, line)
    BY <1>2, <1>3, <1>1 DEF Live
  <2>2. CASE j \in Live(s, line)
    BY <1>3, <2>1, <2>2 DEF InLine
  <2>3. CASE j = Len(line) + 1
    <3>1. a[j].arg = s.acc + 1 /\ a[i] = line[i] /\ line[i].arg \in n + 1 .. s.acc
      BY <1>1, <1>3, <1>4, <2>1, <2>3
    <3> HIDE DEF n
    <3> QED
      BY <1>2, <3>1
  <2> QED
    BY <1>3, <2>2, <2>3
<1>6. \A i \in Live(r, a) : a[i].arg \in n + 1 .. r.acc
  BY <1>1, <1>2, <1>3, <1>4
<1>7. \A k \in n + 1 .. r.acc : \E i \in Live(r, a) : a[i].arg = k
  <2> TAKE k \in n + 1 .. r.acc
  <2>1. CASE k = r.acc
    BY <1>1, <1>3, <2>1
  <2>2. CASE k # r.acc
    <3>1. k \in n + 1 .. s.acc
      BY <1>2, <2>2
    <3>2. PICK i \in Live(s, line) : line[i].arg = k
      BY <3>1 DEF InLine
    <3> QED
      BY <1>3, <3>2
  <2> QED
    BY <2>1, <2>2
<1>8. InLine(r, a)
  BY <1>2, <1>5, <1>6, <1>7 DEF InLine
<1> QED
  BY <1>8 DEF a

(* The next task does not send on the link. *)
LEMMA PopOther ==
  ASSUME NEW s \in Socks, NEW line \in Seq(Tasks), line # <<>>, InLine(s, line),
         ~(Head(line).op = "send" /\ Head(line).id = s.id)
  PROVE  InLine(s, Tail(line)) /\ Tail(line) \in Seq(Tasks)
<1> DEFINE r == Tail(line)
<1>1. r \in Seq(Tasks) /\ Len(r) = Len(line) - 1 /\ Len(line) \in Nat \ {0} /\ \A i \in 1 .. Len(r) : r[i] = line[i + 1]
  OBVIOUS
<1>2. Head(line) = line[1]
  OBVIOUS
<1> HIDE DEF r
<1>3. \A i \in Live(s, r) : i \in Nat /\ i + 1 \in Live(s, line) /\ r[i] = line[i + 1]
  BY <1>1 DEF Live
<1>4. \A i \in Live(s, line) : i \in Nat /\ i - 1 \in Live(s, r) /\ r[i - 1] = line[i]
  <2> TAKE i \in Live(s, line)
  <2>1. i \in 1 .. Len(line) /\ i # 1
    BY <1>2 DEF Live
  <2>2. i - 1 \in 1 .. Len(r) /\ (i - 1) + 1 = i
    BY <1>1, <2>1
  <2> QED
    BY <1>1, <2>1, <2>2 DEF Live
<1>5. \A i, j \in Live(s, r) : i < j => r[i].arg < r[j].arg
  BY <1>3 DEF InLine
<1>6. \A i \in Live(s, r) : r[i].arg \in Len(Data(s)) + 1 .. s.acc
  BY <1>3 DEF InLine
<1>7. \A k \in Len(Data(s)) + 1 .. s.acc : \E i \in Live(s, r) : r[i].arg = k
  BY <1>4 DEF InLine
<1>8. InLine(s, r)
  BY <1>5, <1>6, <1>7 DEF InLine
<1> QED
  BY <1>1, <1>8 DEF r

(* The next task sends on the link: its message is the next one. *)
LEMMA PopSend ==
  ASSUME NEW s \in Socks, NEW r \in Socks, NEW line \in Seq(Tasks), line # <<>>, InLine(s, line),
         Head(line).op = "send", Head(line).id = s.id
  PROVE  /\ Head(line).arg = Len(Data(s)) + 1
         /\ r.id = s.id /\ r.acc = s.acc /\ Data(r) = Append(Data(s), Head(line).arg) => InLine(r, Tail(line))
<1> DEFINE l == Tail(line)
           n == Len(Data(s))
<1>1. l \in Seq(Tasks) /\ Len(l) = Len(line) - 1 /\ Len(line) \in Nat \ {0} /\ \A i \in 1 .. Len(l) : l[i] = line[i + 1]
  OBVIOUS
<1>2. Head(line) = line[1] /\ 1 \in Live(s, line)
  BY <1>1 DEF Live
<1>3. n \in Nat /\ s.acc \in Nat /\ Data(s) \in Seq(Nat)
  BY DataType
<1> HIDE DEF l
<1>4. \A i \in Live(s, l) : i \in Nat \ {0} /\ i + 1 \in Live(s, line) /\ l[i] = line[i + 1]
  BY <1>1 DEF Live
<1>5. \A i \in Live(s, line) : i \in Nat \ {0} /\ (i # 1 => i - 1 \in Live(s, l) /\ l[i - 1] = line[i])
  <2> TAKE i \in Live(s, line)
  <2>1. i \in 1 .. Len(line)
    BY DEF Live
  <2>2. i # 1 => i - 1 \in 1 .. Len(l) /\ (i - 1) + 1 = i
    BY <1>1, <2>1
  <2> QED
    BY <1>1, <2>1, <2>2 DEF Live
<1>6. line[1].arg \in n + 1 .. s.acc
  BY <1>2 DEF InLine
<1>7. \A i \in Live(s, line) : line[i].arg \in n + 1 .. s.acc /\ (i # 1 => line[1].arg < line[i].arg)
  BY <1>2, <1>5 DEF InLine
<1>8. line[1].arg = n + 1
  <2>1. n + 1 \in n + 1 .. s.acc
    BY <1>3, <1>6
  <2>2. PICK i \in Live(s, line) : line[i].arg = n + 1
    BY <2>1 DEF InLine
  <2> QED
    BY <1>3, <1>6, <1>7, <2>2
<1>9. ASSUME r.id = s.id, r.acc = s.acc, Data(r) = Append(Data(s), Head(line).arg)
      PROVE  InLine(r, l)
  <2>1. Len(Data(r)) = n + 1 /\ Live(r, l) = Live(s, l)
    BY <1>3, <1>9 DEF Live
  <2>2. n + 1 <= r.acc
    BY <1>3, <1>6, <1>9
  <2>3. \A i, j \in Live(r, l) : i < j => l[i].arg < l[j].arg
    BY <1>4, <2>1 DEF InLine
  <2>4. \A i \in Live(r, l) : l[i].arg \in n + 1 + 1 .. r.acc
    <3> TAKE i \in Live(r, l)
    <3>1. i + 1 \in Live(s, line) /\ i + 1 # 1 /\ l[i] = line[i + 1]
      BY <1>4, <2>1
    <3>2. l[i].arg \in n + 1 .. s.acc /\ n + 1 < l[i].arg
      BY <1>7, <1>8, <3>1
    <3> QED
      BY <1>3, <1>9, <3>2
  <2>5. \A k \in n + 1 + 1 .. r.acc : \E i \in Live(r, l) : l[i].arg = k
    <3> TAKE k \in n + 1 + 1 .. r.acc
    <3>1. k \in n + 1 .. s.acc /\ k # n + 1
      BY <1>3, <1>9
    <3>2. PICK i \in Live(s, line) : line[i].arg = k
      BY <3>1 DEF InLine
    <3>3. i # 1
      BY <1>8, <3>1, <3>2
    <3> QED
      BY <1>5, <2>1, <3>2, <3>3
  <2> QED
    BY <2>1, <2>2, <2>3, <2>4, <2>5 DEF InLine
<1> QED
  BY <1>2, <1>8, <1>9 DEF l

(* A buffer that holds the same. *)
LEMMA SameData ==
  ASSUME NEW s \in Socks, NEW r \in Socks, NEW line, r.id = s.id, r.acc = s.acc, Data(r) = Data(s)
  PROVE  InLine(r, line) <=> InLine(s, line)
<1>1. Live(r, line) = Live(s, line)
  BY DEF Live
<1> QED
  BY <1>1 DEF InLine

(* A message goes to the buffer, for no task sends on the link. *)
LEMMA SentAtOnce ==
  ASSUME NEW s \in Socks, NEW r \in Socks, NEW line \in Seq(Tasks), InLine(s, line), Live(s, line) = {},
         r.id = s.id, r.acc = s.acc + 1
  PROVE  /\ Len(Data(s)) = s.acc
         /\ Data(r) = Append(Data(s), s.acc + 1) => InLine(r, line)
<1>1. Len(Data(s)) \in Nat /\ s.acc \in Nat /\ Len(Data(s)) <= s.acc /\ Data(s) \in Seq(Nat)
  BY DataType DEF InLine
<1>2. Len(Data(s)) = s.acc
  <2>1. s.acc \notin Len(Data(s)) + 1 .. s.acc
    BY DEF InLine
  <2> QED
    BY <1>1, <2>1
<1>3. ASSUME Data(r) = Append(Data(s), s.acc + 1) PROVE InLine(r, line)
  <2>1. Len(Data(r)) = s.acc + 1 /\ Live(r, line) = {}
    BY SMTT(40), <1>1, <1>2, <1>3 DEF Live
  <2>2. \A k \in s.acc + 1 + 1 .. r.acc : FALSE
    BY <1>1
  <2> QED
    BY <1>1, <2>1, <2>2 DEF InLine
<1> QED
  BY <1>2, <1>3

(* A link that nothing was accepted on. *)
LEMMA NothingSent ==
  ASSUME NEW s \in Socks, NEW line \in Seq(Tasks), Data(s) = <<>>, s.acc = 0, Live(s, line) = {}
  PROVE  InLine(s, line)
<1>1. Len(Data(s)) = 0
  OBVIOUS
<1> QED
  BY <1>1 DEF InLine

(* One more message in order. *)
LEMMA OneMore ==
  ASSUME NEW q \in Seq(Nat), Counts(q)
  PROVE  Counts(Append(q, Len(q) + 1))
<1> DEFINE a == Append(q, Len(q) + 1)
<1>1. Len(a) = Len(q) + 1 /\ a[Len(q) + 1] = Len(q) + 1 /\ \A i \in 1 .. Len(q) : a[i] = q[i]
  OBVIOUS
<1>2. Len(q) \in Nat
  OBVIOUS
<1> HIDE DEF a
<1>3. Counts(a)
  BY <1>1, <1>2 DEF Counts
<1> QED
  BY <1>3 DEF a

-----------------------------------------------------------------------------
(* The socket *)

(* The bits of epoll: what they are set to leaves the data as it was. *)
LEMMA UpdateIs ==
  ASSUME NEW s \in Socks, NEW bits \in SUBSET Bits
  PROVE  LET u == Update(s, bits)
         IN /\ u \in Socks /\ u.id = s.id /\ u.conn = s.conn /\ u.status = s.status
            /\ u.sending = s.sending /\ u.queue = s.queue /\ u.acc = s.acc /\ u.wire = s.wire
            /\ u.bits = bits /\ (s.reg => u.reg) /\ u.pend \subseteq s.pend
            /\ "send" \in s.pend => "send" \in u.pend
            /\ bits # {} => u.reg \/ (u.pend = s.pend /\ u.bits = s.bits)
<1> DEFINE w == [s EXCEPT !.bits = bits, !.reg = @ \/ bits # {},
                          !.pend = IF bits # {} THEN @ \ {"remove"} ELSE @]
           p == IF bits # {} THEN s.pend \ {"remove"} ELSE s.pend
           r == s.reg \/ bits # {}
<1>1. CASE bits = s.bits
  <2>1. Update(s, bits) = s
    BY <1>1 DEF Update
  <2> QED
    BY <1>1, <2>1
<1>2. CASE bits # s.bits
  <2>1. Update(s, bits) = w
    BY <1>2 DEF Update
  <2>2. p \in SUBSET {"send", "remove"} /\ r \in BOOLEAN
    BY DEF Socks
  <2>3. w = [s EXCEPT !.bits = bits, !.reg = r, !.pend = p]
    BY DEF Socks
  <2> HIDE DEF p, r, w
  <2>4. /\ w \in Socks /\ w.id = s.id /\ w.conn = s.conn /\ w.status = s.status
        /\ w.sending = s.sending /\ w.queue = s.queue /\ w.acc = s.acc /\ w.wire = s.wire
        /\ w.bits = bits /\ w.reg = r /\ w.pend = p
    BY <2>2, <2>3 DEF Socks
  <2>5. /\ s.reg => w.reg
        /\ p \subseteq s.pend /\ ("send" \in s.pend => "send" \in p)
        /\ bits # {} => w.reg
    BY <2>4 DEF p, r
  <2> QED
    BY <2>1, <2>4, <2>5
<1> QED
  BY <1>1, <1>2

(* So do a bit that is set ... *)
LEMMA EnableIs ==
  ASSUME NEW s \in Socks, NEW b \in Bits
  PROVE  LET u == EnableEventBit(s, b)
         IN /\ u \in Socks /\ u.id = s.id /\ u.conn = s.conn /\ u.status = s.status
            /\ u.sending = s.sending /\ u.queue = s.queue /\ u.acc = s.acc /\ u.wire = s.wire
            /\ u.bits = s.bits \cup {b} /\ (s.reg => u.reg) /\ u.pend \subseteq s.pend
            /\ "send" \in s.pend => "send" \in u.pend
<1>1. s.bits \cup {b} \in SUBSET Bits
  BY DEF Socks
<1> QED
  BY <1>1, UpdateIs DEF EnableEventBit

(* ... and one that is taken away. *)
LEMMA DisableIs ==
  ASSUME NEW s \in Socks, NEW b \in Bits
  PROVE  LET u == DisableEventBit(s, b)
         IN /\ u \in Socks /\ u.id = s.id /\ u.conn = s.conn /\ u.status = s.status
            /\ u.sending = s.sending /\ u.queue = s.queue /\ u.acc = s.acc /\ u.wire = s.wire
            /\ u.bits = s.bits \ {b} /\ (s.reg => u.reg) /\ u.pend \subseteq s.pend
            /\ "send" \in s.pend => "send" \in u.pend
            /\ ~u.reg => ~s.reg
<1>1. s.bits \ {b} \in SUBSET Bits
  BY DEF Socks
<1>2. s.bits \ {b} # {} /\ ~s.reg => TRUE
  OBVIOUS
<1> QED
  BY <1>1, UpdateIs DEF DisableEventBit

(* Three sequences in a row. *)
LEMMA Assoc ==
  ASSUME NEW a \in Seq(Nat), NEW b \in Seq(Nat), NEW c \in Seq(Nat)
  PROVE  (a \o b) \o c = a \o (b \o c)
<1>1. (a \o b) \o c \in Seq(Nat) /\ a \o (b \o c) \in Seq(Nat)
  OBVIOUS
<1>2. Len((a \o b) \o c) = Len(a) + Len(b) + Len(c) /\ Len(a \o (b \o c)) = Len(a) + Len(b) + Len(c)
  OBVIOUS
<1>3. \A i \in 1 .. Len(a) + Len(b) + Len(c) : ((a \o b) \o c)[i] = (a \o (b \o c))[i]
  OBVIOUS
<1> QED
  BY <1>1, <1>2, <1>3, SeqEqual

(* A sequence is its beginning and what is behind it. *)
LEMMA Cut ==
  ASSUME NEW a \in Seq(Nat), NEW q \in Seq(Nat), NEW c \in Seq(Nat), NEW k \in 0 .. Len(q)
  PROVE  /\ SubSeq(q, 1, k) \in Seq(Nat) /\ SubSeq(q, k + 1, Len(q)) \in Seq(Nat)
         /\ (a \o SubSeq(q, 1, k)) \o SubSeq(q, k + 1, Len(q)) \o c = a \o q \o c
         /\ k < Len(q) <=> SubSeq(q, k + 1, Len(q)) # <<>>
<1> DEFINE l == SubSeq(q, 1, k)
           r == SubSeq(q, k + 1, Len(q))
<1>1. l \in Seq(Nat) /\ Len(l) = k /\ \A i \in 1 .. k : l[i] = q[i]
  OBVIOUS
<1>2. r \in Seq(Nat) /\ Len(r) = Len(q) - k /\ \A i \in 1 .. Len(q) - k : r[i] = q[k + i]
  OBVIOUS
<1>3. l \o r = q
  <2>1. 1 \in 1 .. Len(q) + 1 /\ k \in 1 - 1 .. Len(q) /\ Len(q) \in k .. Len(q)
    OBVIOUS
  <2> QED
    BY <2>1, ConcatAdjacentSubSeq, SubSeqFull, ZenonT(60)
<1> HIDE DEF l, r
<1>4. (a \o l) \o r = a \o (l \o r)
  <2>1. l \in Seq(Nat) /\ r \in Seq(Nat)
    BY <1>1, <1>2
  <2> QED
    BY <2>1, Assoc
<1>5. k < Len(q) <=> r # <<>>
  BY <1>2
<1> QED
  BY <1>1, <1>2, <1>3, <1>4, <1>5 DEF l, r

(* FdrSocket::Sendv. *)
LEMMA WriteIs ==
  ASSUME NEW s \in Socks, NEW k \in 0 .. Len(s.sending)
  PROVE  LET w == Write(s, k)
         IN /\ w \in Socks /\ w.id = s.id /\ w.conn = s.conn /\ w.status = s.status /\ w.acc = s.acc
            /\ w.queue = s.queue /\ Data(w) = Data(s)
            /\ s.bits \subseteq w.bits /\ (s.reg => w.reg) /\ w.pend \subseteq s.pend
            /\ "send" \in s.pend => "send" \in w.pend
            /\ k < Len(s.sending) => "write" \in w.bits
<1> DEFINE p == s.wire \o SubSeq(s.sending, 1, k)
           q == SubSeq(s.sending, k + 1, Len(s.sending))
           v == [s EXCEPT !.wire = p, !.sending = q]
<1>1. s.sending \in Seq(Nat) /\ s.queue \in Seq(Nat) /\ s.wire \in Seq(Nat)
  BY DEF Socks
<1>2. p \in Seq(Nat) /\ q \in Seq(Nat) /\ p \o q \o s.queue = Data(s) /\ (k < Len(s.sending) <=> q # <<>>)
  <2>1. /\ SubSeq(s.sending, 1, k) \in Seq(Nat) /\ q \in Seq(Nat)
        /\ p \o q \o s.queue = s.wire \o s.sending \o s.queue
        /\ k < Len(s.sending) <=> q # <<>>
    BY <1>1, Cut, Zenon
  <2>2. p \in Seq(Nat)
    BY <1>1, <2>1, ConcatProperties
  <2> QED
    BY <2>1, <2>2 DEF Data
<1>3. Write(s, k) = IF v.sending = <<>> THEN v ELSE EnableEventBit(v, "write")
  BY DEF Write
<1> HIDE DEF p, q
<1>4. /\ v \in Socks /\ v.id = s.id /\ v.conn = s.conn /\ v.status = s.status /\ v.acc = s.acc
      /\ v.queue = s.queue /\ v.sending = q /\ v.wire = p /\ v.bits = s.bits /\ v.reg = s.reg /\ v.pend = s.pend
  BY <1>2 DEF Socks
<1> HIDE DEF v
<1>5. Data(v) = Data(s)
  BY <1>2, <1>4 DEF Data
<1>6. CASE q = <<>>
  BY <1>2, <1>3, <1>4, <1>5, <1>6
<1>7. CASE q # <<>>
  <2> DEFINE w == EnableEventBit(v, "write")
  <2>1. /\ w \in Socks /\ w.id = v.id /\ w.conn = v.conn /\ w.status = v.status
        /\ w.sending = v.sending /\ w.queue = v.queue /\ w.acc = v.acc /\ w.wire = v.wire
        /\ w.bits = v.bits \cup {"write"} /\ (v.reg => w.reg) /\ w.pend \subseteq v.pend
        /\ "send" \in v.pend => "send" \in w.pend
    BY <1>4, EnableIs DEF Bits
  <2>2. Data(w) = Data(v)
    BY <2>1 DEF Data
  <2>3. Write(s, k) = w
    BY <1>3, <1>4, <1>7
  <2> HIDE DEF w
  <2> QED
    BY <1>4, <1>5, <2>1, <2>2, <2>3
<1> QED
  BY <1>6, <1>7

(* SendBuffer::OpImpl_CheckSendQueue. *)
LEMMA CheckIs ==
  ASSUME NEW s \in Socks
  PROVE  LET c == CheckSendQueue(s)
         IN /\ c \in Socks /\ c.id = s.id /\ c.conn = s.conn /\ c.acc = s.acc
            /\ c.bits = s.bits /\ c.reg = s.reg /\ c.pend = s.pend
            /\ c.sending = s.sending \o s.queue /\ c.queue = <<>> /\ c.wire = s.wire /\ Data(c) = Data(s)
            /\ c.status = "Empty" <=> c.sending = <<>>
<1> DEFINE q == s.sending \o s.queue
           st == IF q = <<>> THEN "Empty" ELSE "Sending"
           c == [s EXCEPT !.sending = q, !.queue = <<>>, !.status = st]
<1>1. s.sending \in Seq(Nat) /\ s.queue \in Seq(Nat) /\ s.wire \in Seq(Nat)
  BY DEF Socks
<1>2. q \in Seq(Nat) /\ <<>> \in Seq(Nat) /\ st \in {"Empty", "Sending"} /\ (st = "Empty" <=> q = <<>>)
  BY <1>1
<1>3. s.wire \o q \o <<>> = s.wire \o s.sending \o s.queue
  <2>1. s.wire \o q \in Seq(Nat)
    BY <1>1, <1>2
  <2>2. (s.wire \o q) \o <<>> = s.wire \o q
    BY <2>1, ConcatEmptySeq
  <2>3. (s.wire \o s.sending) \o s.queue = s.wire \o q
    BY <1>1, Assoc
  <2> QED
    BY <2>2, <2>3
<1>4. CheckSendQueue(s) = c
  BY DEF CheckSendQueue, Socks
<1> HIDE DEF q, st
<1>5. /\ c \in Socks /\ c.id = s.id /\ c.conn = s.conn /\ c.acc = s.acc
      /\ c.bits = s.bits /\ c.reg = s.reg /\ c.pend = s.pend
      /\ c.sending = q /\ c.queue = <<>> /\ c.wire = s.wire /\ c.status = st
  BY <1>2 DEF Socks
<1>6. Data(c) = Data(s)
  BY <1>3, <1>5 DEF Data
<1> QED
  BY <1>2, <1>4, <1>5, <1>6 DEF q

(* Another socket of the same link. *)
LEMMA SockIs ==
  ASSUME NEW d \in Devices, NEW s \in Socks
  PROVE  LET e == [d EXCEPT !.sock = s]
         IN /\ e \in Devices /\ e.sock = s /\ e.st = d.st /\ e.config = d.config /\ e.dn = d.dn
            /\ e.next = d.next /\ e.n = d.n /\ e.timer = d.timer /\ e.links = d.links
BY DEF Devices

(* What is left to epoll for later is on the socket of the device. *)
LEMMA PendIs ==
  ASSUME NEW s \in Socks, NEW p \in SUBSET {"send", "remove"}
  PROVE  LET e == [s EXCEPT !.pend = p]
         IN /\ e \in Socks /\ e.id = s.id /\ e.conn = s.conn /\ e.status = s.status
            /\ e.sending = s.sending /\ e.queue = s.queue /\ e.acc = s.acc /\ e.wire = s.wire
            /\ e.bits = s.bits /\ e.reg = s.reg /\ e.pend = p /\ Data(e) = Data(s)
BY DEF Socks, Data

-----------------------------------------------------------------------------
(* The invariant holds at first *)

(* A device that was created just now. *)
LEMMA InitInv ==
  ASSUME Init
  PROVE  Inv
<1>1. PICK config \in Configs :
        /\ dev = [st |-> "Initialized", config |-> None, dn |-> 0, next |-> 0, n |-> 0,
                  timer |-> FALSE, links |-> 0, sock |-> NoSock]
        /\ tasks = <<T("open", 0, config)>> /\ batch = <<>> /\ taking = FALSE
        /\ job = NoJob /\ fdr = FdrIdle /\ firing = FALSE
  BY DEF Init
<1>2. /\ dev \in Devices /\ dev.st = "Initialized" /\ dev.dn = 0 /\ dev.timer = FALSE /\ dev.links = 0
      /\ dev.sock = NoSock
  BY <1>1, NoSockType DEF Devices, States
<1>3. T("open", 0, config) \in Tasks /\ T("open", 0, config).op = "open" /\ T("open", 0, config).arg = config
  BY <1>1 DEF T, Tasks, Ops
<1>4. tasks \in Seq(Tasks) /\ batch \in Seq(Tasks) /\ Len(tasks) = 1 /\ tasks[1] = T("open", 0, config)
  <2> HIDE DEF T
  <2> QED
    BY <1>1, <1>3
<1>5. \A t \in Queued : t = T("open", 0, config)
  <2>1. \A t \in ToSet(tasks) : t = T("open", 0, config)
    <3>1. \A i \in 1 .. Len(tasks) : i = 1
      BY <1>4
    <3> QED
      BY <1>4, <3>1, Elements
  <2>2. ToSet(batch) = {}
    BY <1>1, <1>4, Elements
  <2> QED
    BY <2>1, <2>2 DEF Queued
<1>6. Typed
  <2>1. job \in [by : Threads \cup {None}, at : Places] /\ (job.at = "no" <=> job = NoJob)
    BY <1>1 DEF NoJob, Places
  <2>2. fdr \in [at : {"idle", "handle", "recv"}, id : Nat, ev : {None, "send", "write", "read", "error"},
                 conn : {None, "connecting", "connected"}]
    BY <1>1 DEF FdrIdle
  <2>3. Settled(dev)
    BY <1>2, NoSockType DEF Settled, CanSend
  <2> QED
    BY <1>1, <1>2, <1>4, <2>1, <2>2, <2>3 DEF Typed
<1>7. InPlace
  BY <1>1 DEF InPlace
<1>8. Known
  BY <1>1, <1>3, <1>5 DEF Known, Knows, LinkOps, FdrIdle
<1>9. Failing /\ Sends /\ SomeoneWillReceive /\ SomeoneWillRetry /\ SomeoneWillClose
  BY <1>2, NoSockType, ClientAssumption DEF Failing, Sends, SomeoneWillReceive, SomeoneWillRetry, SomeoneWillClose
<1>10. InOrder
  <2>1. Data(NoSock) = <<>>
    BY NoSockType DEF Data
  <2>2. Line = tasks
    BY <1>1, <1>4 DEF Line
  <2>3. Live(NoSock, Line) = {}
    <3>1. \A i \in 1 .. Len(Line) : Line[i].op = "open"
      <4>1. \A i \in 1 .. Len(tasks) : i = 1
        BY <1>4
      <4> QED
        BY <1>3, <1>4, <2>2, <4>1
    <3> QED
      BY <3>1 DEF Live
  <2>4. InLine(NoSock, Line)
    BY <1>4, <2>1, <2>2, <2>3, NoSockType, NothingSent
  <2> QED
    BY <1>2, <2>1, <2>4 DEF InOrder, Counts
<1> QED
  BY <1>6, <1>7, <1>8, <1>9, <1>10 DEF Inv

-----------------------------------------------------------------------------
(* The op thread *)

(* Nobody sends in place while the op thread runs. *)
LEMMA Alone ==
  ASSUME Typed, InPlace, NEW op, Task(op)
  PROVE  taking /\ job = NoJob /\ job' = NoJob /\ taking' = taking /\ fdr' = fdr /\ firing' = firing
BY DEF InPlace, Task

(* The line holds the tasks. *)
LEMMA InTheLine ==
  ASSUME Typed
  PROVE  \A i \in 1 .. Len(Line) : Line[i] \in Queued
<1>1. tasks \in Seq(Tasks) /\ batch \in Seq(Tasks)
  BY DEF Typed
<1> TAKE i \in 1 .. Len(Line)
<1>2. CASE i <= Len(batch)
  <2>1. Line[i] = batch[i] /\ i \in 1 .. Len(batch)
    BY <1>1, <1>2 DEF Line
  <2> QED
    BY <1>1, <2>1, Elements DEF Queued
<1>3. CASE ~(i <= Len(batch))
  <2>1. Line[i] = tasks[i - Len(batch)] /\ i - Len(batch) \in 1 .. Len(tasks)
    BY <1>1, <1>3 DEF Line
  <2> QED
    BY <1>1, <2>1, Elements DEF Queued
<1> QED
  BY <1>2, <1>3

(* No task is of a link that is still to come. *)
LEMMA NoneOfNew ==
  ASSUME Typed, Known, NEW s \in Socks, s.id \notin 1 .. dev.links
  PROVE  Live(s, Line) = {} /\ \A t \in Queued : t.op \in LinkOps => t.id # s.id
<1>1. \A t \in Queued : t.op \in LinkOps => t.id # s.id
  BY DEF Known, Knows
<1> QED
  BY <1>1, InTheLine DEF Live, LinkOps

(* A task that changes the device: it neither receives nor sends, or it ends
   the link. *)
LEMMA DeviceTask ==
  ASSUME Inv, NEW op \in Ops \ {"send"}, Task(op), UNCHANGED tasks, Moves(dev, dev'),
         op \in {"recv", "continue"} => dev'.sock # dev.sock,
         op = "error" /\ Link = dev.sock.id => dev'.sock # dev.sock,
         op = "reopen" /\ dev'.st \in Reopens => dev'.timer,
         op = "timeout" /\ dev'.st = "Linking" => dev'.timer,
         op = "check" => ~(dev'.st = "Lingering" /\ dev'.sock.status = "Empty")
  PROVE  Inv'
<1> USE DEF Inv
<1> DEFINE h == Head(batch)
<1>1. Typed /\ InPlace /\ Known /\ tasks \in Seq(Tasks) /\ batch \in Seq(Tasks) /\ dev \in Devices /\ Settled(dev)
  BY DEF Typed
<1>2. /\ h \in Tasks /\ h.op = op /\ h \in Queued
      /\ tasks' \in Seq(Tasks) /\ batch' \in Seq(Tasks) /\ Queued = Queued' \cup {h}
      /\ Line \in Seq(Tasks) /\ Line # <<>> /\ Head(Line) = h /\ Line' = Tail(Line)
  BY <1>1, OneTaskLess
<1>3. taking /\ job = NoJob /\ job' = NoJob /\ taking' = taking /\ fdr' = fdr /\ firing' = firing
  BY <1>1, Alone
<1>4. /\ dev' \in Devices /\ Settled(dev') /\ dev'.links \in {dev.links, dev.links + 1} /\ dev.links \in Nat
      /\ dev.sock \in Socks /\ dev'.sock \in Socks /\ dev.sock.id <= dev.links /\ dev.sock.id \in Nat
  BY <1>1 DEF Moves, Settled, Devices, Socks
<1> HIDE DEF h
<1>5. Typed'
  BY <1>2, <1>3, <1>4 DEF Typed
<1>6. InPlace'
  BY <1>3 DEF InPlace
<1>7. \/ dev'.sock = dev.sock /\ (dev.sock.id # 0 => dev'.st \in {dev.st, "Lingering"})
      \/ dev'.sock # dev.sock /\ (dev'.sock = NoSock \/ dev'.sock = NewSock(dev.links + 1))
  <2>1. dev.links + 1 \in Nat /\ dev.links + 1 # dev.sock.id
    BY <1>4
  <2>2. NoSock.id = 0 /\ NewSock(dev.links + 1).id = dev.links + 1
    BY <2>1, NoSockType, NewSockType
  <2> QED
    BY <2>1, <2>2 DEF Moves
<1>8. ASSUME dev'.sock # dev.sock
      PROVE  /\ dev'.sock.id \notin 1 .. dev.links /\ dev'.sock.status = "Empty" /\ dev'.sock.acc = 0
             /\ Data(dev'.sock) = <<>> /\ dev'.st \notin {"LinkReady", "Lingering"}
             /\ dev'.sock.id # 0 => dev'.sock.reg /\ dev'.sock.pend = {}
  <2>1. dev.links + 1 \in Nat /\ dev.links + 1 \notin 1 .. dev.links
    BY <1>4
  <2>2. dev'.st \notin {"LinkReady", "Lingering"}
    BY <1>8 DEF Moves
  <2>3. CASE dev'.sock = NoSock
    BY <1>4, <2>2, <2>3, NoSockType DEF Data
  <2>4. CASE dev'.sock = NewSock(dev.links + 1)
    <3> DEFINE n == dev.links + 1
    <3>2. n \in Nat
      BY <2>1
    <3> HIDE DEF n
    <3>3. /\ NewSock(n).id = n /\ NewSock(n).status = "Empty" /\ NewSock(n).acc = 0
          /\ NewSock(n).reg = TRUE /\ NewSock(n).pend = {}
          /\ NewSock(n).wire = <<>> /\ NewSock(n).sending = <<>> /\ NewSock(n).queue = <<>>
      BY <3>2, NewSockType
    <3>4. dev'.sock = NewSock(n) /\ n \notin 1 .. dev.links
      BY <2>1, <2>4 DEF n
    <3>5. <<>> \o <<>> \o <<>> = <<>>
      OBVIOUS
    <3>6. Data(dev'.sock) = <<>>
      BY <3>3, <3>4, <3>5 DEF Data
    <3> QED
      BY <2>2, <3>3, <3>4, <3>6
  <2> QED
    BY <1>7, <1>8, <2>3, <2>4
<1>9. Known'
  <2>1. \A t \in Queued' : Knows(t, dev')
    <3> SUFFICES ASSUME NEW t \in Queued' PROVE Knows(t, dev')
      OBVIOUS
    <3>1. Knows(t, dev)
      BY <1>1, <1>2 DEF Known
    <3>2. t.op \in LinkOps => t.id \in 1 .. dev.links /\ t.id \in 1 .. dev'.links
      BY <1>4, <3>1 DEF Knows
    <3>3. t.op = "connected" /\ t.id = dev'.sock.id => dev'.sock.conn = "connected"
      <4>1. CASE dev'.sock = dev.sock
        BY <3>1, <4>1 DEF Knows
      <4>2. CASE dev'.sock # dev.sock
        BY <1>8, <3>2, <4>2 DEF LinkOps
      <4> QED
        BY <4>1, <4>2
    <3> QED
      BY <3>1, <3>2, <3>3 DEF Knows
  <2>2. fdr.at = "handle" => fdr.id \in 1 .. dev.links /\ fdr.id \in 1 .. dev'.links /\ fdr.ev # None
    BY <1>1, <1>4 DEF Known
  <2>3. fdr.at = "handle" /\ fdr.ev = "write" =>
          fdr.conn # None /\ (fdr.id = dev'.sock.id => fdr.conn = dev'.sock.conn)
    <3>1. CASE dev'.sock = dev.sock
      BY <1>1, <3>1 DEF Known
    <3>2. CASE dev'.sock # dev.sock
      BY <1>1, <1>8, <2>2, <3>2 DEF Known
    <3> QED
      BY <3>1, <3>2
  <2> QED
    BY <1>3, <2>1, <2>2, <2>3 DEF Known
<1>10. ASSUME dev'.sock = dev.sock, dev.sock.id # 0
       PROVE  /\ IsFailing => IsFailing'
              /\ Has("continue") => Has("continue")'
              /\ Has("recv") => Has("recv")'
              /\ Detects("write")' = Detects("write") /\ Detects("read")' = Detects("read")
  <2>1. Has("continue") => Has("continue")'
    BY <1>2, <1>10 DEF Has
  <2>2. Has("recv") => Has("recv")'
    BY <1>2, <1>10 DEF Has
  <2>3. Has("error") => Has("error")'
    BY <1>2, <1>10 DEF Has, Link, h
  <2> QED
    BY <1>3, <1>10, <2>1, <2>2, <2>3 DEF IsFailing, Detects
<1>11. Failing'
  BY <1>7, <1>8, <1>10 DEF Failing
<1>12. Sends'
  <2>1. dev'.sock.status = "Sending" => dev'.sock = dev.sock /\ dev.sock.id # 0
    BY <1>4, <1>8, NoSockType DEF Settled, CanSend
  <2> QED
    BY <1>3, <1>10, <2>1 DEF Sends, OnItsWay
<1>13. SomeoneWillReceive'
  <2>1. dev'.st = "LinkReady" => dev.st = "LinkReady" /\ dev'.sock = dev.sock /\ dev.sock.id # 0
    BY <1>1 DEF Moves, Settled, CanSend
  <2> QED
    BY <1>10, <2>1 DEF SomeoneWillReceive
<1>14. SomeoneWillRetry'
  <2>1. dev'.st \in Reopens \cup {"Linking"} => dev'.timer \/ (dev'.st = dev.st /\ dev'.timer = dev.timer)
    BY DEF Moves
  <2>2. "Linking" \notin Reopens
    BY ClientAssumption
  <2>3. dev'.st \in Reopens => dev'.timer \/ firing' \/ \E t \in Queued' : t.op = "reopen"
    BY <1>2, <1>3, <2>1 DEF SomeoneWillRetry
  <2>4. dev'.st = "Linking" => dev'.timer \/ firing' \/ \E t \in Queued' : t.op = "timeout"
    BY <1>2, <1>3, <2>1 DEF SomeoneWillRetry
  <2> QED
    BY <2>3, <2>4 DEF SomeoneWillRetry
<1>15. SomeoneWillClose'
  <2>1. dev'.st = "Lingering" => dev'.sock = dev.sock /\ (dev.st = "Lingering" \/ dev'.sock.status = "Sending")
    BY DEF Moves
  <2> QED
    BY <1>2, <2>1 DEF SomeoneWillClose
<1>16. InOrder'
  <2>1. CASE dev'.sock = dev.sock
    <3>1. Counts(Data(dev'.sock))
      BY <2>1 DEF InOrder
    <3>2. dev'.st # "Lingering" => InLine(dev.sock, Line)
      <4>1. CASE dev.sock.id # 0
        BY <1>7, <2>1, <4>1 DEF InOrder
      <4>2. CASE dev.sock.id = 0
        BY <1>1, <4>2 DEF Settled, CanSend, InOrder
      <4> QED
        BY <4>1, <4>2
    <3>3. InLine(dev.sock, Line) => InLine(dev.sock, Tail(Line))
      BY <1>2, <1>4, PopOther
    <3> QED
      BY <1>2, <2>1, <3>1, <3>2, <3>3 DEF InOrder
  <2>2. CASE dev'.sock # dev.sock
    <3>1. Live(dev'.sock, Line) = {} /\ Data(dev'.sock) = <<>> /\ dev'.sock.acc = 0
      BY <1>1, <1>4, <1>8, <2>2, NoneOfNew
    <3>2. InLine(dev'.sock, Line)
      BY <1>2, <1>4, <3>1, NothingSent
    <3>3. InLine(dev'.sock, Tail(Line))
      BY <1>2, <1>4, <3>2, PopOther
    <3>4. Counts(Data(dev'.sock))
      BY <3>1 DEF Counts
    <3> QED
      BY <1>2, <3>3, <3>4 DEF InOrder
  <2> QED
    BY <2>1, <2>2
<1> QED
  BY <1>5, <1>6, <1>9, <1>11, <1>12, <1>13, <1>14, <1>15, <1>16

(* A new start of the device; none when it is disposed. *)
LEMMA FreshTask ==
  ASSUME Inv, NEW op \in Ops \ {"recv", "send", "continue", "check"}, Task(op), UNCHANGED tasks,
         dev.st # "Disposing", Fresh(dev.links, dev')
  PROVE  Inv'
<1>1. dev \in Devices /\ Settled(dev) /\ dev.links \in Nat /\ dev.sock.id <= dev.links /\ dev.sock.id \in Nat
  BY DEF Inv, Typed, Settled, Devices, Socks
<1>2. Moves(dev, dev') /\ (dev'.st \in Reopens \cup {"Linking"} => dev'.timer)
  BY <1>1, FreshMoves
<1>3. Link = dev.sock.id /\ op = "error" => dev'.sock # dev.sock
  <2> SUFFICES ASSUME Link = dev.sock.id, op = "error" PROVE dev'.sock # dev.sock
    OBVIOUS
  <2>1. Head(batch) \in Queued /\ Head(batch).op = "error"
    BY TaskIs DEF Inv, Typed
  <2>2. dev.sock.id \in 1 .. dev.links
    BY <2>1 DEF Inv, Known, Knows, LinkOps, Link
  <2>3. dev.links + 1 \in Nat
    BY <1>1
  <2>4. NoSock.id = 0 /\ NewSock(dev.links + 1).id = dev.links + 1
    BY <2>3, NoSockType, NewSockType
  <2> QED
    BY <1>1, <2>2, <2>4 DEF Fresh
<1> QED
  BY <1>2, <1>3, DeviceTask

(* A task that leaves the device as it is. *)
LEMMA IdleTask ==
  ASSUME Inv, NEW op \in Ops \ {"recv", "send", "continue", "check"}, Task(op), UNCHANGED <<dev, tasks>>,
         op = "error" => Link # dev.sock.id,
         op = "reopen" => dev.st \notin Reopens,
         op = "timeout" => dev.st # "Linking"
  PROVE  Inv'
<1>1. dev \in Devices /\ Settled(dev)
  BY DEF Inv, Typed
<1>2. Moves(dev, dev')
  BY <1>1, Stays
<1> QED
  BY <1>2, DeviceTask

(* OpThr_Open. *)
LEMMA OpenStep == Inv /\ OpOpen => Inv'
<1> SUFFICES ASSUME Inv, OpOpen PROVE Inv'
  OBVIOUS
<1>1. Task("open") /\ UNCHANGED tasks /\ tasks \in Seq(Tasks) /\ batch \in Seq(Tasks) /\ dev \in Devices
  BY DEF OpOpen, Inv, Typed
<1>2. Arg \in Configs \cup {None}
  BY <1>1, TaskIs DEF Inv, Known, Knows, Arg
<1>3. "open" \in Ops \ {"recv", "send", "continue", "check"}
  BY DEF Ops
<1>4. CASE dev' = dev
  BY <1>1, <1>3, <1>4, IdleTask
<1>5. CASE dev.st # "Disposing" /\ dev' \in OpImpl_Open(dev, Arg)
  BY <1>1, <1>2, <1>3, <1>5, OpenIs, FreshTask
<1>6. CASE dev.st # "Disposing" /\ dev' \in OpImpl_Reopen(dev)
  BY <1>1, <1>3, <1>6, ReopenIs, FreshTask
<1> QED
  BY <1>4, <1>5, <1>6 DEF OpOpen

(* OpThr_Close, OpThr_LingerClose, OpThr_CheckLingerClose, OpThr_Dispose. *)
LEMMA CloseStep == Inv /\ (OpClose \/ OpLingerClose \/ OpCheckLingerClose \/ OpDispose) => Inv'
<1> SUFFICES ASSUME Inv, OpClose \/ OpLingerClose \/ OpCheckLingerClose \/ OpDispose PROVE Inv'
  OBVIOUS
<1>1. dev \in Devices /\ Settled(dev)
  BY DEF Inv, Typed
<1>2. {"close", "lclose", "check", "dispose"} \subseteq Ops \ {"recv", "send", "continue"}
  BY DEF Ops
<1>3. CASE OpClose
  <2>1. Moves(dev, dev') /\ Task("close") /\ UNCHANGED tasks
    BY <1>1, <1>3, ClosedIs DEF OpClose
  <2> QED
    BY <1>2, <2>1, DeviceTask
<1>4. CASE OpLingerClose
  <2>1. Moves(dev, dev') /\ Task("lclose") /\ UNCHANGED tasks
    BY <1>1, <1>4, LingerIs DEF OpLingerClose
  <2> QED
    BY <1>2, <2>1, DeviceTask
<1>5. CASE OpCheckLingerClose
  <2>1. /\ Moves(dev, dev') /\ Task("check") /\ UNCHANGED tasks
        /\ ~(dev'.st = "Lingering" /\ dev'.sock.status = "Empty")
    BY <1>1, <1>5, LingerEnds DEF OpCheckLingerClose
  <2> QED
    BY <1>2, <2>1, DeviceTask
<1>6. CASE OpDispose
  <2>1. Moves(dev, dev') /\ Task("dispose") /\ UNCHANGED tasks
    BY <1>1, <1>6, DisposedIs DEF OpDispose
  <2> QED
    BY <1>2, <2>1, DeviceTask
<1> QED
  BY <1>3, <1>4, <1>5, <1>6

(* The timer opens it again. *)
LEMMA ReopenStep == Inv /\ OpReopen => Inv'
<1> SUFFICES ASSUME Inv, OpReopen PROVE Inv'
  OBVIOUS
<1>1. Task("reopen") /\ UNCHANGED tasks /\ tasks \in Seq(Tasks) /\ batch \in Seq(Tasks) /\ dev \in Devices
  BY DEF OpReopen, Inv, Typed
<1>2. "reopen" \in Ops \ {"recv", "send", "continue", "check"}
  BY DEF Ops
<1>3. CASE dev.st \in Reopens
  <2>1. dev.st # "Disposing" /\ dev' \in OpImpl_Reopen(dev)
    BY <1>3, ClientAssumption DEF OpReopen
  <2> QED
    BY <1>1, <1>2, <2>1, ReopenIs, FreshTask
<1>4. CASE dev.st \notin Reopens
  BY <1>1, <1>2, <1>4, IdleTask DEF OpReopen
<1> QED
  BY <1>3, <1>4

(* A query that is over, or a name that was found. *)
LEMMA QueryOver ==
  ASSUME NEW d \in Devices, Settled(d), d.dn # 0
  PROVE  LET e == [d EXCEPT !.dn = 0]
         IN /\ e \in Devices /\ e.dn = 0 /\ e.st = "Linking" /\ e.links = d.links
            /\ \A k \in Nat : [e EXCEPT !.n = @ + k] = [d EXCEPT !.dn = 0, !.n = @ + k]
<1>1. d.st = "Linking"
  BY DEF Settled
<1> QED
  BY <1>1 DEF Devices

(* The connection took too long. *)
LEMMA TimeoutStep == Inv /\ OpTimeout => Inv'
<1> SUFFICES ASSUME Inv, OpTimeout PROVE Inv'
  OBVIOUS
<1>1. Task("timeout") /\ UNCHANGED tasks /\ dev \in Devices /\ Settled(dev)
  BY DEF OpTimeout, Inv, Typed
<1>2. "timeout" \in Ops \ {"recv", "send", "continue", "check"}
  BY DEF Ops
<1>3. CASE dev.dn # 0
  <2> DEFINE e == [dev EXCEPT !.dn = 0]
  <2>1. e \in Devices /\ e.dn = 0 /\ e.st = "Linking" /\ e.links = dev.links /\ dev.st = "Linking"
    BY <1>1, <1>3, QueryOver DEF Settled
  <2>2. dev' = OpThr_SetBrokenState(e)
    BY <1>3 DEF OpTimeout
  <2> HIDE DEF e
  <2>3. Fresh(dev.links, dev')
    BY <2>1, <2>2, BrokenIs
  <2> QED
    BY <1>1, <1>2, <2>1, <2>3, FreshTask
<1>4. CASE dev.dn = 0 /\ dev.st = "Linking"
  <2>1. dev' \in ConnectToNext(dev)
    BY <1>4 DEF OpTimeout
  <2>2. Leaving(dev)
    BY <1>1, <1>4 DEF Leaving
  <2>3. Fresh(dev.links, dev')
    BY <2>1, <2>2, Connecting
  <2> QED
    BY <1>1, <1>2, <1>4, <2>3, FreshTask
<1>5. CASE dev.dn = 0 /\ dev.st # "Linking"
  BY <1>1, <1>2, <1>5, IdleTask DEF OpTimeout
<1> QED
  BY <1>3, <1>4, <1>5

(* The name was found, or not. *)
LEMMA DnQueryDoneStep == Inv /\ OpDnQueryDone => Inv'
<1> SUFFICES ASSUME Inv, OpDnQueryDone PROVE Inv'
  OBVIOUS
<1>1. Task("dn") /\ UNCHANGED tasks /\ dev \in Devices /\ Settled(dev)
  BY DEF OpDnQueryDone, Inv, Typed
<1>2. "dn" \in Ops \ {"recv", "send", "continue", "check"}
  BY DEF Ops
<1>3. Link # 0 /\ Arg \in Nat
  BY <1>1, TaskIs DEF Inv, Typed, Known, Knows, Link, Arg
<1>4. CASE dev.dn = Link
  <2> DEFINE e == [dev EXCEPT !.dn = 0]
             f == [e EXCEPT !.n = @ + Arg]
  <2>1. /\ e \in Devices /\ e.dn = 0 /\ e.st = "Linking" /\ e.links = dev.links /\ dev.st = "Linking"
        /\ f = [dev EXCEPT !.dn = 0, !.n = @ + Arg]
    BY <1>1, <1>3, <1>4, QueryOver DEF Settled
  <2>2. dev' \in ConnectToNext(f)
    BY <1>4, <2>1 DEF OpDnQueryDone
  <2> HIDE DEF e
  <2>3. f \in Devices /\ f.dn = 0 /\ f.st = "Linking" /\ f.links = dev.links
    BY <1>3, <2>1 DEF Devices
  <2> HIDE DEF f
  <2>4. Fresh(dev.links, dev')
    BY <2>2, <2>3, Connecting DEF Leaving
  <2> QED
    BY <1>1, <1>2, <2>1, <2>4, FreshTask
<1>5. CASE dev.dn # Link
  BY <1>1, <1>2, <1>5, IdleTask DEF OpDnQueryDone
<1> QED
  BY <1>4, <1>5

(* The link is broken. *)
LEMMA ErrorStep == Inv /\ OpError => Inv'
<1> SUFFICES ASSUME Inv, OpError PROVE Inv'
  OBVIOUS
<1>1. Task("error") /\ UNCHANGED tasks /\ dev \in Devices /\ Settled(dev)
  BY DEF OpError, Inv, Typed
<1>2. "error" \in Ops \ {"recv", "send", "continue", "check"}
  BY DEF Ops
<1>3. Link # 0
  BY <1>1, TaskIs DEF Inv, Typed, Known, Knows, Link, LinkOps
<1>4. CASE IsAlive
  <2>1. dev' \in ConnectToNext(dev)
    BY <1>4 DEF OpError
  <2>2. dev.st \in {"Linking", "LinkReady", "Lingering"} /\ dev.dn = 0
    BY <1>1, <1>3, <1>4 DEF Settled, IsAlive
  <2>3. Fresh(dev.links, dev')
    BY <1>1, <2>1, <2>2, Connecting DEF Leaving
  <2> QED
    BY <1>1, <1>2, <2>2, <2>3, FreshTask
<1>5. CASE ~IsAlive
  BY <1>1, <1>2, <1>5, IdleTask DEF OpError, IsAlive
<1> QED
  BY <1>4, <1>5

-----------------------------------------------------------------------------
(* Steps that keep the link *)

LinkStays(d, e) ==
  /\ e.st = d.st /\ e.timer = d.timer /\ e.links = d.links
  /\ e.sock.id = d.sock.id /\ e.sock.conn = d.sock.conn

(* Whoever was told of the failure still is. *)
LEMMA StillFailing ==
  ASSUME dev'.sock.id = dev.sock.id, IsFailing,
         \A t \in Queued : t.op = "error" => t \in Queued',
         fdr' = fdr \/ ~(fdr.at = "handle" /\ fdr.ev = "error")
  PROVE  IsFailing'
BY DEF IsFailing, Has

(* What tasks and events know stays true of a link that stays. *)
LEMMA StillKnown ==
  ASSUME Known, LinkStays(dev, dev'),
         \A t \in Queued' : t \in Queued \/ Knows(t, dev'),
         fdr' = fdr \/ fdr'.at # "handle"
  PROVE  Known'
<1>1. \A t \in Queued' : Knows(t, dev')
  BY DEF Known, Knows, LinkStays
<1> QED
  BY <1>1 DEF Known, LinkStays

(* A step of the link keeps the invariant when it keeps what is of the link. *)
LEMMA LinkStep ==
  ASSUME Inv, Typed', InPlace', LinkStays(dev, dev'), firing' = firing,
         \A t \in Queued' : t \in Queued \/ Knows(t, dev'),
         \A t \in Queued : t.op \in {"error", "reopen", "timeout"} => t \in Queued',
         fdr' = fdr \/ fdr'.at # "handle", IsFailing => IsFailing',
         IsFailing' \/ ((dev.sock.reg => dev'.sock.reg) /\ ("remove" \in dev'.sock.pend => "remove" \in dev.sock.pend)),
         Sends',
         dev.st = "LinkReady" /\ (Detects("read") \/ Has("recv")) => Detects("read")' \/ Has("recv")' \/ IsFailing',
         dev.st = "Lingering" /\ dev'.sock.status = "Empty" => \E t \in Queued' : t.op = "check",
         InOrder'
  PROVE  Inv'
<1>1. Known'
  BY StillKnown DEF Inv
<1>2. Failing'
  BY DEF Inv, Failing, LinkStays
<1>3. SomeoneWillReceive'
  BY DEF Inv, SomeoneWillReceive, LinkStays
<1>4. SomeoneWillRetry'
  BY DEF Inv, SomeoneWillRetry, LinkStays
<1>5. SomeoneWillClose'
  BY DEF SomeoneWillClose, LinkStays
<1> QED
  BY <1>1, <1>2, <1>3, <1>4, <1>5 DEF Inv

(* The device with another socket of its link is between two tasks as well. *)
LEMMA StaysSettled ==
  ASSUME Typed, NEW s \in Socks, s.id = dev.sock.id, s.conn = dev.sock.conn, dev.sock.id # 0,
         s.status = "Sending" => CanSend(dev.st),
         s.status = "Empty" => s.sending = <<>> /\ s.queue = <<>>,
         ~CanSend(dev.st) => s.acc = 0
  PROVE  LET e == [dev EXCEPT !.sock = s]
         IN e \in Devices /\ Settled(e) /\ LinkStays(dev, e) /\ e.sock = s
<1> DEFINE e == [dev EXCEPT !.sock = s]
<1>1. dev \in Devices /\ Settled(dev)
  BY DEF Typed
<1>2. /\ e \in Devices /\ e.sock = s /\ e.st = dev.st /\ e.dn = dev.dn /\ e.timer = dev.timer /\ e.links = dev.links
  BY <1>1, SockIs
<1> HIDE DEF e
<1>3. Settled(e)
  BY <1>1, <1>2 DEF Settled
<1>4. LinkStays(dev, e)
  BY <1>2 DEF LinkStays
<1>5. e \in Devices /\ Settled(e) /\ LinkStays(dev, e) /\ e.sock = s
  BY <1>2, <1>3, <1>4
<1> QED
  BY <1>5 DEF e

(* The device as it is. *)
LEMMA StaysLinked == LinkStays(dev, dev)
BY DEF LinkStays

(* A task of an old link, or one that comes too late. *)
LEMMA DroppedTask ==
  ASSUME Inv, NEW op \in {"recv", "send", "continue"}, Task(op), UNCHANGED <<dev, tasks>>,
         op \in {"recv", "send"} => ~(dev.st = "LinkReady" /\ Link = dev.sock.id),
         op = "continue" => ~(CanSend(dev.st) /\ Link = dev.sock.id)
  PROVE  Inv'
<1> DEFINE h == Head(batch)
<1>1. /\ Typed /\ InPlace /\ Known /\ dev \in Devices /\ Settled(dev)
      /\ tasks \in Seq(Tasks) /\ batch \in Seq(Tasks) /\ dev.sock \in Socks /\ Link = h.id
  BY DEF Inv, Typed, Devices, Link
<1>2. /\ h \in Tasks /\ h.op = op /\ h \in Queued
      /\ tasks' \in Seq(Tasks) /\ batch' \in Seq(Tasks) /\ Queued = Queued' \cup {h}
      /\ Line \in Seq(Tasks) /\ Line # <<>> /\ Head(Line) = h /\ Line' = Tail(Line)
  BY <1>1, OneTaskLess
<1>3. taking /\ job = NoJob /\ job' = NoJob /\ taking' = taking /\ fdr' = fdr /\ firing' = firing
  BY <1>1, Alone
<1>4. h.id # 0
  BY <1>1, <1>2 DEF Known, Knows, LinkOps
<1> HIDE DEF h
<1>5. Typed' /\ InPlace'
  BY <1>1, <1>2, <1>3 DEF Typed, InPlace
<1>6. IsFailing => IsFailing'
  BY <1>2, <1>3, StillFailing
<1>7. Sends'
  <2>1. CanSend(dev.st) /\ Has("continue") => Has("continue")'
    BY <1>1, <1>2 DEF Has
  <2>2. dev.sock.status = "Sending" => CanSend(dev.st)
    BY <1>1 DEF Settled
  <2> QED
    BY <1>3, <1>6, <2>1, <2>2 DEF Sends, OnItsWay, Inv, Detects
<1>8. dev.st = "LinkReady" /\ (Detects("read") \/ Has("recv")) => Detects("read")' \/ Has("recv")'
  BY <1>1, <1>2 DEF Detects, Has
<1>9. InOrder'
  <2>1. CASE ~(h.op = "send" /\ h.id = dev.sock.id)
    <3>1. InLine(dev.sock, Line) => InLine(dev.sock, Tail(Line))
      BY <1>1, <1>2, <2>1, PopOther
    <3> QED
      BY <1>2, <3>1 DEF Inv, InOrder
  <2>2. CASE h.op = "send" /\ h.id = dev.sock.id
    <3>1. dev.st = "Lingering"
      <4> SUFFICES ASSUME dev.st # "Lingering" PROVE FALSE
        OBVIOUS
      <4>1. dev.sock.acc = 0 /\ InLine(dev.sock, Line)
        BY <1>1, <1>2, <1>4, <2>2 DEF Settled, CanSend, Inv, InOrder
      <4>2. Len(Line) \in Nat \ {0} /\ Line[1] = h
        BY <1>2
      <4>3. 1 \in Live(dev.sock, Line)
        BY <2>2, <4>2 DEF Live
      <4>4. h.arg \in Len(Data(dev.sock)) + 1 .. 0 /\ Len(Data(dev.sock)) \in Nat
        BY <1>1, <4>1, <4>2, <4>3, DataType DEF InLine
      <4> QED
        BY <4>4
    <3> QED
      BY <3>1 DEF Inv, InOrder
  <2> QED
    BY <2>1, <2>2
<1>10. LinkStays(dev, dev')
  BY StaysLinked
<1>11. dev.st = "Lingering" /\ dev'.sock.status = "Empty" => \E t \in Queued' : t.op = "check"
  BY <1>2 DEF Inv, SomeoneWillClose
<1> QED
  BY <1>2, <1>3, <1>5, <1>6, <1>7, <1>8, <1>9, <1>10, <1>11, LinkStep

(* DeviceRecvBufferReady in the op thread. *)
LEMMA RecvStep == Inv /\ OpRecv => Inv'
<1> SUFFICES ASSUME Inv, OpRecv PROVE Inv'
  OBVIOUS
<1> DEFINE h == Head(batch)
<1>1. /\ Task("recv") /\ UNCHANGED tasks /\ Typed /\ InPlace /\ Known /\ dev \in Devices /\ Settled(dev)
      /\ tasks \in Seq(Tasks) /\ batch \in Seq(Tasks) /\ dev.sock \in Socks
  BY DEF OpRecv, Inv, Typed, Devices
<1>2. /\ h \in Tasks /\ h.op = "recv" /\ h \in Queued
      /\ tasks' \in Seq(Tasks) /\ batch' \in Seq(Tasks) /\ Queued = Queued' \cup {h}
      /\ Line \in Seq(Tasks) /\ Line # <<>> /\ Head(Line) = h /\ Line' = Tail(Line)
  BY <1>1, OneTaskLess
<1>3. taking /\ job = NoJob /\ job' = NoJob /\ taking' = taking /\ fdr' = fdr /\ firing' = firing
  BY <1>1, Alone
<1>4. h.id # 0
  BY <1>1, <1>2 DEF Known, Knows, LinkOps
<1> DEFINE s == EnableEventBit(dev.sock, "read")
<1>5. /\ s \in Socks /\ s.id = dev.sock.id /\ s.conn = dev.sock.conn /\ s.status = dev.sock.status
      /\ s.sending = dev.sock.sending /\ s.queue = dev.sock.queue /\ s.acc = dev.sock.acc /\ s.wire = dev.sock.wire
      /\ s.bits = dev.sock.bits \cup {"read"} /\ (dev.sock.reg => s.reg) /\ s.pend \subseteq dev.sock.pend
      /\ "send" \in dev.sock.pend => "send" \in s.pend
  BY <1>1, EnableIs DEF Bits
<1>6. \/ dev.st = "LinkReady" /\ h.id = dev.sock.id /\ dev' = [dev EXCEPT !.sock = s]
      \/ ~(dev.st = "LinkReady" /\ h.id = dev.sock.id) /\ dev' = dev
  BY DEF OpRecv, IsAlive, Link
<1> HIDE DEF h, s
<1>7. CASE dev.st = "LinkReady" /\ h.id = dev.sock.id /\ dev' = [dev EXCEPT !.sock = s]
  <2>1. dev' \in Devices /\ Settled(dev') /\ LinkStays(dev, dev') /\ dev'.sock = s
    BY <1>1, <1>4, <1>5, <1>7, StaysSettled DEF Settled
  <2>2. Typed' /\ InPlace'
    BY <1>1, <1>2, <1>3, <2>1 DEF Typed, InPlace
  <2>3. IsFailing => IsFailing'
    BY <1>2, <1>3, <1>5, <2>1, StillFailing
  <2>4. Detects("read")' \/ IsFailing'
    BY <1>4, <1>5, <1>7, <2>1, <2>3 DEF Detects, Failing, Inv
  <2>5. Sends'
    <3>1. Has("continue") => Has("continue")'
      BY <1>2, <1>5, <2>1 DEF Has
    <3>2. Detects("write") => Detects("write")'
      BY <1>5, <2>1 DEF Detects
    <3> QED
      BY <1>3, <1>5, <2>1, <2>3, <3>1, <3>2 DEF Sends, OnItsWay, Inv
  <2>6. InOrder'
    <3>1. Data(s) = Data(dev.sock)
      BY <1>5 DEF Data
    <3>2. InLine(dev.sock, Line) /\ Counts(Data(dev.sock))
      BY <1>7 DEF Inv, InOrder
    <3>3. InLine(dev.sock, Tail(Line))
      BY <1>1, <1>2, <3>2, PopOther
    <3>4. InLine(s, Tail(Line))
      BY <1>1, <1>5, <3>1, <3>3, SameData
    <3> QED
      BY <1>2, <2>1, <3>1, <3>2, <3>4 DEF InOrder
  <2> QED
    BY <1>2, <1>3, <1>5, <1>7, <2>1, <2>2, <2>3, <2>4, <2>5, <2>6, LinkStep
<1>8. CASE ~(dev.st = "LinkReady" /\ h.id = dev.sock.id) /\ dev' = dev
  BY <1>1, <1>8, DroppedTask DEF Link, h
<1> QED
  BY <1>6, <1>7, <1>8

(* A task that puts another socket in the device, and may leave a task. *)
LEMMA SendTask ==
  ASSUME Inv, NEW op \in {"send", "continue"}, Task(op), CanSend(dev.st),
         NEW r \in Socks, dev' = [dev EXCEPT !.sock = r], r.id = dev.sock.id, r.conn = dev.sock.conn,
         r.status = "Empty" => r.sending = <<>> /\ r.queue = <<>>,
         dev.sock.bits \subseteq r.bits, dev.sock.reg => r.reg,
         UNCHANGED tasks \/ \E t \in Tasks : Push(t) /\ t.op \in {"check", "error"} /\ Knows(t, dev),
         "remove" \in r.pend => "remove" \in dev.sock.pend \/ Has("error")',
         r.status = "Sending" =>
           \/ Has("error")' \/ "write" \in r.bits
           \/ op = "send" /\ dev.sock.status = "Sending" /\ ("send" \in dev.sock.pend => "send" \in r.pend),
         dev.st = "Lingering" /\ r.status = "Empty" => \E t \in Queued' : t.op = "check",
         Counts(Data(r)), dev.st # "Lingering" => InLine(r, Tail(Line))
  PROVE  Inv'
<1> DEFINE h == Head(batch)
<1>1. /\ Typed /\ InPlace /\ Known /\ dev \in Devices /\ Settled(dev)
      /\ tasks \in Seq(Tasks) /\ batch \in Seq(Tasks) /\ dev.sock \in Socks /\ dev.sock.id # 0
  BY DEF Inv, Typed, Devices, Settled
<1>2. dev' \in Devices /\ Settled(dev') /\ LinkStays(dev, dev') /\ dev'.sock = r
  BY <1>1, StaysSettled DEF Settled
<1>3. taking /\ job = NoJob /\ job' = NoJob /\ taking' = taking /\ fdr' = fdr /\ firing' = firing
  BY <1>1, Alone
<1>4. /\ h.op = op /\ tasks' \in Seq(Tasks) /\ batch' \in Seq(Tasks)
      /\ \A t \in Queued : t = h \/ t \in Queued'
      /\ \A t \in Queued' : t \in Queued \/ Knows(t, dev')
      /\ Line \in Seq(Tasks) /\ Line # <<>> /\ Tail(Line) \in Seq(Tasks)
      /\ \/ Line' = Tail(Line)
         \/ \E t \in Tasks : Line' = Append(Tail(Line), t) /\ t.op \in {"check", "error"}
  <2>1. CASE UNCHANGED tasks
    <3>1. /\ h.op = op
          /\ tasks' \in Seq(Tasks) /\ batch' \in Seq(Tasks) /\ Queued = Queued' \cup {h}
          /\ Line \in Seq(Tasks) /\ Line # <<>> /\ Line' = Tail(Line)
      BY <1>1, <2>1, OneTaskLess
    <3>2. Tail(Line) \in Seq(Tasks)
      BY <3>1
    <3> QED
      BY <3>1, <3>2
  <2>2. CASE \E t \in Tasks : Push(t) /\ t.op \in {"check", "error"} /\ Knows(t, dev)
    <3>1. PICK t \in Tasks : Push(t) /\ t.op \in {"check", "error"} /\ Knows(t, dev)
      BY <2>2
    <3>2. /\ h.op = op
          /\ tasks' \in Seq(Tasks) /\ batch' \in Seq(Tasks) /\ Queued \cup {t} = Queued' \cup {h}
          /\ Line \in Seq(Tasks) /\ Line # <<>> /\ Line' = Append(Tail(Line), t)
      BY <1>1, <3>1, OneTaskMore
    <3>3. Tail(Line) \in Seq(Tasks)
      BY <3>2
    <3>4. Knows(t, dev')
      BY <1>2, <3>1 DEF Knows, LinkStays
    <3> QED
      BY <3>1, <3>2, <3>3, <3>4
  <2> QED
    BY <2>1, <2>2
<1> HIDE DEF h
<1>5. Typed' /\ InPlace'
  BY <1>1, <1>2, <1>3, <1>4 DEF Typed, InPlace
<1>6. IsFailing => IsFailing'
  BY <1>2, <1>3, <1>4, StillFailing
<1>7. Has("error")' => IsFailing'
  BY DEF IsFailing
<1>8. Has("recv") => Has("recv")'
  BY <1>2, <1>4 DEF Has
<1>9. Has("continue") /\ op = "send" => Has("continue")'
  BY <1>2, <1>4 DEF Has
<1>10. dev.sock.reg \/ IsFailing'
  BY <1>1, <1>6 DEF Inv, Failing
<1>11. Sends'
  <2>1. "write" \in r.bits => Detects("write")' \/ IsFailing'
    BY <1>2, <1>10 DEF Detects
  <2>2. Detects("write") => Detects("write")'
    BY <1>2 DEF Detects
  <2> QED
    BY <1>2, <1>3, <1>6, <1>7, <1>9, <2>1, <2>2 DEF Sends, OnItsWay, Inv
<1>12. Detects("read") => Detects("read")'
  BY <1>2 DEF Detects
<1>13. InOrder'
  <2>1. dev'.st # "Lingering" => InLine(r, Line')
    <3> SUFFICES ASSUME dev'.st # "Lingering" PROVE InLine(r, Line')
      OBVIOUS
    <3>1. InLine(r, Tail(Line))
      BY <1>2 DEF LinkStays
    <3> QED
      BY <1>4, <3>1, PushOther
  <2> QED
    BY <1>2, <2>1 DEF InOrder
<1> QED
  BY <1>2, <1>3, <1>4, <1>5, <1>6, <1>7, <1>8, <1>11, <1>12, <1>13, LinkStep

(* SendASAP and DeviceContinueSend in the op thread. *)
LEMMA SendvIs ==
  ASSUME Inv, NEW op \in {"send", "continue"}, Task(op), CanSend(dev.st),
         NEW s \in Socks, s.id = dev.sock.id, s.conn = dev.sock.conn, s.status = "Sending", s.queue = <<>>,
         s.bits = dev.sock.bits, s.reg = dev.sock.reg, s.pend = dev.sock.pend,
         Counts(Data(s)), dev.st # "Lingering" => InLine(s, Tail(Line)),
         OpSendv(s)
  PROVE  Inv'
<1>1. /\ Typed /\ dev \in Devices /\ Settled(dev) /\ dev.links \in Nat /\ dev.sock.id <= dev.links
      /\ tasks \in Seq(Tasks) /\ batch \in Seq(Tasks) /\ dev.sock \in Socks /\ dev.sock.id \in Nat \ {0}
  BY DEF Inv, Typed, Devices, Settled, Socks
<1>2. ASSUME NEW r \in Socks, r.id = s.id, r.acc = s.acc, Data(r) = Data(s)
      PROVE  Counts(Data(r)) /\ (dev.st # "Lingering" => InLine(r, Tail(Line)))
  BY <1>2, SameData
<1>3. /\ T("check", 0, None) \in Tasks /\ T("check", 0, None).op = "check" /\ Knows(T("check", 0, None), dev)
      /\ T("error", s.id, None) \in Tasks /\ T("error", s.id, None).op = "error"
      /\ T("error", s.id, None).id = s.id /\ Knows(T("error", s.id, None), dev)
  BY <1>1 DEF T, Tasks, Ops, Knows, LinkOps
<1>4. CASE /\ dev' = [dev EXCEPT !.sock = [s EXCEPT !.wire = @ \o s.sending, !.sending = <<>>, !.status = "Empty"]]
           /\ IF dev.st = "Lingering" THEN Push(T("check", 0, None)) ELSE UNCHANGED tasks
  <2> DEFINE w == s.wire \o s.sending
             r == [s EXCEPT !.wire = w, !.sending = <<>>, !.status = "Empty"]
  <2>1. s.wire \in Seq(Nat) /\ s.sending \in Seq(Nat) /\ w \in Seq(Nat) /\ <<>> \in Seq(Nat)
    BY ConcatProperties DEF Socks
  <2>2. dev' = [dev EXCEPT !.sock = r]
    BY <1>4 DEF Socks
  <2>3. (w \o <<>>) \o <<>> = w \o <<>>
    BY <2>1, ConcatEmptySeq
  <2>4. Data(s) = w \o <<>>
    BY DEF Data
  <2> HIDE DEF w
  <2>5. /\ r \in Socks /\ r.id = s.id /\ r.conn = s.conn /\ r.status = "Empty" /\ r.sending = <<>>
        /\ r.queue = <<>> /\ r.bits = s.bits /\ r.reg = s.reg /\ r.pend = s.pend /\ r.acc = s.acc
        /\ r.wire = w
    BY <2>1 DEF Socks
  <2> HIDE DEF r
  <2>6. Data(r) = Data(s)
    BY <2>3, <2>4, <2>5 DEF Data
  <2>7. dev.st = "Lingering" => \E t \in Queued' : t.op = "check"
    <3> SUFFICES ASSUME dev.st = "Lingering" PROVE \E t \in Queued' : t.op = "check"
      OBVIOUS
    <3>1. Push(T("check", 0, None))
      BY <1>4
    <3>2. T("check", 0, None) \in Queued'
      BY <1>1, <1>3, <3>1, OneTaskMore
    <3> QED
      BY <1>3, <3>2
  <2>8. Counts(Data(r)) /\ (dev.st # "Lingering" => InLine(r, Tail(Line)))
    BY <1>2, <2>5, <2>6
  <2>9. UNCHANGED tasks \/ \E t \in Tasks : Push(t) /\ t.op \in {"check", "error"} /\ Knows(t, dev)
    BY <1>3, <1>4
  <2> QED
    BY <2>2, <2>5, <2>7, <2>8, <2>9, SendTask
<1>5. CASE (\E k \in 0 .. (Len(s.sending) - 1) : dev' = [dev EXCEPT !.sock = Write(s, k)]) /\ UNCHANGED tasks
  <2>1. PICK k \in 0 .. (Len(s.sending) - 1) : dev' = [dev EXCEPT !.sock = Write(s, k)]
    BY <1>5
  <2> DEFINE r == Write(s, k)
  <2>2. k \in 0 .. Len(s.sending) /\ k < Len(s.sending)
    BY DEF Socks
  <2>3. /\ r \in Socks /\ r.id = s.id /\ r.conn = s.conn /\ r.status = s.status /\ r.acc = s.acc
        /\ r.queue = s.queue /\ Data(r) = Data(s)
        /\ s.bits \subseteq r.bits /\ (s.reg => r.reg) /\ r.pend \subseteq s.pend
        /\ "send" \in s.pend => "send" \in r.pend
        /\ "write" \in r.bits
    BY <2>2, WriteIs
  <2>4. dev' = [dev EXCEPT !.sock = r]
    BY <2>1
  <2> HIDE DEF r
  <2>5. Counts(Data(r)) /\ (dev.st # "Lingering" => InLine(r, Tail(Line)))
    BY <1>2, <2>3
  <2>6. /\ r.id = dev.sock.id /\ r.conn = dev.sock.conn
        /\ dev.sock.bits \subseteq r.bits /\ (dev.sock.reg => r.reg)
        /\ r.status = "Empty" => r.sending = <<>> /\ r.queue = <<>>
        /\ dev.st = "Lingering" /\ r.status = "Empty" => \E t \in Queued' : t.op = "check"
        /\ Has("error")' \/ "write" \in r.bits
        /\ "remove" \in r.pend => "remove" \in dev.sock.pend \/ Has("error")'
        /\ UNCHANGED tasks \/ \E t \in Tasks : Push(t) /\ t.op \in {"check", "error"} /\ Knows(t, dev)
    BY <1>5, <2>3
  <2>7. r \in Socks
    BY <2>3
  <2> QED
    BY <2>4, <2>5, <2>6, <2>7, SendTask
<1>6. CASE /\ dev' = [dev EXCEPT !.sock = [s EXCEPT !.pend = @ \cup {"remove"}]]
           /\ Push(T("error", s.id, None))
  <2> DEFINE p == s.pend \cup {"remove"}
             r == [s EXCEPT !.pend = p]
  <2>1. p \in SUBSET {"send", "remove"}
    BY DEF Socks
  <2>2. dev' = [dev EXCEPT !.sock = r]
    BY <1>6 DEF Socks
  <2> HIDE DEF p
  <2>3. /\ r \in Socks /\ r.id = s.id /\ r.conn = s.conn /\ r.status = s.status
        /\ r.sending = s.sending /\ r.queue = s.queue /\ r.acc = s.acc /\ r.wire = s.wire
        /\ r.bits = s.bits /\ r.reg = s.reg /\ Data(r) = Data(s)
    BY ZenonT(40), <2>1, PendIs
  <2> HIDE DEF r
  <2>4. Has("error")'
    <3>1. T("error", s.id, None) \in Queued'
      BY <1>1, <1>3, <1>6, OneTaskMore
    <3>2. dev'.sock.id = s.id
      BY <1>1, <2>2, <2>3, SockIs
    <3> QED
      BY <1>3, <3>1, <3>2 DEF Has
  <2>5. Counts(Data(r)) /\ (dev.st # "Lingering" => InLine(r, Tail(Line)))
    BY <1>2, <2>3
  <2>6. \E t \in Tasks : Push(t) /\ t.op \in {"check", "error"} /\ Knows(t, dev)
    BY <1>3, <1>6
  <2>7. /\ r.id = dev.sock.id /\ r.conn = dev.sock.conn
        /\ dev.sock.bits \subseteq r.bits /\ (dev.sock.reg => r.reg)
        /\ r.status = "Empty" => r.sending = <<>> /\ r.queue = <<>>
        /\ dev.st = "Lingering" /\ r.status = "Empty" => \E t \in Queued' : t.op = "check"
        /\ Has("error")' \/ "write" \in r.bits
        /\ "remove" \in r.pend => "remove" \in dev.sock.pend \/ Has("error")'
        /\ UNCHANGED tasks \/ \E t \in Tasks : Push(t) /\ t.op \in {"check", "error"} /\ Knows(t, dev)
    BY <2>3, <2>4, <2>6
  <2>8. r \in Socks
    BY <2>3
  <2> QED
    BY <2>2, <2>5, <2>7, <2>8, SendTask
<1> QED
  BY <1>4, <1>5, <1>6 DEF OpSendv

(* A message at the end of the buffer. *)
LEMMA AppendAssoc ==
  ASSUME NEW a \in Seq(Nat), NEW b \in Seq(Nat), NEW x \in Nat
  PROVE  Append(a \o b, x) = a \o Append(b, x) /\ a \o <<x>> = Append(a, x)
<1>1. /\ Append(a \o b, x) \in Seq(Nat) /\ a \o Append(b, x) \in Seq(Nat)
      /\ Len(Append(a \o b, x)) = Len(a \o Append(b, x))
  OBVIOUS
<1>2. \A i \in 1 .. Len(Append(a \o b, x)) : Append(a \o b, x)[i] = (a \o Append(b, x))[i]
  OBVIOUS
<1>3. Append(a \o b, x) = a \o Append(b, x)
  BY <1>1, <1>2, SeqEqual
<1>4. a \o <<x>> = Append(a, x)
  OBVIOUS
<1> QED
  BY <1>3, <1>4

(* The task of AsyncSend. *)
LEMMA SendStep == Inv /\ OpSend => Inv'
<1> SUFFICES ASSUME Inv, OpSend PROVE Inv'
  OBVIOUS
<1> DEFINE h == Head(batch)
<1>1. /\ Task("send") /\ Typed /\ Known /\ dev \in Devices /\ Settled(dev)
      /\ tasks \in Seq(Tasks) /\ batch \in Seq(Tasks) /\ dev.sock \in Socks /\ Link = h.id /\ Arg = h.arg
  BY DEF Inv, Typed, Devices, Link, Arg, OpSend
<1>2. /\ h \in Tasks /\ h.op = "send" /\ h \in Queued
      /\ Line \in Seq(Tasks) /\ Line # <<>> /\ Head(Line) = h
  BY <1>1, TaskIs
<1>3. h.arg \in Nat
  BY <1>1, <1>2 DEF Known, Knows
<1> HIDE DEF h
<1>4. /\ dev.sock.sending \in Seq(Nat) /\ dev.sock.queue \in Seq(Nat) /\ dev.sock.wire \in Seq(Nat)
      /\ Data(dev.sock) \in Seq(Nat)
  BY <1>1, DataType DEF Socks
<1>5. ASSUME dev.st = "LinkReady", IsAlive, NEW s \in Socks, s.id = dev.sock.id, s.acc = dev.sock.acc,
             Data(s) = Append(Data(dev.sock), h.arg)
      PROVE  Counts(Data(s)) /\ InLine(s, Tail(Line))
  <2>1. InLine(dev.sock, Line) /\ Counts(Data(dev.sock))
    BY <1>5 DEF Inv, InOrder
  <2>2. h.arg = Len(Data(dev.sock)) + 1 /\ InLine(s, Tail(Line))
    BY <1>1, <1>2, <1>5, <2>1, PopSend DEF IsAlive
  <2> QED
    BY <1>4, <1>5, <2>1, <2>2, OneMore
<1>6. CASE IsAlive /\ dev.st = "LinkReady" /\ dev.sock.status = "Empty"
  <2> DEFINE s == [dev.sock EXCEPT !.status = "Sending", !.sending = <<h.arg>>]
  <2>1. OpSendv(s)
    BY <1>1, <1>6 DEF OpSend
  <2>2. <<h.arg>> \in Seq(Nat) /\ <<>> \in Seq(Nat)
    BY <1>3
  <2>3. /\ s \in Socks /\ s.id = dev.sock.id /\ s.conn = dev.sock.conn /\ s.status = "Sending"
        /\ s.sending = <<h.arg>> /\ s.queue = dev.sock.queue /\ s.acc = dev.sock.acc /\ s.wire = dev.sock.wire
        /\ s.bits = dev.sock.bits /\ s.reg = dev.sock.reg /\ s.pend = dev.sock.pend
    BY <1>1, <2>2 DEF Socks
  <2> HIDE DEF s
  <2>4. dev.sock.sending = <<>> /\ dev.sock.queue = <<>>
    BY <1>1, <1>6 DEF Settled
  <2>5. Data(dev.sock) = dev.sock.wire
    <3>1. dev.sock.wire \o <<>> = dev.sock.wire
      BY <1>4, ConcatEmptySeq
    <3> QED
      BY <2>4, <3>1 DEF Data
  <2>6. Data(s) = Append(Data(dev.sock), h.arg)
    <3>1. dev.sock.wire \o <<h.arg>> = Append(dev.sock.wire, h.arg) /\ Append(dev.sock.wire, h.arg) \in Seq(Nat)
      BY <1>3, <1>4, AppendAssoc
    <3>2. Append(dev.sock.wire, h.arg) \o <<>> = Append(dev.sock.wire, h.arg)
      BY <3>1, ConcatEmptySeq
    <3> QED
      BY <2>3, <2>4, <2>5, <3>1, <3>2 DEF Data
  <2>7. Counts(Data(s)) /\ InLine(s, Tail(Line))
    BY <1>5, <1>6, <2>3, <2>6
  <2> QED
    BY <1>1, <1>6, <2>1, <2>3, <2>4, <2>7, SendvIs DEF CanSend
<1>7. CASE IsAlive /\ dev.st = "LinkReady" /\ dev.sock.status = "Sending"
  <2> DEFINE q == Append(dev.sock.queue, h.arg)
             s == [dev.sock EXCEPT !.queue = q]
  <2>1. dev' = [dev EXCEPT !.sock = s] /\ UNCHANGED tasks
    BY <1>1, <1>7 DEF OpSend, Devices, Socks
  <2>2. q \in Seq(Nat)
    BY <1>3, <1>4
  <2> HIDE DEF q
  <2>3. /\ s \in Socks /\ s.id = dev.sock.id /\ s.conn = dev.sock.conn /\ s.status = "Sending"
        /\ s.sending = dev.sock.sending /\ s.queue = q /\ s.acc = dev.sock.acc /\ s.wire = dev.sock.wire
        /\ s.bits = dev.sock.bits /\ s.reg = dev.sock.reg /\ s.pend = dev.sock.pend
    BY <1>1, <1>7, <2>2 DEF Socks
  <2> HIDE DEF s
  <2>4. Data(s) = Append(Data(dev.sock), h.arg)
    <3>1. dev.sock.wire \o dev.sock.sending \in Seq(Nat)
      BY <1>4, ConcatProperties
    <3> DEFINE a == dev.sock.wire \o dev.sock.sending
    <3>2. Append(a \o dev.sock.queue, h.arg) = a \o Append(dev.sock.queue, h.arg)
      BY <1>3, <1>4, <3>1, AppendAssoc
    <3> QED
      BY <2>3, <3>2 DEF Data, q
  <2>5. Counts(Data(s)) /\ InLine(s, Tail(Line))
    BY <1>5, <1>7, <2>3, <2>4
  <2>6. dev.st # "Lingering" /\ CanSend(dev.st)
    BY <1>7 DEF CanSend
  <2> QED
    BY <1>1, <1>7, <2>1, <2>3, <2>5, <2>6, SendTask
<1>8. CASE ~(IsAlive /\ dev.st = "LinkReady")
  <2>1. UNCHANGED <<dev, tasks>>
    BY <1>8 DEF OpSend
  <2> QED
    BY <1>1, <1>8, <2>1, DroppedTask DEF IsAlive
<1> QED
  BY <1>1, <1>6, <1>7, <1>8 DEF Socks

(* The task of DeviceContinueSend. *)
LEMMA ContinueSendStep == Inv /\ OpContinueSend => Inv'
<1> SUFFICES ASSUME Inv, OpContinueSend PROVE Inv'
  OBVIOUS
<1> DEFINE h == Head(batch)
           s == CheckSendQueue(dev.sock)
<1>1. /\ Task("continue") /\ Typed /\ Known /\ dev \in Devices /\ Settled(dev)
      /\ tasks \in Seq(Tasks) /\ batch \in Seq(Tasks) /\ dev.sock \in Socks /\ Link = h.id
  BY DEF Inv, Typed, Devices, Link, OpContinueSend
<1>2. /\ h \in Tasks /\ h.op = "continue" /\ h \in Queued
      /\ Line \in Seq(Tasks) /\ Line # <<>> /\ Head(Line) = h
  BY <1>1, TaskIs
<1>3. /\ s \in Socks /\ s.id = dev.sock.id /\ s.conn = dev.sock.conn /\ s.acc = dev.sock.acc
      /\ s.bits = dev.sock.bits /\ s.reg = dev.sock.reg /\ s.pend = dev.sock.pend
      /\ s.sending = dev.sock.sending \o dev.sock.queue /\ s.queue = <<>> /\ s.wire = dev.sock.wire
      /\ Data(s) = Data(dev.sock)
      /\ s.status = "Empty" <=> s.sending = <<>>
  BY <1>1, CheckIs
<1>4. /\ CASE CanSend(dev.st) /\ IsAlive /\ s.status = "Sending" -> OpSendv(s)
           [] CanSend(dev.st) /\ IsAlive /\ s.status = "Empty" ->
                dev' = OpThr_CheckLingerClose([dev EXCEPT !.sock = s]) /\ UNCHANGED tasks
           [] OTHER -> UNCHANGED <<dev, tasks>>
  BY DEF OpContinueSend
<1> HIDE DEF h, s
<1>5. Counts(Data(s)) /\ (dev.st # "Lingering" => InLine(s, Tail(Line)))
  <2>1. InLine(dev.sock, Line) => InLine(dev.sock, Tail(Line))
    BY <1>1, <1>2, PopOther
  <2>2. InLine(dev.sock, Tail(Line)) => InLine(s, Tail(Line))
    BY <1>1, <1>3, SameData
  <2> QED
    BY <1>3, <2>1, <2>2 DEF Inv, InOrder
<1>6. CASE CanSend(dev.st) /\ IsAlive /\ s.status = "Sending"
  <2>1. OpSendv(s)
    BY <1>4, <1>6
  <2> QED
    BY <1>1, <1>3, <1>5, <1>6, <2>1, SendvIs
<1>7. CASE CanSend(dev.st) /\ IsAlive /\ s.status = "Empty"
  <2> DEFINE e == [dev EXCEPT !.sock = s]
  <2>1. dev' = OpThr_CheckLingerClose(e) /\ UNCHANGED tasks
    BY <1>4, <1>7
  <2>2. e \in Devices /\ Settled(e) /\ LinkStays(dev, e) /\ e.sock = s
    BY <1>1, <1>3, <1>7, StaysSettled DEF Settled
  <2>3. CASE dev.st = "LinkReady"
    <3>1. dev' = [dev EXCEPT !.sock = s]
      BY <2>1, <2>2, <2>3 DEF OpThr_CheckLingerClose, LinkStays
    <3> QED
      BY <1>1, <1>3, <1>5, <1>7, <2>1, <2>3, <3>1, SendTask
  <2>4. CASE dev.st = "Lingering"
    <3> HIDE DEF e
    <3>1. dev' = OpThr_Close(e)
      BY <1>7, <2>1, <2>2, <2>4 DEF OpThr_CheckLingerClose, LinkStays
    <3>2. Moves(e, dev') /\ dev'.st \in {"Closed", "Disposing"} /\ dev'.sock = NoSock /\ dev'.dn = 0
      BY <2>2, <3>1, ClosedIs
    <3>3. Moves(dev, dev') /\ dev.sock.id # 0
      BY <1>1, <2>2, <2>4, <3>2, ClientAssumption DEF Moves, LinkStays, Settled, CanSend
    <3>4. dev'.sock # dev.sock /\ "continue" \in Ops \ {"send"}
      BY <3>2, <3>3, NoSockType DEF Ops
    <3> QED
      BY <1>1, <2>1, <3>2, <3>3, <3>4, DeviceTask
  <2> QED
    BY <1>7, <2>3, <2>4 DEF CanSend
<1>8. CASE ~(CanSend(dev.st) /\ IsAlive)
  <2>1. UNCHANGED <<dev, tasks>>
    BY <1>4, <1>8
  <2> QED
    BY <1>1, <1>8, <2>1, DroppedTask DEF IsAlive
<1> QED
  BY <1>1, <1>3, <1>6, <1>7, <1>8 DEF Socks

(* OnSocketConnected: the link is ready, or it is broken at once. *)
LEMMA ConnectedStep == Inv /\ OpConnected => Inv'
<1> SUFFICES ASSUME Inv, OpConnected PROVE Inv'
  OBVIOUS
<1> DEFINE h == Head(batch)
<1>1. /\ Task("connected") /\ UNCHANGED tasks /\ Typed /\ InPlace /\ Known /\ dev \in Devices /\ Settled(dev)
      /\ tasks \in Seq(Tasks) /\ batch \in Seq(Tasks) /\ dev.sock \in Socks /\ Link = h.id
  BY DEF Inv, Typed, Devices, Link, OpConnected
<1>2. /\ h \in Tasks /\ h.op = "connected" /\ h \in Queued
      /\ tasks' \in Seq(Tasks) /\ batch' \in Seq(Tasks) /\ Queued = Queued' \cup {h}
      /\ Line \in Seq(Tasks) /\ Line # <<>> /\ Head(Line) = h /\ Line' = Tail(Line)
  BY <1>1, OneTaskLess
<1>3. taking /\ job = NoJob /\ job' = NoJob /\ taking' = taking /\ fdr' = fdr /\ firing' = firing
  BY <1>1, Alone
<1>4. h.id # 0 /\ (h.id = dev.sock.id => dev.sock.conn = "connected")
  BY <1>1, <1>2 DEF Known, Knows, LinkOps
<1>5. "connected" \in Ops \ {"recv", "send", "continue", "check"}
  BY DEF Ops
<1> HIDE DEF h
<1>6. CASE ~(dev.st = "Linking" /\ IsAlive)
  BY <1>1, <1>5, <1>6, IdleTask DEF OpConnected
<1>7. CASE dev.st = "Linking" /\ IsAlive
  <2>1. dev.sock.id # 0 /\ dev.dn = 0 /\ dev.sock.conn = "connected" /\ dev.sock.status = "Empty"
    BY <1>1, <1>4, <1>7 DEF Settled, CanSend, IsAlive, Socks
  <2>2. CASE dev' = OpThr_SetBrokenState(dev)
    BY <1>1, <1>5, <1>7, <2>1, <2>2, BrokenIs, FreshTask
  <2>3. CASE LET d == SetState(dev, "LinkReady")
             IN dev' = [d EXCEPT !.sock = EnableEventBit(d.sock, "read")]
    <3> DEFINE d == SetState(dev, "LinkReady")
               s == EnableEventBit(dev.sock, "read")
    <3>1. d \in Devices /\ d.st = "LinkReady" /\ d.links = dev.links /\ d.sock = dev.sock /\ d.dn = dev.dn
      BY <1>1, <1>7, NewState DEF States
    <3>2. dev' = [d EXCEPT !.sock = s]
      BY <2>3, <3>1
    <3>3. /\ s \in Socks /\ s.id = dev.sock.id /\ s.conn = dev.sock.conn /\ s.status = dev.sock.status
          /\ s.sending = dev.sock.sending /\ s.queue = dev.sock.queue /\ s.acc = dev.sock.acc /\ s.wire = dev.sock.wire
          /\ s.bits = dev.sock.bits \cup {"read"} /\ (dev.sock.reg => s.reg) /\ s.pend \subseteq dev.sock.pend
      BY <1>1, EnableIs DEF Bits
    <3> HIDE DEF d, s
    <3>4. /\ dev' \in Devices /\ dev'.sock = s /\ dev'.st = "LinkReady" /\ dev'.links = dev.links
          /\ dev'.dn = 0
      BY <2>1, <3>1, <3>2, <3>3, SockIs
    <3>5. Settled(dev')
      BY <1>1, <2>1, <3>3, <3>4 DEF Settled, CanSend
    <3>6. Typed' /\ InPlace'
      BY <1>1, <1>2, <1>3, <3>4, <3>5 DEF Typed, InPlace
    <3>7. IsFailing => IsFailing'
      BY <1>2, <1>3, <3>3, <3>4, StillFailing
    <3>8. Known'
      <4>1. \A t \in Queued' : Knows(t, dev')
        BY <1>1, <1>2, <3>3, <3>4 DEF Known, Knows
      <4> QED
        BY <1>1, <1>3, <3>3, <3>4, <4>1 DEF Known
    <3>9. Failing'
      BY <2>1, <3>3, <3>4, <3>7 DEF Inv, Failing
    <3>10. SomeoneWillReceive'
      BY <2>1, <3>3, <3>4, <3>7 DEF Inv, Failing, SomeoneWillReceive, Detects
    <3>11. Sends' /\ SomeoneWillRetry' /\ SomeoneWillClose'
      BY <2>1, <3>3, <3>4, ClientAssumption DEF Sends, SomeoneWillRetry, SomeoneWillClose
    <3>12. InOrder'
      <4>1. Data(s) = Data(dev.sock)
        BY <3>3 DEF Data
      <4>2. InLine(dev.sock, Line) /\ Counts(Data(dev.sock))
        BY <1>7 DEF Inv, InOrder
      <4>3. InLine(dev.sock, Tail(Line))
        BY <1>1, <1>2, <4>2, PopOther
      <4>4. InLine(s, Tail(Line))
        BY <1>1, <3>3, <4>1, <4>3, SameData
      <4> QED
        BY <1>2, <3>4, <4>1, <4>2, <4>4 DEF InOrder
    <3> QED
      BY <3>6, <3>8, <3>9, <3>10, <3>11, <3>12 DEF Inv
  <2> QED
    BY <1>7, <2>2, <2>3 DEF OpConnected
<1> QED
  BY <1>6, <1>7

(* The op thread takes the tasks, or has run them. *)
LEMMA TakeStep == Inv /\ (OpTake \/ OpEnd) => Inv'
<1> SUFFICES ASSUME Inv, OpTake \/ OpEnd PROVE Inv'
  OBVIOUS
<1>1. /\ Typed /\ InPlace /\ tasks \in Seq(Tasks) /\ batch \in Seq(Tasks)
      /\ dev' = dev /\ fdr' = fdr /\ firing' = firing /\ job' = job
  BY DEF Inv, Typed, OpTake, OpEnd
<1>2. /\ Queued' = Queued /\ Line' = Line /\ tasks' \in Seq(Tasks) /\ batch' \in Seq(Tasks)
      /\ taking' \in BOOLEAN /\ (~taking' => batch' = <<>>) /\ (job # NoJob => ~taking')
  <2>1. CASE OpTake
    <3>1. batch = <<>> /\ batch' = tasks /\ tasks' = <<>> /\ taking' = TRUE /\ job = NoJob
      BY <1>1, <2>1 DEF OpTake, InPlace
    <3> QED
      BY <1>1, <3>1, TakenIs
  <2>2. CASE OpEnd
    BY <1>1, <2>2 DEF OpEnd, Queued, Line, InPlace
  <2> QED
    BY <2>1, <2>2
<1>3. Typed' /\ InPlace'
  BY <1>1, <1>2 DEF Typed, InPlace
<1>4. \A op : Has(op)' <=> Has(op)
  BY <1>1, <1>2 DEF Has
<1>5. (IsFailing' <=> IsFailing) /\ \A b : Detects(b)' <=> Detects(b)
  BY <1>1, <1>4 DEF IsFailing, Detects
<1>6. Known'
  BY <1>1, <1>2 DEF Inv, Known
<1>7. Failing' /\ Sends' /\ SomeoneWillReceive'
  BY <1>1, <1>4, <1>5 DEF Inv, Failing, Sends, OnItsWay, SomeoneWillReceive
<1>8. SomeoneWillRetry' /\ SomeoneWillClose'
  BY <1>1, <1>2 DEF Inv, SomeoneWillRetry, SomeoneWillClose
<1>9. InOrder'
  BY <1>1, <1>2 DEF Inv, InOrder
<1> QED
  BY <1>3, <1>6, <1>7, <1>8, <1>9 DEF Inv

-----------------------------------------------------------------------------
(* The other threads *)

(* They leave a task, or none. *)
LEMMA Grows ==
  ASSUME Typed, batch' = batch,
         UNCHANGED tasks \/ \E t \in Tasks : Push(t) /\ t.op # "send" /\ Knows(t, dev')
  PROVE  /\ tasks' \in Seq(Tasks) /\ batch' \in Seq(Tasks)
         /\ \A t \in Queued : t \in Queued'
         /\ \A t \in Queued' : t \in Queued \/ (t.op # "send" /\ Knows(t, dev'))
         /\ \A s \in Socks : InLine(s, Line) => InLine(s, Line')
<1>1. tasks \in Seq(Tasks) /\ batch \in Seq(Tasks)
  BY DEF Typed
<1>2. CASE UNCHANGED tasks
  BY <1>1, <1>2 DEF Queued, Line
<1>3. CASE \E t \in Tasks : Push(t) /\ t.op # "send" /\ Knows(t, dev')
  <2>1. PICK t \in Tasks : Push(t) /\ t.op # "send" /\ Knows(t, dev')
    BY <1>3
  <2>2. /\ tasks' \in Seq(Tasks) /\ batch' \in Seq(Tasks) /\ Queued' = Queued \cup {t}
        /\ Line \in Seq(Tasks) /\ Line' = Append(Line, t)
    BY <1>1, <2>1, PushIs
  <2>3. \A s \in Socks : InLine(s, Line) => InLine(s, Append(Line, t))
    BY <2>1, <2>2, PushOther
  <2> QED
    BY <2>1, <2>2, <2>3
<1> QED
  BY <1>2, <1>3

(* A step of theirs that keeps the data of the link. *)
LEMMA OutsideStep ==
  ASSUME Inv, batch' = batch, taking' = taking, firing' = firing,
         dev' \in Devices, Settled(dev'), LinkStays(dev, dev'),
         dev'.sock.acc = dev.sock.acc, Data(dev'.sock) = Data(dev.sock),
         UNCHANGED tasks \/ \E t \in Tasks : Push(t) /\ t.op # "send" /\ Knows(t, dev'),
         job' \in [by : Threads \cup {None}, at : Places], job'.at = "no" <=> job' = NoJob,
         job' # NoJob => ~taking /\ dev'.sock.status = "Sending" /\ (job = NoJob => tasks' = <<>>),
         fdr' \in {fdr, FdrIdle, [FdrIdle EXCEPT !.at = "recv"]}, IsFailing => IsFailing',
         IsFailing' \/ ((dev.sock.reg => dev'.sock.reg) /\ ("remove" \in dev'.sock.pend => "remove" \in dev.sock.pend)),
         Sends',
         dev.st = "LinkReady" /\ Detects("read") => Detects("read")' \/ Has("recv")' \/ IsFailing',
         dev.st = "Lingering" /\ dev'.sock.status = "Empty" /\ dev.sock.status # "Empty"
           => \E t \in Queued' : t.op = "check"
  PROVE  Inv'
<1>1. Typed /\ InPlace /\ dev.sock \in Socks /\ dev'.sock \in Socks
  BY DEF Inv, Typed, Devices
<1>2. /\ tasks' \in Seq(Tasks) /\ batch' \in Seq(Tasks)
      /\ \A t \in Queued : t \in Queued'
      /\ \A t \in Queued' : t \in Queued \/ (t.op # "send" /\ Knows(t, dev'))
      /\ \A s \in Socks : InLine(s, Line) => InLine(s, Line')
  BY <1>1, Grows
<1>3. fdr' = fdr \/ fdr'.at # "handle"
  BY DEF FdrIdle
<1>4. Typed'
  <2>1. fdr' \in [at : {"idle", "handle", "recv"}, id : Nat, ev : {None, "send", "write", "read", "error"},
                  conn : {None, "connecting", "connected"}]
    BY <1>1 DEF Typed, FdrIdle
  <2> QED
    BY <1>1, <1>2, <2>1 DEF Typed
<1>5. InPlace'
  <2>1. ~taking' => batch' = <<>>
    BY <1>1 DEF InPlace
  <2>2. job' # NoJob => ~taking' /\ CanSend(dev'.st) /\ dev'.sock.status = "Sending"
    BY DEF Settled
  <2>3. job' # NoJob => \A t \in Queued' : t.op # "send"
    <3>1. CASE job = NoJob /\ job' # NoJob
      <4>1. batch' = <<>> /\ tasks' = <<>>
        BY <1>1, <3>1 DEF InPlace
      <4> QED
        BY <4>1, <1>2, Elements DEF Queued
    <3>2. CASE job # NoJob
      BY <1>1, <1>2, <3>2 DEF InPlace
    <3> QED
      BY <3>1, <3>2
  <2> QED
    BY <2>1, <2>2, <2>3 DEF InPlace
<1>6. Has("recv") => Has("recv")'
  BY <1>2 DEF Has, LinkStays
<1>7. dev.st = "Lingering" /\ dev'.sock.status = "Empty" => \E t \in Queued' : t.op = "check"
  BY <1>2 DEF Inv, SomeoneWillClose
<1>8. InOrder'
  <2>1. dev'.st # "Lingering" => InLine(dev.sock, Line')
    BY <1>1, <1>2 DEF Inv, InOrder, LinkStays
  <2>2. InLine(dev.sock, Line') => InLine(dev'.sock, Line')
    BY <1>1, SameData DEF LinkStays
  <2> QED
    BY <2>1, <2>2 DEF Inv, InOrder
<1> QED
  BY <1>2, <1>3, <1>4, <1>5, <1>6, <1>7, <1>8, LinkStep

(* What is pending for the fdr thread is changed. *)
LEMMA PendStays ==
  ASSUME Typed, dev.sock.id # 0, NEW p \in SUBSET {"send", "remove"}
  PROVE  LET e == [dev EXCEPT !.sock.pend = p]
         IN /\ e \in Devices /\ Settled(e) /\ LinkStays(dev, e)
            /\ e.sock.acc = dev.sock.acc /\ Data(e.sock) = Data(dev.sock) /\ e.sock.status = dev.sock.status
            /\ e.sock.bits = dev.sock.bits /\ e.sock.reg = dev.sock.reg /\ e.sock.pend = p
<1> DEFINE r == [dev.sock EXCEPT !.pend = p]
<1>1. dev \in Devices /\ Settled(dev) /\ dev.sock \in Socks
  BY DEF Typed, Devices
<1>2. [dev EXCEPT !.sock.pend = p] = [dev EXCEPT !.sock = r]
  BY <1>1 DEF Devices
<1>3. /\ r \in Socks /\ r.id = dev.sock.id /\ r.conn = dev.sock.conn /\ r.status = dev.sock.status
      /\ r.sending = dev.sock.sending /\ r.queue = dev.sock.queue /\ r.acc = dev.sock.acc
      /\ r.bits = dev.sock.bits /\ r.reg = dev.sock.reg /\ r.pend = p /\ Data(r) = Data(dev.sock)
  BY <1>1, PendIs
<1> HIDE DEF r
<1> DEFINE e == [dev EXCEPT !.sock = r]
<1>4. e \in Devices /\ Settled(e) /\ LinkStays(dev, e) /\ e.sock = r
  BY <1>1, <1>3, StaysSettled DEF Settled
<1> HIDE DEF e
<1>5. /\ e \in Devices /\ Settled(e) /\ LinkStays(dev, e)
      /\ e.sock.acc = dev.sock.acc /\ Data(e.sock) = Data(dev.sock) /\ e.sock.status = dev.sock.status
      /\ e.sock.bits = dev.sock.bits /\ e.sock.reg = dev.sock.reg /\ e.sock.pend = p
  BY <1>3, <1>4
<1>6. [dev EXCEPT !.sock.pend = p] = e
  BY <1>2 DEF e
<1> QED
  BY <1>5, <1>6

(* SocketError: the device of a present link will know it. *)
LEMMA SocketErrorIs ==
  ASSUME Inv, NEW i \in 1 .. dev.links, SocketError(i), batch' = batch
  PROVE  /\ dev' \in Devices /\ Settled(dev') /\ LinkStays(dev, dev')
         /\ dev'.sock.acc = dev.sock.acc /\ Data(dev'.sock) = Data(dev.sock) /\ dev'.sock.status = dev.sock.status
         /\ dev'.sock.bits = dev.sock.bits /\ dev'.sock.reg = dev.sock.reg
         /\ i # dev.sock.id => dev' = dev
         /\ i = dev.sock.id => Has("error")'
         /\ UNCHANGED tasks \/ \E t \in Tasks : Push(t) /\ t.op # "send" /\ Knows(t, dev')
         /\ \A t \in Queued : t \in Queued'
<1>1. Typed /\ dev \in Devices /\ Settled(dev) /\ dev.sock \in Socks /\ dev.links \in Nat
  BY DEF Inv, Typed, Devices
<1> DEFINE p == dev.sock.pend \cup {"remove"}
<1>2. p \in SUBSET {"send", "remove"}
  BY <1>1 DEF Socks
<1>3. dev' = IF i = dev.sock.id THEN [dev EXCEPT !.sock.pend = p] ELSE dev
  BY <1>1 DEF SocketError, Devices
<1> HIDE DEF p
<1>4. /\ dev' \in Devices /\ Settled(dev') /\ LinkStays(dev, dev')
      /\ dev'.sock.acc = dev.sock.acc /\ Data(dev'.sock) = Data(dev.sock) /\ dev'.sock.status = dev.sock.status
      /\ dev'.sock.bits = dev.sock.bits /\ dev'.sock.reg = dev.sock.reg
      /\ i # dev.sock.id => dev' = dev
  <2>1. CASE i = dev.sock.id
    <3>1. dev.sock.id # 0 /\ dev' = [dev EXCEPT !.sock.pend = p]
      BY <1>1, <1>3, <2>1
    <3> QED
      BY <1>1, <1>2, <2>1, <3>1, PendStays
  <2>2. CASE i # dev.sock.id
    BY <1>1, <1>3, <2>2, StaysLinked
  <2> QED
    BY <2>1, <2>2
<1> DEFINE t == T("error", i, None)
<1>5. t \in Tasks /\ t.op = "error" /\ t.id = i
  BY <1>1 DEF T, Tasks, Ops
<1>6. Knows(t, dev')
  BY <1>4, <1>5 DEF Knows, LinkOps, LinkStays
<1>7. Push(t) \/ (UNCHANGED tasks /\ i # dev.sock.id)
  BY DEF SocketError
<1> HIDE DEF t
<1>8. UNCHANGED tasks \/ \E u \in Tasks : Push(u) /\ u.op # "send" /\ Knows(u, dev')
  BY <1>5, <1>6, <1>7
<1>9. \A u \in Queued : u \in Queued'
  BY <1>1, <1>8, Grows
<1>10. i = dev.sock.id => Has("error")'
  <2> SUFFICES ASSUME i = dev.sock.id PROVE Has("error")'
    OBVIOUS
  <2>1. t \in Queued'
    BY <1>1, <1>5, <1>7, PushIs DEF Typed
  <2> QED
    BY <1>4, <1>5, <2>1 DEF Has, LinkStays
<1> QED
  BY <1>4, <1>8, <1>9, <1>10

(* Sending in place goes on, unlocked. *)
LEMMA JobWriteStep ==
  ASSUME Inv, NEW k \in Nat, JobWrite(k)
  PROVE  Inv'
<1>1. /\ Typed /\ InPlace /\ dev \in Devices /\ Settled(dev) /\ dev.sock \in Socks
      /\ job.at = "writing" /\ k \in 0 .. Len(dev.sock.sending) /\ fdr' = fdr /\ firing' = firing
      /\ batch' = batch /\ taking' = taking /\ UNCHANGED tasks /\ job \in [by : Threads \cup {None}, at : Places]
  BY DEF Inv, Typed, Devices, JobWrite
<1>2. job # NoJob /\ ~taking /\ CanSend(dev.st) /\ dev.sock.status = "Sending" /\ dev.sock.id # 0
  BY <1>1 DEF Typed, InPlace, Settled
<1> DEFINE r == Write(dev.sock, k)
           at == IF k = Len(dev.sock.sending) THEN "check" ELSE "leave"
<1>3. dev' = [dev EXCEPT !.sock = r] /\ job' = [job EXCEPT !.at = at]
  BY <1>1 DEF JobWrite, Devices
<1>4. /\ r \in Socks /\ r.id = dev.sock.id /\ r.conn = dev.sock.conn /\ r.status = "Sending" /\ r.acc = dev.sock.acc
      /\ r.queue = dev.sock.queue /\ Data(r) = Data(dev.sock)
      /\ dev.sock.bits \subseteq r.bits /\ (dev.sock.reg => r.reg) /\ r.pend \subseteq dev.sock.pend
      /\ "send" \in dev.sock.pend => "send" \in r.pend
      /\ k < Len(dev.sock.sending) => "write" \in r.bits
  BY <1>1, <1>2, WriteIs
<1>5. at \in {"check", "leave"} /\ (at = "leave" => k < Len(dev.sock.sending))
  <2>1. Len(dev.sock.sending) \in Nat
    BY <1>1 DEF Socks
  <2> QED
    BY <1>1, <2>1
<1> HIDE DEF r, at
<1>6. dev' \in Devices /\ Settled(dev') /\ LinkStays(dev, dev') /\ dev'.sock = r
  BY <1>1, <1>2, <1>3, <1>4, StaysSettled
<1>7. job' \in [by : Threads \cup {None}, at : Places] /\ job'.at = at /\ job' # NoJob /\ job'.at # "no"
  BY <1>1, <1>3, <1>5 DEF Places, NoJob
<1>8. \A t \in Queued : t \in Queued'
  BY <1>1 DEF Queued
<1>9. IsFailing => IsFailing'
  BY <1>1, <1>4, <1>6, <1>8, StillFailing
<1>10. dev.sock.reg \/ IsFailing'
  BY <1>2, <1>9 DEF Inv, Failing
<1>11. Sends'
  <2>1. job'.at \in {"no", "leave"} => "write" \in r.bits
    BY <1>4, <1>5, <1>7
  <2>2. "write" \in r.bits => Detects("write")' \/ IsFailing'
    BY <1>4, <1>6, <1>10 DEF Detects
  <2> QED
    BY <2>1, <2>2 DEF Sends, OnItsWay
<1>12. Detects("read") => Detects("read")'
  BY <1>4, <1>6 DEF Detects
<1> QED
  BY <1>1, <1>2, <1>4, <1>6, <1>7, <1>9, <1>11, <1>12, OutsideStep

(* The write in place failed ... *)
LEMMA JobWriteErrorStep == Inv /\ JobWriteError => Inv'
<1> SUFFICES ASSUME Inv, JobWriteError PROVE Inv'
  OBVIOUS
<1>1. /\ Typed /\ InPlace /\ dev \in Devices /\ Settled(dev) /\ dev.sock \in Socks /\ dev.links \in Nat
      /\ job.at = "writing" /\ fdr' = fdr /\ firing' = firing /\ SocketError(dev.sock.id)
      /\ batch' = batch /\ taking' = taking /\ job \in [by : Threads \cup {None}, at : Places]
      /\ job' = [job EXCEPT !.at = "leave"]
  BY DEF Inv, Typed, Devices, JobWriteError
<1>2. job # NoJob /\ ~taking /\ CanSend(dev.st) /\ dev.sock.status = "Sending" /\ dev.sock.id \in 1 .. dev.links
  BY <1>1 DEF Typed, InPlace, Settled, Socks
<1>3. /\ dev' \in Devices /\ Settled(dev') /\ LinkStays(dev, dev')
      /\ dev'.sock.acc = dev.sock.acc /\ Data(dev'.sock) = Data(dev.sock) /\ dev'.sock.status = dev.sock.status
      /\ dev'.sock.bits = dev.sock.bits /\ dev'.sock.reg = dev.sock.reg
      /\ Has("error")'
      /\ UNCHANGED tasks \/ \E t \in Tasks : Push(t) /\ t.op # "send" /\ Knows(t, dev')
  BY <1>1, <1>2, SocketErrorIs
<1>4. job' \in [by : Threads \cup {None}, at : Places] /\ job' # NoJob /\ job'.at # "no"
  BY <1>1 DEF Places, NoJob
<1>5. IsFailing'
  BY <1>3 DEF IsFailing
<1>6. Sends'
  BY <1>5 DEF Sends, OnItsWay
<1> QED
  BY <1>1, <1>2, <1>3, <1>4, <1>5, <1>6, OutsideStep

(* ... or it is over, and the queue is left. *)
LEMMA JobLeaveStep == Inv /\ JobLeave => Inv'
<1> SUFFICES ASSUME Inv, JobLeave PROVE Inv'
  OBVIOUS
<1>1. /\ Typed /\ dev \in Devices /\ Settled(dev) /\ dev' = dev /\ job' = NoJob /\ job.at = "leave"
      /\ fdr' = fdr /\ firing' = firing /\ batch' = batch /\ taking' = taking /\ UNCHANGED tasks
  BY DEF Inv, Typed, JobLeave
<1>2. job' \in [by : Threads \cup {None}, at : Places] /\ job'.at = "no"
  BY <1>1 DEF NoJob, Places
<1>3. Queued' = Queued
  BY <1>1 DEF Queued
<1>4. (\A op : Has(op) => Has(op)') /\ (\A b : Detects(b) => Detects(b)')
  BY <1>1, <1>3 DEF Has, Detects
<1>5. IsFailing => IsFailing'
  BY <1>1, <1>4 DEF IsFailing
<1>6. Sends'
  BY <1>1, <1>4, <1>5 DEF Inv, Sends, OnItsWay
<1>7. LinkStays(dev, dev')
  BY <1>1, StaysLinked
<1> QED
  BY <1>1, <1>2, <1>4, <1>5, <1>6, <1>7, OutsideStep

(* CheckSendQueueEmpty, with the queue locked again. *)
LEMMA JobCheckStep == Inv /\ JobCheckSendQueueEmpty => Inv'
<1> SUFFICES ASSUME Inv, JobCheckSendQueueEmpty PROVE Inv'
  OBVIOUS
<1> DEFINE s == CheckSendQueue(dev.sock)
<1>1. /\ Typed /\ InPlace /\ dev \in Devices /\ Settled(dev) /\ dev.sock \in Socks
      /\ job.at = "check" /\ job' = NoJob /\ fdr' = fdr /\ firing' = firing
      /\ batch' = batch /\ taking' = taking
  BY DEF Inv, Typed, Devices, JobCheckSendQueueEmpty
<1>2. job # NoJob /\ ~taking /\ CanSend(dev.st) /\ dev.sock.id # 0
  BY <1>1 DEF Typed, InPlace, Settled
<1>3. /\ s \in Socks /\ s.id = dev.sock.id /\ s.conn = dev.sock.conn /\ s.acc = dev.sock.acc
      /\ s.bits = dev.sock.bits /\ s.reg = dev.sock.reg /\ s.pend = dev.sock.pend
      /\ s.queue = <<>> /\ Data(s) = Data(dev.sock)
      /\ s.status = "Empty" <=> s.sending = <<>>
  BY <1>1, CheckIs
<1>4. IF s.status = "Empty"
        THEN /\ dev' = [dev EXCEPT !.sock = s]
             /\ IF dev.st = "Lingering" THEN Push(T("check", 0, None)) ELSE UNCHANGED tasks
        ELSE dev' = [dev EXCEPT !.sock = [s EXCEPT !.pend = @ \cup {"send"}]] /\ UNCHANGED tasks
  BY DEF JobCheckSendQueueEmpty
<1>5. job' \in [by : Threads \cup {None}, at : Places] /\ job'.at = "no"
  BY <1>1 DEF NoJob, Places
<1> HIDE DEF s
<1>6. CASE s.status = "Empty"
  <2>1. dev' \in Devices /\ Settled(dev') /\ LinkStays(dev, dev') /\ dev'.sock = s
    BY <1>1, <1>2, <1>3, <1>4, <1>6, StaysSettled
  <2> DEFINE t == T("check", 0, None)
  <2>2. t \in Tasks /\ t.op = "check" /\ Knows(t, dev')
    BY DEF T, Tasks, Ops, Knows, LinkOps
  <2>3. IF dev.st = "Lingering" THEN Push(t) ELSE UNCHANGED tasks
    BY <1>4, <1>6
  <2> HIDE DEF t
  <2>4. UNCHANGED tasks \/ \E u \in Tasks : Push(u) /\ u.op # "send" /\ Knows(u, dev')
    BY <2>2, <2>3
  <2>5. \A u \in Queued : u \in Queued'
    BY <1>1, <2>4, Grows
  <2>6. dev.st = "Lingering" => \E u \in Queued' : u.op = "check"
    BY <1>1, <2>2, <2>3, PushIs DEF Typed
  <2>7. IsFailing => IsFailing'
    BY <1>1, <1>3, <2>1, <2>5, StillFailing
  <2>8. Sends'
    BY <1>6, <2>1 DEF Sends
  <2>9. Detects("read") => Detects("read")'
    BY <1>3, <2>1 DEF Detects
  <2> QED
    BY <1>1, <1>3, <1>5, <2>1, <2>4, <2>6, <2>7, <2>8, <2>9, OutsideStep
<1>7. CASE s.status # "Empty"
  <2> DEFINE p == s.pend \cup {"send"}
             r == [s EXCEPT !.pend = p]
  <2>1. p \in SUBSET {"send", "remove"} /\ s.status = "Sending"
    BY <1>3, <1>7 DEF Socks
  <2>2. dev' = [dev EXCEPT !.sock = r] /\ UNCHANGED tasks
    BY <1>3, <1>4, <1>7 DEF Socks
  <2>3. "send" \in p /\ ("remove" \in p => "remove" \in dev.sock.pend)
    BY <1>3
  <2> HIDE DEF p
  <2>4. /\ r \in Socks /\ r.id = s.id /\ r.conn = s.conn /\ r.status = s.status
        /\ r.sending = s.sending /\ r.queue = s.queue /\ r.acc = s.acc
        /\ r.bits = s.bits /\ r.reg = s.reg /\ r.pend = p /\ Data(r) = Data(s)
    BY ZenonT(40), <1>3, <2>1, PendIs
  <2> HIDE DEF r
  <2>5. dev' \in Devices /\ Settled(dev') /\ LinkStays(dev, dev') /\ dev'.sock = r
    BY <1>1, <1>2, <1>3, <2>1, <2>2, <2>4, StaysSettled
  <2>6. \A t \in Queued : t \in Queued'
    BY <1>1, <2>2 DEF Queued
  <2>7. IsFailing => IsFailing'
    BY <1>1, <1>3, <2>4, <2>5, <2>6, StillFailing
  <2>8. Sends'
    BY <2>3, <2>4, <2>5 DEF Sends, OnItsWay
  <2>9. Detects("read") => Detects("read")'
    BY <1>3, <2>4, <2>5 DEF Detects
  <2> QED
    BY <1>1, <1>3, <1>5, <2>1, <2>2, <2>3, <2>4, <2>5, <2>7, <2>8, <2>9, OutsideStep
<1> QED
  BY <1>6, <1>7

(* The fdr thread goes on with another socket of the device. *)
LEMMA FdrConnectedStep == Inv /\ FdrConnected => Inv'
<1> SUFFICES ASSUME Inv, FdrConnected PROVE Inv'
  OBVIOUS
<1>1. /\ Typed /\ InPlace /\ Known /\ dev \in Devices /\ Settled(dev) /\ dev.sock \in Socks /\ dev.links \in Nat
      /\ fdr.at = "handle" /\ fdr.ev = "write" /\ fdr.conn = "connecting" /\ fdr' = FdrIdle
      /\ batch' = batch /\ taking' = taking /\ job' = job /\ firing' = firing
      /\ fdr.id \in 1 .. dev.links /\ (fdr.id = dev.sock.id => dev.sock.conn = "connecting")
  BY DEF Inv, Typed, Known, Devices, FdrConnected, FdrHandles
<1> DEFINE t == T("connected", fdr.id, None)
<1>2. t \in Tasks /\ t.op = "connected" /\ t.id = fdr.id
  BY <1>1 DEF T, Tasks, Ops
<1>3. /\ dev' = IF fdr.id = dev.sock.id
                  THEN [dev EXCEPT !.sock = [Update(dev.sock, {}) EXCEPT !.conn = "connected"]]
                  ELSE dev
      /\ Push(t) \/ UNCHANGED tasks
  BY <1>1 DEF FdrConnected, Devices
<1> HIDE DEF t
<1>4. CASE fdr.id # dev.sock.id
  <2>1. dev' = dev /\ LinkStays(dev, dev')
    BY <1>3, <1>4, StaysLinked
  <2>2. Knows(t, dev')
    BY <1>1, <1>2, <1>4, <2>1 DEF Knows, LinkOps
  <2>3. UNCHANGED tasks \/ \E u \in Tasks : Push(u) /\ u.op # "send" /\ Knows(u, dev')
    BY <1>2, <1>3, <2>2
  <2>4. \A u \in Queued : u \in Queued'
    BY <1>1, <2>3, Grows
  <2>5. (\A op : Has(op) => Has(op)') /\ (\A b : Detects(b) => Detects(b)')
    BY <2>1, <2>4 DEF Has, Detects
  <2>6. IsFailing => IsFailing'
    BY <1>1, <2>1, <2>4, StillFailing
  <2>7. Sends'
    BY <1>1, <1>4, <2>1, <2>5, <2>6 DEF Inv, Sends, OnItsWay
  <2>8. job' # NoJob => ~taking /\ dev'.sock.status = "Sending" /\ (job = NoJob => tasks' = <<>>)
    BY <1>1, <2>1 DEF InPlace
  <2>9. job' \in [by : Threads \cup {None}, at : Places] /\ (job'.at = "no" <=> job' = NoJob)
    BY <1>1 DEF Typed
  <2> QED
    BY <1>1, <2>1, <2>3, <2>5, <2>6, <2>7, <2>8, <2>9, OutsideStep
<1>5. CASE fdr.id = dev.sock.id
  <2> DEFINE u == Update(dev.sock, {})
             r == [u EXCEPT !.conn = "connected"]
  <2>1. dev.st = "Linking" /\ dev.sock.id # 0 /\ dev.sock.status = "Empty" /\ dev.sock.acc = 0 /\ job = NoJob
    BY <1>1, <1>5 DEF Settled, CanSend, InPlace, Socks
  <2>2. dev' = [dev EXCEPT !.sock = r]
    BY <1>3, <1>5
  <2>3. {} \in SUBSET Bits
    OBVIOUS
  <2>4. /\ u \in Socks /\ u.id = dev.sock.id /\ u.status = dev.sock.status
        /\ u.sending = dev.sock.sending /\ u.queue = dev.sock.queue /\ u.acc = dev.sock.acc /\ u.wire = dev.sock.wire
        /\ (dev.sock.reg => u.reg) /\ u.pend \subseteq dev.sock.pend
    BY <1>1, <2>3, UpdateIs
  <2> HIDE DEF u
  <2>5. /\ r \in Socks /\ r.id = dev.sock.id /\ r.status = "Empty" /\ r.conn = "connected"
        /\ r.sending = dev.sock.sending /\ r.queue = dev.sock.queue /\ r.acc = 0 /\ r.wire = dev.sock.wire
        /\ (dev.sock.reg => r.reg) /\ r.pend \subseteq dev.sock.pend
    BY <2>1, <2>4 DEF Socks
  <2> HIDE DEF r
  <2>6. /\ dev' \in Devices /\ dev'.sock = r /\ dev'.st = dev.st /\ dev'.dn = dev.dn /\ dev'.timer = dev.timer
        /\ dev'.links = dev.links
    BY <1>1, <2>2, <2>5, SockIs
  <2>7. Settled(dev')
    BY <1>1, <2>1, <2>5, <2>6 DEF Settled, CanSend
  <2>8. Knows(t, dev')
    BY <1>1, <1>2, <1>5, <2>5, <2>6 DEF Knows, LinkOps
  <2>9. UNCHANGED tasks \/ \E v \in Tasks : Push(v) /\ v.op # "send" /\ Knows(v, dev')
    BY <1>2, <1>3, <2>8
  <2>10. /\ tasks' \in Seq(Tasks) /\ batch' \in Seq(Tasks)
         /\ \A v \in Queued : v \in Queued'
         /\ \A v \in Queued' : v \in Queued \/ (v.op # "send" /\ Knows(v, dev'))
         /\ \A s \in Socks : InLine(s, Line) => InLine(s, Line')
    BY <1>1, <2>9, Grows
  <2>11. Typed'
    <3>1. fdr' \in [at : {"idle", "handle", "recv"}, id : Nat, ev : {None, "send", "write", "read", "error"},
                    conn : {None, "connecting", "connected"}]
      BY <1>1 DEF FdrIdle
    <3> QED
      BY <1>1, <2>6, <2>7, <2>10, <3>1 DEF Typed
  <2>12. InPlace'
    BY <1>1, <2>1 DEF InPlace
  <2>13. Known'
    <3>1. \A v \in Queued' : Knows(v, dev')
      BY <1>1, <2>5, <2>6, <2>10 DEF Known, Knows
    <3> QED
      BY <1>1, <3>1 DEF Known, FdrIdle
  <2>14. IsFailing => IsFailing'
    BY <1>1, <2>5, <2>6, <2>10, StillFailing
  <2>15. Failing'
    BY <2>5, <2>6, <2>14 DEF Inv, Failing
  <2>16. Sends' /\ SomeoneWillReceive' /\ SomeoneWillClose'
    BY <2>1, <2>5, <2>6 DEF Sends, SomeoneWillReceive, SomeoneWillClose
  <2>17. SomeoneWillRetry'
    BY <1>1, <2>6, <2>10 DEF Inv, SomeoneWillRetry
  <2>18. InOrder'
    <3>1. Data(r) = Data(dev.sock)
      BY <2>5 DEF Data
    <3>2. InLine(dev.sock, Line') => InLine(r, Line')
      BY <1>1, <2>1, <2>5, <3>1, SameData
    <3> QED
      BY <1>1, <2>1, <2>6, <2>10, <3>1, <3>2 DEF Inv, InOrder
  <2> QED
    BY <2>11, <2>12, <2>13, <2>15, <2>16, <2>17, <2>18 DEF Inv
<1> QED
  BY <1>4, <1>5

(* DeviceContinueSend in the fdr thread: in place, or as a task. *)
LEMMA FdrContinueSendStep == Inv /\ FdrContinueSend => Inv'
<1> SUFFICES ASSUME Inv, FdrContinueSend PROVE Inv'
  OBVIOUS
<1> DEFINE s == CheckSendQueue(dev.sock)
           isAlive == fdr.id = dev.sock.id
<1>1. /\ Typed /\ InPlace /\ Known /\ dev \in Devices /\ Settled(dev) /\ dev.sock \in Socks /\ dev.links \in Nat
      /\ fdr.at = "handle" /\ fdr.ev \in {"send", "write"} /\ fdr' = FdrIdle
      /\ batch' = batch /\ taking' = taking /\ firing' = firing
      /\ fdr.id \in 1 .. dev.links /\ job \in [by : Threads \cup {None}, at : Places] /\ (job.at = "no" <=> job = NoJob)
  BY DEF Inv, Typed, Known, Devices, FdrContinueSend, FdrHandles
<1>2. /\ s \in Socks /\ s.id = dev.sock.id /\ s.conn = dev.sock.conn /\ s.acc = dev.sock.acc
      /\ s.bits = dev.sock.bits /\ s.reg = dev.sock.reg /\ s.pend = dev.sock.pend
      /\ s.queue = <<>> /\ Data(s) = Data(dev.sock)
      /\ s.status = "Empty" <=> s.sending = <<>>
  BY <1>1, CheckIs
<1>3. /\ ~CanSend(dev.st) => UNCHANGED <<dev, tasks, job>>
      /\ CanSend(dev.st) /\ NoQueue /\ job = NoJob =>
           /\ dev' = IF isAlive THEN [dev EXCEPT !.sock = s] ELSE dev
           /\ job' = IF isAlive /\ s.status = "Sending"
                        THEN [by |-> Fdr, at |-> "writing"] ELSE job
           /\ IF isAlive /\ s.status = "Empty" /\ dev.st = "Lingering"
                THEN Push(T("check", 0, None)) ELSE UNCHANGED tasks
      /\ CanSend(dev.st) /\ ~(NoQueue /\ job = NoJob) =>
           /\ dev' = IF isAlive THEN [dev EXCEPT !.sock = DisableEventBit(@, "write")] ELSE dev
           /\ Push(T("continue", fdr.id, None))
           /\ UNCHANGED job
  BY DEF FdrContinueSend
<1> HIDE DEF s
(* Nothing is changed, except that a task may be left. *)
<1>4. ASSUME dev' = dev, job' = job, dev.sock.status = "Sending" => ~isAlive,
             UNCHANGED tasks \/ \E t \in Tasks : Push(t) /\ t.op # "send" /\ Knows(t, dev')
      PROVE  Inv'
  <2>1. \A t \in Queued : t \in Queued'
    BY <1>1, <1>4, Grows
  <2>2. (\A op : Has(op) => Has(op)') /\ (\A b : Detects(b) => Detects(b)')
    BY <1>4, <2>1 DEF Has, Detects
  <2>3. IsFailing => IsFailing'
    BY <1>1, <1>4, <2>1, StillFailing
  <2>4. Sends'
    BY <1>1, <1>4, <2>2, <2>3 DEF Inv, Sends, OnItsWay
  <2>5. job' # NoJob => ~taking /\ dev'.sock.status = "Sending" /\ (job = NoJob => tasks' = <<>>)
    BY <1>1, <1>4 DEF InPlace
  <2>6. LinkStays(dev, dev')
    BY <1>4, StaysLinked
  <2> QED
    BY <1>1, <1>4, <2>2, <2>3, <2>4, <2>5, <2>6, OutsideStep
<1>5. CASE ~CanSend(dev.st)
  <2>1. UNCHANGED <<dev, tasks, job>>
    BY <1>3, <1>5
  <2>2. dev.sock.status # "Sending"
    BY <1>1, <1>5 DEF Settled
  <2> QED
    BY <1>4, <2>1, <2>2
<1>6. CASE CanSend(dev.st) /\ NoQueue /\ job = NoJob
  <2>1. CASE ~isAlive
    BY <1>3, <1>4, <1>6, <2>1
  <2>2. CASE isAlive
    <3> DEFINE t == T("check", 0, None)
               inPlace == [by |-> Fdr, at |-> "writing"]
    <3>1. /\ dev' = [dev EXCEPT !.sock = s]
          /\ job' = IF s.status = "Sending" THEN inPlace ELSE NoJob
          /\ IF s.status = "Empty" /\ dev.st = "Lingering" THEN Push(t) ELSE UNCHANGED tasks
      BY <1>3, <1>6, <2>2
    <3>2. t \in Tasks /\ t.op = "check" /\ Knows(t, dev')
      BY DEF T, Tasks, Ops, Knows, LinkOps
    <3>3. dev.sock.id # 0
      BY <1>1, <1>6 DEF Settled
    <3>4. dev' \in Devices /\ Settled(dev') /\ LinkStays(dev, dev') /\ dev'.sock = s
      BY <1>1, <1>2, <1>6, <3>1, <3>3, StaysSettled
    <3>5. /\ inPlace \in [by : Threads \cup {None}, at : Places] /\ inPlace.at = "writing" /\ inPlace # NoJob
          /\ NoJob \in [by : Threads \cup {None}, at : Places] /\ NoJob.at = "no"
      BY DEF Threads, Places, NoJob
    <3> HIDE DEF t, inPlace
    <3>6. UNCHANGED tasks \/ \E u \in Tasks : Push(u) /\ u.op # "send" /\ Knows(u, dev')
      BY <3>1, <3>2
    <3>7. \A u \in Queued : u \in Queued'
      BY <1>1, <3>6, Grows
    <3>8. IsFailing => IsFailing'
      BY <1>1, <3>4, <3>7, StillFailing DEF LinkStays
    <3>9. Sends'
      BY <1>2, <3>1, <3>4, <3>5 DEF Sends
    <3>10. Detects("read") => Detects("read")'
      BY <1>2, <3>4 DEF Detects
    <3>11. s.status = "Empty" /\ dev.st = "Lingering" => \E u \in Queued' : u.op = "check"
      BY <1>1, <3>1, <3>2, PushIs DEF Typed
    <3>12. /\ job' \in [by : Threads \cup {None}, at : Places] /\ (job'.at = "no" <=> job' = NoJob)
           /\ job' # NoJob => ~taking /\ dev'.sock.status = "Sending" /\ tasks' = <<>>
      BY <1>6, <3>1, <3>4, <3>5 DEF NoQueue
    <3> QED
      BY <1>1, <1>2, <3>4, <3>6, <3>8, <3>9, <3>10, <3>11, <3>12, OutsideStep
  <2> QED
    BY <2>1, <2>2
<1>7. CASE CanSend(dev.st) /\ ~(NoQueue /\ job = NoJob)
  <2> DEFINE t == T("continue", fdr.id, None)
             r == DisableEventBit(dev.sock, "write")
  <2>1. t \in Tasks /\ t.op = "continue" /\ t.id = fdr.id
    BY <1>1 DEF T, Tasks, Ops
  <2>2. dev' = (IF isAlive THEN [dev EXCEPT !.sock = r] ELSE dev) /\ Push(t) /\ job' = job
    BY <1>1, <1>3, <1>7 DEF Devices
  <2> HIDE DEF t
  <2>3. CASE ~isAlive
    <3>1. dev' = dev /\ Knows(t, dev')
      BY <1>1, <2>1, <2>2, <2>3 DEF Knows, LinkOps
    <3> QED
      BY <1>4, <2>1, <2>2, <2>3, <3>1
  <2>4. CASE isAlive
    <3>1. /\ r \in Socks /\ r.id = dev.sock.id /\ r.conn = dev.sock.conn /\ r.status = dev.sock.status
          /\ r.sending = dev.sock.sending /\ r.queue = dev.sock.queue /\ r.acc = dev.sock.acc /\ r.wire = dev.sock.wire
          /\ r.bits = dev.sock.bits \ {"write"} /\ (dev.sock.reg => r.reg) /\ r.pend \subseteq dev.sock.pend
      BY <1>1, DisableIs DEF Bits
    <3> HIDE DEF r
    <3>2. dev.sock.id # 0
      BY <1>1, <1>7 DEF Settled
    <3>3. dev' \in Devices /\ Settled(dev') /\ LinkStays(dev, dev') /\ dev'.sock = r
      BY <1>1, <1>7, <2>2, <2>4, <3>1, <3>2, StaysSettled DEF Settled
    <3>4. Data(r) = Data(dev.sock)
      BY <3>1 DEF Data
    <3>5. Knows(t, dev')
      BY <1>1, <2>1, <3>3 DEF Knows, LinkOps, LinkStays
    <3>6. UNCHANGED tasks \/ \E u \in Tasks : Push(u) /\ u.op # "send" /\ Knows(u, dev')
      BY <2>1, <2>2, <3>5
    <3>7. \A u \in Queued : u \in Queued'
      BY <1>1, <3>6, Grows
    <3>8. IsFailing => IsFailing'
      BY <1>1, <3>3, <3>7, StillFailing DEF LinkStays
    <3>9. Has("continue")'
      <4>1. t \in Queued'
        BY <1>1, <2>1, <2>2, PushIs DEF Typed
      <4> QED
        BY <2>1, <2>4, <3>1, <3>3, <4>1 DEF Has
    <3>10. Sends'
      BY <3>9 DEF Sends, OnItsWay
    <3>11. Detects("read") => Detects("read")'
      BY <3>1, <3>3 DEF Detects
    <3>12. job' # NoJob => ~taking /\ dev'.sock.status = "Sending" /\ (job = NoJob => tasks' = <<>>)
      BY <1>1, <2>2, <3>1, <3>3 DEF InPlace
    <3> QED
      BY <1>1, <2>2, <3>1, <3>3, <3>4, <3>6, <3>8, <3>10, <3>11, <3>12, OutsideStep
  <2> QED
    BY <2>3, <2>4
<1> QED
  BY <1>5, <1>6, <1>7

(* DeviceRecvBufferReady in the fdr thread: in place, or as a task. *)
LEMMA FdrRecvStep == Inv /\ FdrRecv => Inv'
<1> SUFFICES ASSUME Inv, FdrRecv PROVE Inv'
  OBVIOUS
<1>1. /\ Typed /\ InPlace /\ Known /\ dev \in Devices /\ Settled(dev) /\ dev.sock \in Socks /\ dev.links \in Nat
      /\ fdr.at = "handle" /\ fdr.ev = "read"
      /\ batch' = batch /\ taking' = taking /\ firing' = firing /\ job' = job
      /\ fdr.id \in 1 .. dev.links /\ job \in [by : Threads \cup {None}, at : Places] /\ (job.at = "no" <=> job = NoJob)
  BY DEF Inv, Typed, Known, Devices, FdrRecv, FdrHandles
<1>2. fdr' \in {FdrIdle, [FdrIdle EXCEPT !.at = "recv"]}
  BY DEF FdrRecv
(* The socket may be changed, and a task may be left. *)
<1>3. ASSUME dev' \in Devices, Settled(dev'), LinkStays(dev, dev'), dev'.sock.status = dev.sock.status,
             dev'.sock.acc = dev.sock.acc, Data(dev'.sock) = Data(dev.sock),
             UNCHANGED tasks \/ \E t \in Tasks : Push(t) /\ t.op # "send" /\ Knows(t, dev'),
             dev.sock.reg => dev'.sock.reg, dev'.sock.pend \subseteq dev.sock.pend,
             "send" \in dev.sock.pend => "send" \in dev'.sock.pend,
             dev.sock.bits \subseteq dev'.sock.bits \cup {"read"},
             Detects("read") => Detects("read")' \/ Has("recv")'
      PROVE  Inv'
  <2>1. \A t \in Queued : t \in Queued'
    BY <1>1, <1>3, Grows
  <2>2. IsFailing => IsFailing'
    BY <1>1, <1>3, <2>1, StillFailing DEF LinkStays
  <2>3. Has("continue") => Has("continue")'
    BY <1>3, <2>1 DEF Has, LinkStays
  <2>4. Detects("write") => Detects("write")'
    BY <1>3 DEF Detects
  <2>5. Sends'
    BY <1>1, <1>3, <2>2, <2>3, <2>4 DEF Inv, Sends, OnItsWay
  <2>6. job' # NoJob => ~taking /\ dev'.sock.status = "Sending" /\ (job = NoJob => tasks' = <<>>)
    BY <1>1, <1>3 DEF InPlace
  <2> QED
    BY <1>1, <1>2, <1>3, <2>2, <2>5, <2>6, OutsideStep
<1>4. CASE UNCHANGED <<dev, tasks>>
  <2>1. LinkStays(dev, dev') /\ (Detects("read") => Detects("read")')
    BY <1>4, StaysLinked DEF Detects
  <2> QED
    BY <1>1, <1>3, <1>4, <2>1
<1> DEFINE t == T("recv", fdr.id, None)
           r == DisableEventBit(dev.sock, "read")
<1>5. t \in Tasks /\ t.op = "recv" /\ t.id = fdr.id
  BY <1>1 DEF T, Tasks, Ops
<1>6. ASSUME Push(t), LinkStays(dev, dev')
      PROVE  /\ \E u \in Tasks : Push(u) /\ u.op # "send" /\ Knows(u, dev')
             /\ fdr.id = dev.sock.id => Has("recv")'
  <2> HIDE DEF t
  <2>1. Knows(t, dev')
    BY <1>1, <1>5, <1>6 DEF Knows, LinkOps, LinkStays
  <2>2. t \in Queued'
    BY <1>1, <1>5, <1>6, PushIs DEF Typed
  <2>3. fdr.id = dev.sock.id => Has("recv")'
    BY <1>5, <1>6, <2>2 DEF Has, LinkStays
  <2> QED
    BY <1>5, <1>6, <2>1, <2>3
<1>7. CASE /\ dev' = IF fdr.id = dev.sock.id THEN [dev EXCEPT !.sock = r] ELSE dev
           /\ Push(t)
  <2>1. CASE fdr.id # dev.sock.id
    <3>1. dev' = dev /\ LinkStays(dev, dev') /\ (Detects("read") => Detects("read")')
      BY <1>7, <2>1, StaysLinked DEF Detects
    <3>2. \E u \in Tasks : Push(u) /\ u.op # "send" /\ Knows(u, dev')
      BY <1>6, <1>7, <3>1
    <3> QED
      BY <1>1, <1>3, <3>1, <3>2
  <2>2. CASE fdr.id = dev.sock.id
    <3>1. /\ r \in Socks /\ r.id = dev.sock.id /\ r.conn = dev.sock.conn /\ r.status = dev.sock.status
          /\ r.sending = dev.sock.sending /\ r.queue = dev.sock.queue /\ r.acc = dev.sock.acc /\ r.wire = dev.sock.wire
          /\ r.bits = dev.sock.bits \ {"read"} /\ (dev.sock.reg => r.reg) /\ r.pend \subseteq dev.sock.pend
          /\ "send" \in dev.sock.pend => "send" \in r.pend
      BY <1>1, DisableIs DEF Bits
    <3>2. dev' = [dev EXCEPT !.sock = r] /\ dev.sock.id # 0
      BY <1>1, <1>7, <2>2
    <3> HIDE DEF r
    <3>3. dev' \in Devices /\ Settled(dev') /\ LinkStays(dev, dev') /\ dev'.sock = r
      BY <1>1, <3>1, <3>2, StaysSettled DEF Settled
    <3>4. Data(r) = Data(dev.sock)
      BY <3>1 DEF Data
    <3>5. (\E u \in Tasks : Push(u) /\ u.op # "send" /\ Knows(u, dev')) /\ Has("recv")'
      BY <1>6, <1>7, <2>2, <3>3
    <3>6. dev.sock.bits \subseteq dev'.sock.bits \cup {"read"}
      BY <3>1, <3>3
    <3> QED
      BY <1>3, <3>1, <3>3, <3>4, <3>5, <3>6
  <2> QED
    BY <2>1, <2>2
<1>8. \/ UNCHANGED <<dev, tasks>>
      \/ /\ dev' = IF fdr.id = dev.sock.id THEN [dev EXCEPT !.sock = r] ELSE dev
         /\ Push(t)
  BY <1>1 DEF FdrRecv, Devices
<1> QED
  BY <1>4, <1>7, <1>8

(* The end of OnDevice_Recv, and a failure of the socket. *)
LEMMA FdrEndStep == Inv /\ (FdrRecvEnd \/ FdrSocketError) => Inv'
<1> SUFFICES ASSUME Inv, FdrRecvEnd \/ FdrSocketError PROVE Inv'
  OBVIOUS
<1>1. /\ Typed /\ InPlace /\ Known /\ dev \in Devices /\ Settled(dev) /\ dev.sock \in Socks /\ dev.links \in Nat
      /\ batch' = batch /\ taking' = taking /\ firing' = firing /\ job' = job /\ fdr' = FdrIdle
      /\ job \in [by : Threads \cup {None}, at : Places] /\ (job.at = "no" <=> job = NoJob)
  BY DEF Inv, Typed, Devices, FdrRecvEnd, FdrSocketError
<1>2. CASE FdrRecvEnd
  <2>1. UNCHANGED <<dev, tasks>> /\ fdr.at = "recv"
    BY <1>2 DEF FdrRecvEnd
  <2>2. \A t \in Queued : t \in Queued'
    BY <1>1, <2>1 DEF Queued
  <2>3. (\A op : Has(op) => Has(op)') /\ (\A b : Detects(b) => Detects(b)')
    BY <2>1, <2>2 DEF Has, Detects
  <2>4. IsFailing => IsFailing'
    BY <2>1, <2>2, StillFailing
  <2>5. Sends'
    BY <1>1, <2>1, <2>3, <2>4 DEF Inv, Sends, OnItsWay
  <2>6. job' # NoJob => ~taking /\ dev'.sock.status = "Sending" /\ (job = NoJob => tasks' = <<>>)
    BY <1>1, <2>1 DEF InPlace
  <2>7. LinkStays(dev, dev')
    BY <2>1, StaysLinked
  <2> QED
    BY <1>1, <2>1, <2>3, <2>4, <2>5, <2>6, <2>7, OutsideStep
<1>3. CASE FdrSocketError
  <2>1. fdr.at = "handle" /\ fdr.ev \in {"read", "error"} /\ SocketError(fdr.id) /\ fdr.id \in 1 .. dev.links
    BY <1>1, <1>3 DEF FdrSocketError, FdrHandles, Known
  <2>2. /\ dev' \in Devices /\ Settled(dev') /\ LinkStays(dev, dev')
        /\ dev'.sock.acc = dev.sock.acc /\ Data(dev'.sock) = Data(dev.sock) /\ dev'.sock.status = dev.sock.status
        /\ dev'.sock.bits = dev.sock.bits /\ dev'.sock.reg = dev.sock.reg
        /\ fdr.id # dev.sock.id => dev' = dev
        /\ fdr.id = dev.sock.id => Has("error")'
        /\ UNCHANGED tasks \/ \E t \in Tasks : Push(t) /\ t.op # "send" /\ Knows(t, dev')
        /\ \A t \in Queued : t \in Queued'
    BY <1>1, <2>1, SocketErrorIs
  <2>3. fdr.id = dev.sock.id => IsFailing'
    BY <2>2 DEF IsFailing
  <2>4. \A op : Has(op) => Has(op)'
    BY <2>2 DEF Has, LinkStays
  <2>5. IsFailing => IsFailing'
    BY <2>3, <2>4 DEF IsFailing
  <2>6. Detects("read") => Detects("read")'
    BY <2>2 DEF Detects
  <2>7. Sends'
    <3>1. CASE fdr.id = dev.sock.id
      BY <2>3, <3>1 DEF Sends, OnItsWay
    <3>2. CASE fdr.id # dev.sock.id
      <4>1. dev' = dev /\ (Detects("write") => Detects("write")')
        BY <2>2, <3>2 DEF Detects
      <4> QED
        BY <1>1, <2>4, <2>5, <3>2, <4>1 DEF Inv, Sends, OnItsWay
    <3> QED
      BY <3>1, <3>2
  <2>8. job' # NoJob => ~taking /\ dev'.sock.status = "Sending" /\ (job = NoJob => tasks' = <<>>)
    BY <1>1, <2>2 DEF InPlace
  <2>9. IsFailing' \/ ((dev.sock.reg => dev'.sock.reg) /\ ("remove" \in dev'.sock.pend => "remove" \in dev.sock.pend))
    BY <2>2, <2>3
  <2> QED
    BY <1>1, <2>2, <2>5, <2>6, <2>7, <2>8, <2>9, OutsideStep
<1> QED
  BY <1>2, <1>3

(* The fdr thread, between two events, takes one of the socket. *)
LEMMA FdrTakesStep ==
  ASSUME Inv, fdr = FdrIdle, NEW ev \in {"send", "write", "read", "error"}, FdrTakes(dev.sock.id, ev),
         dev.sock.id # 0, dev' \in Devices, Settled(dev'), LinkStays(dev, dev'),
         dev'.sock.acc = dev.sock.acc, Data(dev'.sock) = Data(dev.sock), dev'.sock.status = dev.sock.status,
         dev'.sock.bits = dev.sock.bits, dev'.sock.reg = dev.sock.reg,
         "remove" \in dev'.sock.pend => "remove" \in dev.sock.pend \/ ev = "error",
         "send" \in dev.sock.pend => "send" \in dev'.sock.pend \/ ev = "send",
         UNCHANGED <<tasks, batch, taking, job, firing>>
  PROVE  Inv'
<1>1. /\ Typed /\ InPlace /\ dev.sock \in Socks /\ dev'.sock \in Socks /\ dev.sock.id \in 1 .. dev.links
      /\ Queued' = Queued /\ Line' = Line
  <2>1. Typed /\ InPlace /\ dev \in Devices /\ Settled(dev)
    BY DEF Inv, Typed
  <2>2. dev.sock \in Socks /\ dev'.sock \in Socks /\ dev.links \in Nat
    BY <2>1 DEF Devices
  <2>3. dev.sock.id \in 1 .. dev.links
    BY <2>1, <2>2 DEF Settled, Socks
  <2> QED
    BY <2>1, <2>2, <2>3 DEF Queued, Line
<1>2. /\ fdr'.at = "handle" /\ fdr'.id = dev.sock.id /\ fdr'.ev = ev
      /\ fdr'.conn = IF ev = "write" THEN dev.sock.conn ELSE None
      /\ fdr.at = "idle" /\ dev.sock.conn # None /\ ev # None
      /\ fdr' \in [at : {"idle", "handle", "recv"}, id : Nat, ev : {None, "send", "write", "read", "error"},
                   conn : {None, "connecting", "connected"}]
  BY <1>1 DEF FdrTakes, FdrIdle, Socks, None
<1>3. Typed' /\ InPlace'
  BY <1>1, <1>2 DEF Typed, InPlace, LinkStays
<1>4. Known'
  BY <1>1, <1>2 DEF Inv, Known, Knows, LinkStays
<1>5. \A op : Has(op)' <=> Has(op)
  BY <1>1 DEF Has, LinkStays
<1>6. IsFailing => IsFailing'
  BY <1>2, <1>5 DEF IsFailing
<1>7. ev = "error" => IsFailing'
  BY <1>2 DEF IsFailing, LinkStays
<1>8. Failing'
  BY <1>6, <1>7 DEF Inv, Failing, LinkStays
<1>9. Sends'
  <2>1. ev = "send" => OnItsWay'
    BY <1>2 DEF OnItsWay, LinkStays
  <2>2. OnItsWay => OnItsWay'
    BY <1>2, <1>5, <1>6, <2>1 DEF OnItsWay, Detects
  <2> QED
    BY <2>2 DEF Inv, Sends
<1>10. SomeoneWillReceive'
  BY <1>5, <1>6 DEF Inv, SomeoneWillReceive, Detects, LinkStays
<1>11. SomeoneWillRetry' /\ SomeoneWillClose'
  BY <1>1 DEF Inv, SomeoneWillRetry, SomeoneWillClose, LinkStays
<1>12. InOrder'
  BY <1>1, SameData DEF Inv, InOrder, LinkStays
<1> QED
  BY <1>3, <1>4, <1>8, <1>9, <1>10, <1>11, <1>12 DEF Inv

(* epoll tells of an event, or what was left to it. *)
LEMMA FdrEventStep == Inv /\ (FdrPendingSend \/ \E ev \in {"read", "write", "error"} : FdrEvent(ev)) => Inv'
<1> SUFFICES ASSUME Inv, FdrPendingSend \/ \E ev \in {"read", "write", "error"} : FdrEvent(ev) PROVE Inv'
  OBVIOUS
<1>1. Typed /\ dev \in Devices /\ Settled(dev) /\ dev.sock \in Socks
  BY DEF Inv, Typed, Devices
<1>2. dev.sock.id = 0 => dev.sock.reg = FALSE /\ dev.sock.pend = {}
  BY <1>1, NoSockType DEF Settled
<1>3. CASE FdrPendingSend
  <2> DEFINE p == dev.sock.pend \ {"send"}
  <2>1. /\ fdr = FdrIdle /\ FdrTakes(dev.sock.id, "send") /\ "send" \in dev.sock.pend
        /\ dev' = [dev EXCEPT !.sock.pend = p] /\ UNCHANGED <<tasks, batch, taking, job, firing>>
    BY <1>1, <1>3 DEF FdrPendingSend, FdrReady, Devices
  <2>2. p \in SUBSET {"send", "remove"} /\ ("remove" \in p => "remove" \in dev.sock.pend)
    BY <1>1 DEF Socks
  <2> HIDE DEF p
  <2>3. /\ dev' \in Devices /\ Settled(dev') /\ LinkStays(dev, dev')
        /\ dev'.sock.acc = dev.sock.acc /\ Data(dev'.sock) = Data(dev.sock) /\ dev'.sock.status = dev.sock.status
        /\ dev'.sock.bits = dev.sock.bits /\ dev'.sock.reg = dev.sock.reg /\ dev'.sock.pend = p
    BY <1>1, <1>2, <2>1, <2>2, PendStays
  <2> QED
    BY <1>2, <2>1, <2>2, <2>3, FdrTakesStep
<1>4. CASE \E ev \in {"read", "write", "error"} : FdrEvent(ev)
  <2>1. PICK ev \in {"read", "write", "error"} : FdrEvent(ev)
    BY <1>4
  <2> DEFINE p == dev.sock.pend \cup {"remove"}
  <2>2. /\ fdr = FdrIdle /\ FdrTakes(dev.sock.id, ev) /\ dev.sock.reg
        /\ dev' = IF ev = "error" THEN [dev EXCEPT !.sock.pend = p] ELSE dev
        /\ UNCHANGED <<tasks, batch, taking, job, firing>>
    BY <1>1, <2>1 DEF FdrEvent, FdrReady, Devices
  <2>3. p \in SUBSET {"send", "remove"} /\ ("send" \in dev.sock.pend => "send" \in p)
    BY <1>1 DEF Socks
  <2> HIDE DEF p
  <2>4. CASE ev = "error"
    <3>1. /\ dev' \in Devices /\ Settled(dev') /\ LinkStays(dev, dev')
          /\ dev'.sock.acc = dev.sock.acc /\ Data(dev'.sock) = Data(dev.sock) /\ dev'.sock.status = dev.sock.status
          /\ dev'.sock.bits = dev.sock.bits /\ dev'.sock.reg = dev.sock.reg /\ dev'.sock.pend = p
      BY <1>1, <1>2, <2>2, <2>3, <2>4, PendStays
    <3> QED
      BY <1>2, <2>2, <2>3, <2>4, <3>1, FdrTakesStep
  <2>5. CASE ev # "error"
    <3>1. dev' = dev /\ LinkStays(dev, dev')
      BY <2>2, <2>5, StaysLinked
    <3> QED
      BY <1>1, <1>2, <2>2, <3>1, FdrTakesStep
  <2> QED
    BY <2>4, <2>5
<1> QED
  BY <1>3, <1>4

(* A handler leaves epoll. *)
LEMMA FdrPendingRemoveStep == Inv /\ FdrPendingRemove => Inv'
<1> SUFFICES ASSUME Inv, FdrPendingRemove PROVE Inv'
  OBVIOUS
<1> DEFINE p == dev.sock.pend \ {"remove"}
           r == [dev.sock EXCEPT !.pend = p, !.reg = FALSE]
<1>1. /\ Typed /\ InPlace /\ dev \in Devices /\ Settled(dev) /\ dev.sock \in Socks /\ "remove" \in dev.sock.pend
      /\ UNCHANGED <<tasks, batch, taking, job, fdr, firing>>
      /\ job \in [by : Threads \cup {None}, at : Places] /\ (job.at = "no" <=> job = NoJob)
  BY DEF Inv, Typed, Devices, FdrPendingRemove
<1>2. dev' = [dev EXCEPT !.sock = r]
  BY <1>1 DEF FdrPendingRemove, Devices, Socks
<1>3. /\ r \in Socks /\ r.id = dev.sock.id /\ r.conn = dev.sock.conn /\ r.status = dev.sock.status
      /\ r.sending = dev.sock.sending /\ r.queue = dev.sock.queue /\ r.acc = dev.sock.acc /\ r.wire = dev.sock.wire
  BY <1>1 DEF Socks
<1> HIDE DEF r
<1>4. Data(r) = Data(dev.sock)
  BY <1>3 DEF Data
<1>5. dev.sock.id # 0
  BY <1>1, NoSockType DEF Settled
<1>6. dev' \in Devices /\ Settled(dev') /\ LinkStays(dev, dev') /\ dev'.sock = r
  BY <1>1, <1>2, <1>3, <1>5, StaysSettled DEF Settled
<1>7. Queued' = Queued
  BY <1>1 DEF Queued
<1>8. IsFailing'
  <2>1. IsFailing
    BY <1>1, <1>5 DEF Inv, Failing
  <2> QED
    BY <1>1, <1>6, <1>7, <2>1, StillFailing DEF LinkStays
<1>9. Sends'
  BY <1>8 DEF Sends, OnItsWay
<1>10. job' # NoJob => ~taking /\ dev'.sock.status = "Sending" /\ (job = NoJob => tasks' = <<>>)
  BY <1>1, <1>3, <1>6 DEF InPlace
<1> QED
  BY <1>1, <1>3, <1>4, <1>6, <1>8, <1>9, <1>10, OutsideStep

-----------------------------------------------------------------------------
(* The timer, the resolver and the users *)

(* The timer is about to tell. *)
LEMMA TimerFireStep == Inv /\ TimerFire => Inv'
<1> SUFFICES ASSUME Inv, TimerFire PROVE Inv'
  OBVIOUS
<1>1. /\ Typed /\ InPlace /\ dev \in Devices /\ Settled(dev) /\ dev' = [dev EXCEPT !.timer = FALSE] /\ firing' = TRUE
      /\ UNCHANGED <<tasks, batch, taking, job, fdr>>
  BY DEF Inv, Typed, TimerFire
<1>2. /\ dev' \in Devices /\ dev'.sock = dev.sock /\ dev'.st = dev.st /\ dev'.dn = dev.dn /\ dev'.links = dev.links
      /\ dev'.timer = FALSE
  BY <1>1 DEF Devices
<1>3. Settled(dev')
  BY <1>1, <1>2 DEF Settled
<1>4. Queued' = Queued /\ Line' = Line
  BY <1>1 DEF Queued, Line
<1>5. Typed' /\ InPlace'
  BY <1>1, <1>2, <1>3, <1>4 DEF Typed, InPlace
<1>6. \A op : Has(op)' <=> Has(op)
  BY <1>2, <1>4 DEF Has
<1>7. (IsFailing' <=> IsFailing) /\ \A b : Detects(b)' <=> Detects(b)
  BY <1>1, <1>2, <1>6 DEF IsFailing, Detects
<1>8. Known'
  BY <1>1, <1>2, <1>4 DEF Inv, Known, Knows
<1>9. Failing' /\ Sends' /\ SomeoneWillReceive'
  BY <1>1, <1>2, <1>6, <1>7 DEF Inv, Failing, Sends, OnItsWay, SomeoneWillReceive
<1>10. SomeoneWillRetry' /\ SomeoneWillClose'
  BY <1>1, <1>2, <1>4 DEF Inv, SomeoneWillRetry, SomeoneWillClose
<1>11. InOrder'
  BY <1>2, <1>4 DEF Inv, InOrder
<1> QED
  BY <1>5, <1>8, <1>9, <1>10, <1>11 DEF Inv

(* A task is left, or none, and the device is as it was. *)
LEMMA PushStep ==
  ASSUME Inv, UNCHANGED <<dev, batch, taking, job, fdr, firing>>,
         UNCHANGED tasks \/ \E t \in Tasks : Push(t) /\ t.op # "send" /\ Knows(t, dev')
  PROVE  Inv'
<1>1. /\ Typed /\ InPlace /\ dev \in Devices /\ Settled(dev)
      /\ job \in [by : Threads \cup {None}, at : Places] /\ (job.at = "no" <=> job = NoJob)
  BY DEF Inv, Typed
<1>2. \A t \in Queued : t \in Queued'
  BY <1>1, Grows
<1>3. (\A op : Has(op) => Has(op)') /\ (\A b : Detects(b) => Detects(b)')
  BY <1>2 DEF Has, Detects
<1>4. IsFailing => IsFailing'
  BY <1>3 DEF IsFailing
<1>5. Sends'
  BY <1>3, <1>4 DEF Inv, Sends, OnItsWay
<1>6. job' # NoJob => ~taking /\ dev'.sock.status = "Sending" /\ (job = NoJob => tasks' = <<>>)
  BY <1>1 DEF InPlace
<1>7. LinkStays(dev, dev')
  BY StaysLinked
<1> QED
  BY <1>1, <1>3, <1>4, <1>5, <1>6, <1>7, OutsideStep

(* An answer of the resolver, and a command. *)
LEMMA AskStep == Inv /\ (DnAnswer \/ Ask) => Inv'
<1> SUFFICES ASSUME Inv, DnAnswer \/ Ask PROVE Inv'
  OBVIOUS
<1>1. UNCHANGED <<dev, batch, taking, job, fdr, firing>> /\ dev \in Devices
  BY DEF DnAnswer, Ask, Inv, Typed
<1>2. \E t \in Tasks : Push(t) /\ t.op # "send" /\ Knows(t, dev')
  <2>1. CASE DnAnswer
    <3>1. PICK k \in {0, MaxAddrs} : Push(T("dn", dev.dn, k))
      BY <2>1 DEF DnAnswer
    <3> DEFINE t == T("dn", dev.dn, k)
    <3>2. t \in Tasks /\ t.op = "dn" /\ t.id # 0 /\ t.arg \in Nat
      BY <1>1, <2>1, ClientAssumption DEF DnAnswer, Devices, T, Tasks, Ops
    <3>3. Push(t)
      BY <3>1
    <3> HIDE DEF t
    <3>4. Knows(t, dev')
      BY <3>2 DEF Knows, LinkOps
    <3> QED
      BY <3>2, <3>3, <3>4
  <2>2. CASE Ask
    <3>1. PICK op \in {"open", "close", "lclose", "dispose"}, arg \in Configs \cup {None} : Push(T(op, 0, arg))
      BY <2>2 DEF Ask
    <3> DEFINE t == T(op, 0, arg)
    <3>2. t \in Tasks /\ t.op = op /\ t.arg = arg
      BY DEF T, Tasks, Ops
    <3>3. Push(t)
      BY <3>1
    <3> HIDE DEF t
    <3>4. Knows(t, dev')
      BY <3>2 DEF Knows, LinkOps
    <3> QED
      BY <3>2, <3>3, <3>4
  <2> QED
    BY <2>1, <2>2
<1> QED
  BY <1>1, <1>2, PushStep

(* EmitOnCommonTimer: the state it reads is still the one that had the timer
   started, or nobody waits for it. *)
LEMMA TimerEmitStep == Inv /\ TimerEmit => Inv'
<1> SUFFICES ASSUME Inv, TimerEmit PROVE Inv'
  OBVIOUS
<1>1. /\ Typed /\ InPlace /\ dev \in Devices /\ Settled(dev) /\ firing' = FALSE
      /\ UNCHANGED <<dev, batch, taking, job, fdr>>
      /\ tasks \in Seq(Tasks) /\ batch \in Seq(Tasks)
  BY DEF Inv, Typed, TimerEmit
<1> DEFINE reopen == T("reopen", 0, None)
           timeout == T("timeout", 0, None)
<1>2. /\ reopen \in Tasks /\ reopen.op = "reopen" /\ timeout \in Tasks /\ timeout.op = "timeout"
  BY DEF T, Tasks, Ops
<1>3. /\ dev.st \in Reopens => Push(reopen)
      /\ dev.st = "Linking" => Push(timeout)
      /\ UNCHANGED tasks \/ Push(reopen) \/ Push(timeout)
  BY ClientAssumption DEF TimerEmit
<1> HIDE DEF reopen, timeout
<1>4. Knows(reopen, dev') /\ Knows(timeout, dev')
  BY <1>2 DEF Knows, LinkOps
<1>5. UNCHANGED tasks \/ \E t \in Tasks : Push(t) /\ t.op # "send" /\ Knows(t, dev')
  BY <1>2, <1>3, <1>4
<1>6. /\ tasks' \in Seq(Tasks) /\ batch' \in Seq(Tasks)
      /\ \A t \in Queued : t \in Queued'
      /\ \A t \in Queued' : t \in Queued \/ (t.op # "send" /\ Knows(t, dev'))
      /\ \A s \in Socks : InLine(s, Line) => InLine(s, Line')
  BY <1>1, <1>5, Grows
<1>7. (Push(reopen) => reopen \in Queued') /\ (Push(timeout) => timeout \in Queued')
  BY <1>1, <1>2, PushIs
<1>8. Typed' /\ InPlace'
  <2>1. job # NoJob => \A t \in Queued' : t.op # "send"
    BY <1>1, <1>6 DEF InPlace
  <2> QED
    BY <1>1, <1>6, <2>1 DEF Typed, InPlace
<1>9. Known'
  BY <1>1, <1>6 DEF Inv, Known
<1>10. (\A op : Has(op) => Has(op)') /\ (\A b : Detects(b) => Detects(b)')
  BY <1>1, <1>6 DEF Has, Detects
<1>11. IsFailing => IsFailing'
  BY <1>1, <1>10 DEF IsFailing
<1>12. Failing' /\ Sends' /\ SomeoneWillReceive' /\ SomeoneWillClose'
  BY <1>1, <1>6, <1>10, <1>11 DEF Inv, Failing, Sends, OnItsWay, SomeoneWillReceive, SomeoneWillClose
<1>13. SomeoneWillRetry'
  BY <1>1, <1>2, <1>3, <1>7 DEF SomeoneWillRetry
<1>14. InOrder'
  <2>1. dev.sock \in Socks
    BY <1>1 DEF Devices
  <2> QED
    BY <1>1, <1>6, <2>1 DEF Inv, InOrder
<1> QED
  BY <1>8, <1>9, <1>12, <1>13, <1>14 DEF Inv

-----------------------------------------------------------------------------
(* The senders *)

(* A message is accepted: in the buffer, or left to a task. *)
LEMMA AcceptStep ==
  ASSUME Inv, dev.st = "LinkReady", NEW r \in Socks, dev' = [dev EXCEPT !.sock = r],
         r.id = dev.sock.id, r.conn = dev.sock.conn, r.bits = dev.sock.bits, r.reg = dev.sock.reg,
         "remove" \in r.pend => "remove" \in dev.sock.pend,
         "send" \in dev.sock.pend => "send" \in r.pend,
         r.status = "Empty" => r.sending = <<>> /\ r.queue = <<>>,
         UNCHANGED <<batch, taking, fdr, firing>>, tasks' \in Seq(Tasks),
         \A t \in Queued : t \in Queued',
         \A t \in Queued' : t \in Queued \/ Knows(t, dev'),
         job' \in [by : Threads \cup {None}, at : Places], job'.at = "no" <=> job' = NoJob,
         job' # NoJob => ~taking /\ r.status = "Sending" /\ \A t \in Queued' : t.op # "send",
         r.status = "Sending" /\ job'.at \in {"no", "leave"} =>
           "send" \in r.pend \/ (dev.sock.status = "Sending" /\ job.at \in {"no", "leave"}),
         Counts(Data(r)), InLine(r, Line')
  PROVE  Inv'
<1>1. /\ Typed /\ InPlace /\ dev \in Devices /\ Settled(dev) /\ dev.sock.id # 0 /\ CanSend(dev.st)
  BY DEF Inv, Typed, Settled, CanSend
<1>2. dev' \in Devices /\ Settled(dev') /\ LinkStays(dev, dev') /\ dev'.sock = r
  BY <1>1, StaysSettled
<1>3. Typed' /\ InPlace'
  <2>1. CanSend(dev'.st)
    BY <1>1, <1>2 DEF LinkStays
  <2> QED
    BY <1>1, <1>2, <2>1 DEF Typed, InPlace
<1>4. (\A op : Has(op) => Has(op)') /\ (\A b : Detects(b) => Detects(b)')
  BY <1>2 DEF Has, Detects
<1>5. IsFailing => IsFailing'
  BY <1>2, <1>4 DEF IsFailing
<1>6. Sends'
  <2>1. OnItsWay => OnItsWay'
    BY <1>2, <1>4, <1>5 DEF OnItsWay
  <2>2. "send" \in r.pend => OnItsWay'
    BY <1>2 DEF OnItsWay
  <2> QED
    BY <1>2, <2>1, <2>2 DEF Inv, Sends
<1>7. InOrder'
  BY <1>2 DEF InOrder
<1> QED
  BY <1>2, <1>3, <1>4, <1>5, <1>6, <1>7, LinkStep

(* DeviceStartSend. *)
LEMMA StartSendStep ==
  ASSUME Inv, NEW t \in Threads, NEW isASAP \in BOOLEAN, Send(t, isASAP)
  PROVE  Inv'
<1> DEFINE a == dev.sock.acc + 1
<1>1. /\ Typed /\ InPlace /\ Known /\ dev \in Devices /\ Settled(dev) /\ dev.sock \in Socks /\ dev.st = "LinkReady"
      /\ tasks \in Seq(Tasks) /\ batch \in Seq(Tasks) /\ dev.links \in Nat
      /\ job \in [by : Threads \cup {None}, at : Places] /\ (job.at = "no" <=> job = NoJob)
      /\ UNCHANGED <<batch, taking, fdr, firing>>
  BY DEF Inv, Typed, Devices, Send
<1>2. /\ dev.sock.sending \in Seq(Nat) /\ dev.sock.queue \in Seq(Nat) /\ dev.sock.wire \in Seq(Nat)
      /\ Data(dev.sock) \in Seq(Nat) /\ dev.sock.acc \in Nat /\ a \in Nat
      /\ dev.sock.pend \in SUBSET {"send", "remove"} /\ dev.sock.id # 0 /\ dev.sock.id \in Nat
  <2>1. dev.sock.id # 0
    BY <1>1 DEF Settled, CanSend
  <2>2. /\ dev.sock.sending \in Seq(Nat) /\ dev.sock.queue \in Seq(Nat) /\ dev.sock.wire \in Seq(Nat)
        /\ dev.sock.pend \in SUBSET {"send", "remove"}
    BY <1>1 DEF Socks
  <2> QED
    BY <1>1, <2>1, <2>2, DataType
<1>3. Counts(Data(dev.sock)) /\ InLine(dev.sock, Line) /\ Line \in Seq(Tasks)
  BY <1>1 DEF Inv, InOrder, Line
<1>4. CASE NoQueue /\ job = NoJob /\ dev.sock.status = "Empty"
  <2> DEFINE p == IF isASAP THEN dev.sock.pend ELSE dev.sock.pend \cup {"send"}
             r == [dev.sock EXCEPT !.acc = a, !.status = "Sending", !.sending = <<a>>, !.pend = p]
             j == [by |-> t, at |-> IF isASAP THEN "writing" ELSE "leave"]
  <2>1. dev' = [dev EXCEPT !.sock = r] /\ job' = j /\ UNCHANGED tasks
    BY <1>1, <1>4 DEF Send, Devices, Socks
  <2>2. /\ p \in SUBSET {"send", "remove"} /\ <<a>> \in Seq(Nat)
        /\ "remove" \in p => "remove" \in dev.sock.pend
        /\ "send" \in dev.sock.pend => "send" \in p
        /\ ~isASAP => "send" \in p
    BY <1>2
  <2> HIDE DEF p
  <2>3. /\ r \in Socks /\ r.id = dev.sock.id /\ r.conn = dev.sock.conn /\ r.status = "Sending"
        /\ r.sending = <<a>> /\ r.queue = dev.sock.queue /\ r.acc = a /\ r.wire = dev.sock.wire
        /\ r.bits = dev.sock.bits /\ r.reg = dev.sock.reg /\ r.pend = p
    BY <1>1, <1>2, <2>2 DEF Socks
  <2>4. /\ j \in [by : Threads \cup {None}, at : Places] /\ (j.at = "no" <=> j = NoJob) /\ j # NoJob
        /\ j.at = "leave" => ~isASAP
        /\ j.at # "no"
    BY DEF Places, NoJob
  <2> HIDE DEF r, j
  <2>5. dev.sock.sending = <<>> /\ dev.sock.queue = <<>> /\ batch = <<>> /\ tasks = <<>> /\ ~taking
    BY <1>1, <1>4 DEF Settled, InPlace, NoQueue
  <2>6. Data(dev.sock) = dev.sock.wire
    <3>1. dev.sock.wire \o <<>> = dev.sock.wire
      BY <1>2, ConcatEmptySeq
    <3> QED
      BY <2>5, <3>1 DEF Data
  <2>7. Data(r) = Append(Data(dev.sock), a)
    <3>1. dev.sock.wire \o <<a>> = Append(dev.sock.wire, a) /\ Append(dev.sock.wire, a) \in Seq(Nat)
      BY <1>2, AppendAssoc
    <3>2. Append(dev.sock.wire, a) \o <<>> = Append(dev.sock.wire, a)
      BY <3>1, ConcatEmptySeq
    <3> QED
      BY <2>3, <2>5, <2>6, <3>1, <3>2 DEF Data
  <2>8. Live(dev.sock, Line) = {} /\ Queued = {}
    <3>1. Queued = {}
      BY <1>1, <2>5, Elements DEF Queued
    <3> QED
      BY <1>1, <3>1, InTheLine DEF Live
  <2>9. Len(Data(dev.sock)) = dev.sock.acc /\ InLine(r, Line)
    BY <1>1, <1>3, <2>3, <2>7, <2>8, SentAtOnce
  <2>10. Counts(Data(r))
    BY <1>2, <1>3, <2>7, <2>9, OneMore
  <2>11. Queued' = Queued /\ Line' = Line
    BY <1>1, <2>1 DEF Queued, Line
  <2> QED
    BY <1>1, <2>1, <2>2, <2>3, <2>4, <2>5, <2>8, <2>9, <2>10, <2>11, AcceptStep
<1>5. CASE (NoQueue /\ job = NoJob /\ dev.sock.status = "Sending") \/ job # NoJob
  <2> DEFINE q == Append(dev.sock.queue, a)
             r == [dev.sock EXCEPT !.acc = a, !.queue = q]
  <2>1. dev.sock.status = "Sending"
    BY <1>1, <1>5 DEF InPlace
  <2>2. dev' = [dev EXCEPT !.sock = r] /\ UNCHANGED <<job, tasks>>
    BY <1>1, <1>5, <2>1 DEF Send, Devices, Socks
  <2>3. q \in Seq(Nat)
    BY <1>2
  <2> HIDE DEF q
  <2>4. /\ r \in Socks /\ r.id = dev.sock.id /\ r.conn = dev.sock.conn /\ r.status = "Sending"
        /\ r.sending = dev.sock.sending /\ r.queue = q /\ r.acc = a /\ r.wire = dev.sock.wire
        /\ r.bits = dev.sock.bits /\ r.reg = dev.sock.reg /\ r.pend = dev.sock.pend
    BY <1>1, <1>2, <2>1, <2>3 DEF Socks
  <2> HIDE DEF r
  <2>5. Data(r) = Append(Data(dev.sock), a)
    <3> DEFINE b == dev.sock.wire \o dev.sock.sending
    <3>1. b \in Seq(Nat)
      BY <1>2, ConcatProperties
    <3>2. Append(b \o dev.sock.queue, a) = b \o Append(dev.sock.queue, a)
      BY <1>2, <3>1, AppendAssoc
    <3> QED
      BY <2>4, <3>2 DEF Data, q
  <2>6. \A u \in Queued : u.op # "send"
    <3>1. CASE job # NoJob
      BY <1>1, <3>1 DEF InPlace
    <3>2. CASE NoQueue
      <4>1. batch = <<>> /\ tasks = <<>>
        BY <1>1, <3>2 DEF NoQueue, InPlace
      <4> QED
        BY <1>1, <4>1, Elements DEF Queued
    <3> QED
      BY <1>5, <3>1, <3>2
  <2>7. Live(dev.sock, Line) = {}
    BY <1>1, <2>6, InTheLine DEF Live
  <2>8. Len(Data(dev.sock)) = dev.sock.acc /\ InLine(r, Line)
    BY <1>1, <1>3, <2>4, <2>5, <2>7, SentAtOnce
  <2>9. Counts(Data(r))
    BY <1>2, <1>3, <2>5, <2>8, OneMore
  <2>10. Queued' = Queued /\ Line' = Line
    BY <1>1, <2>2 DEF Queued, Line
  <2>11. job # NoJob => ~taking
    BY <1>1 DEF InPlace
  <2> QED
    BY <1>1, <2>1, <2>2, <2>4, <2>6, <2>8, <2>9, <2>10, <2>11, AcceptStep
<1>6. CASE ~NoQueue /\ job = NoJob
  <2> DEFINE r == [dev.sock EXCEPT !.acc = a]
             u == T("send", dev.sock.id, a)
  <2>1. dev' = [dev EXCEPT !.sock = r] /\ Push(u) /\ UNCHANGED job
    BY <1>1, <1>6 DEF Send, Devices, Socks
  <2>2. /\ r \in Socks /\ r.id = dev.sock.id /\ r.conn = dev.sock.conn /\ r.status = dev.sock.status
        /\ r.sending = dev.sock.sending /\ r.queue = dev.sock.queue /\ r.acc = a /\ r.wire = dev.sock.wire
        /\ r.bits = dev.sock.bits /\ r.reg = dev.sock.reg /\ r.pend = dev.sock.pend
    BY <1>1, <1>2 DEF Socks
  <2>3. u \in Tasks /\ u.op = "send" /\ u.id = dev.sock.id /\ u.arg = a
    BY <1>2 DEF T, Tasks, Ops
  <2> HIDE DEF r, u
  <2>4. Data(r) = Data(dev.sock)
    BY <2>2 DEF Data
  <2>5. /\ tasks' \in Seq(Tasks) /\ Queued' = Queued \cup {u} /\ Line' = Append(Line, u)
    BY <1>1, <2>1, <2>3, PushIs
  <2>6. InLine(r, Line')
    BY <1>1, <1>3, <2>2, <2>3, <2>4, <2>5, PushSend
  <2>7. Knows(u, dev')
    <3>1. dev'.links = dev.links /\ dev.sock.id \in 1 .. dev.links
      BY <1>1, <1>2, <2>1, <2>2, SockIs DEF Settled
    <3> QED
      BY <1>2, <2>3, <3>1 DEF Knows, LinkOps
  <2>8. dev.sock.status = "Empty" => dev.sock.sending = <<>> /\ dev.sock.queue = <<>>
    BY <1>1 DEF Settled
  <2> HIDE DEF a
  <2> QED
    BY <1>1, <1>3, <1>6, <2>1, <2>2, <2>4, <2>5, <2>6, <2>7, <2>8, AcceptStep
<1>7. dev.sock.status \in {"Empty", "Sending"}
  BY <1>1 DEF Socks
<1> QED
  BY <1>4, <1>5, <1>6, <1>7

-----------------------------------------------------------------------------
(* The theorems *)

(* One step of whoever it is. *)
LEMMA Step == Inv /\ [Next]_vars => Inv'
<1> SUFFICES ASSUME Inv, [Next]_vars PROVE Inv'
  OBVIOUS
<1>1. CASE OpTask
  BY <1>1, OpenStep, CloseStep, ReopenStep, TimeoutStep, DnQueryDoneStep, ConnectedStep, ErrorStep, RecvStep,
     SendStep, ContinueSendStep DEF OpTask
<1>2. CASE JobStep
  BY <1>2, JobWriteStep, JobWriteErrorStep, JobCheckStep, JobLeaveStep DEF JobStep
<1>3. CASE \E t \in Senders \cup {Fdr}, isASAP \in BOOLEAN : Send(t, isASAP)
  BY <1>3, StartSendStep DEF Threads
<1>4. CASE FdrPendingSend \/ FdrPendingRemove \/ \E ev \in {"read", "write", "error"} : FdrEvent(ev)
  BY <1>4, FdrEventStep, FdrPendingRemoveStep
<1>5. CASE FdrHandle
  BY <1>5, FdrConnectedStep, FdrContinueSendStep, FdrRecvStep, FdrEndStep DEF FdrHandle
<1>6. CASE UNCHANGED vars
  <2>1. dev \in Devices
    BY DEF Inv, Typed
  <2> QED
    BY <1>6, <2>1, PushStep DEF vars
<1> QED
  BY <1>1, <1>2, <1>3, <1>4, <1>5, <1>6, TakeStep, TimerFireStep, TimerEmitStep, AskStep DEF Next

(* The threads of a device find what they rely on, in whatever order they come:
   the types of its state, and what lies between the threads. *)
THEOREM ClientInvariant == Spec => []Inv
BY InitInv, Step, PTL DEF Spec

(* What was written is a part of the data of the link, from its first message on. *)
LEMMA WrittenInOrder == Inv => SentOnItsSocket
<1> SUFFICES ASSUME Inv PROVE SentOnItsSocket
  OBVIOUS
<1> DEFINE w == dev.sock.wire
           rest == dev.sock.sending \o dev.sock.queue
<1>1. /\ Settled(dev) /\ dev.sock \in Socks /\ Counts(Data(dev.sock))
  BY DEF Inv, Typed, Devices, InOrder
<1>2. w \in Seq(Nat) /\ dev.sock.sending \in Seq(Nat) /\ dev.sock.queue \in Seq(Nat) /\ rest \in Seq(Nat)
  BY <1>1, ConcatProperties DEF Socks
<1>3. Data(dev.sock) = w \o rest
  BY <1>2, Assoc DEF Data
<1> HIDE DEF w, rest
<1>4. \A i \in 1 .. Len(w) : (w \o rest)[i] = w[i] /\ i \in 1 .. Len(w \o rest)
  BY <1>2
<1>5. \A i \in 1 .. Len(w) : w[i] = i
  BY <1>1, <1>3, <1>4 DEF Counts
<1>6. w = [i \in 1 .. Len(w) |-> i]
  <2>1. w = [i \in 1 .. Len(w) |-> w[i]]
    BY <1>2
  <2> QED
    BY <1>5, <2>1
<1>7. SocketMatchesState
  BY <1>1 DEF SocketMatchesState, Settled
<1> QED
  BY <1>6, <1>7 DEF SentOnItsSocket, SentInOrder, w

(* The data of a link leaves it in the order in which it was accepted, each
   message once, and the device has a socket exactly while it links or is
   linked (DeviceStartSend, Sendv, OpImpl_CheckSendQueue, OpImpl_StateChanged). *)
THEOREM SentInItsOrder == Spec => []SentOnItsSocket
BY ClientInvariant, WrittenInOrder, PTL

(* Of a buffer that is empty nobody has to care, and Sends says the rest. *)
LEMMA NobodyForgets == Inv => SomeoneGoesOn
<1> SUFFICES ASSUME Inv PROVE SomeoneGoesOn
  OBVIOUS
<1>1. /\ Settled(dev) /\ InPlace /\ Sends
      /\ SomeoneWillReceive /\ SomeoneWillRetry /\ SomeoneWillClose
      /\ (job.at = "no" <=> job = NoJob)
  BY DEF Inv, Typed
<1>2. dev.sock.status = "Empty" => dev.sock.sending = <<>> /\ dev.sock.queue = <<>> /\ job = NoJob
  BY <1>1 DEF Settled, InPlace
<1>3. SomeoneWillSend
  BY <1>1, <1>2 DEF SomeoneWillSend, Sends, OnItsWay
<1> QED
  BY <1>1, <1>3 DEF SomeoneGoesOn

(* Nothing is left to nobody: what is in the buffer, what is to be received, a
   broken link, a device that lingers (DeviceContinueSend,
   DeviceRecvBufferReady, EmitOnCommonTimer, OpThr_CheckLingerClose). *)
THEOREM SomeoneAlwaysGoesOn == Spec => []SomeoneGoesOn
BY ClientInvariant, NobodyForgets, PTL

(* Whatever comes to a disposed device, it stays disposed. *)
LEMMA StaysDisposed ==
  ASSUME Inv, Next, dev.st = "Disposing"
  PROVE  dev'.st = "Disposing"
<1>1. /\ dev \in Devices /\ Settled(dev) /\ InPlace /\ Known /\ tasks \in Seq(Tasks) /\ batch \in Seq(Tasks)
      /\ (job.at = "no" <=> job = NoJob)
  BY DEF Inv, Typed
<1>2. dev.sock.id = 0 /\ dev.dn = 0 /\ job = NoJob /\ dev.st \notin Reopens /\ ~CanSend(dev.st)
  BY <1>1, ClientAssumption DEF Settled, InPlace, CanSend
<1>3. ASSUME NEW op \in {"error", "dn"}, Task(op) PROVE Link # 0
  <2>1. Head(batch).op = op /\ Head(batch) \in Queued
    BY <1>1, <1>3, TaskIs
  <2> QED
    BY <1>1, <2>1 DEF Known, Knows, LinkOps, Link
<1>4. CASE OpOpen \/ OpReopen \/ OpTimeout \/ OpDnQueryDone \/ OpConnected \/ OpError
  <2>1. OpDnQueryDone => dev' = dev
    BY <1>2, <1>3 DEF OpDnQueryDone
  <2>2. OpError => dev' = dev
    BY <1>2, <1>3 DEF OpError, IsAlive
  <2> QED
    BY <1>2, <1>4, <2>1, <2>2 DEF OpOpen, OpReopen, OpTimeout, OpConnected
<1>5. CASE OpClose \/ OpLingerClose \/ OpCheckLingerClose
  BY <1>5 DEF OpClose, OpLingerClose, OpCheckLingerClose, OpThr_Close, OpThr_LingerClose, OpThr_CheckLingerClose
<1>6. CASE OpDispose
  <2>1. dev' = SetState(dev, dev.st)
    BY <1>6 DEF OpDispose, OpThr_Close
  <2>2. dev' = [dev EXCEPT !.timer = @ \/ dev.st \in Reopens]
    BY <1>1, <2>1, SameState
  <2> QED
    BY <1>1, <2>2 DEF Devices
<1>7. CASE OpRecv \/ OpSend \/ OpContinueSend
  BY <1>2, <1>7 DEF OpRecv, OpSend, OpContinueSend
<1>8. CASE JobStep
  BY <1>1, <1>2, <1>8 DEF JobStep, JobWrite, JobWriteError, JobCheckSendQueueEmpty, JobLeave
<1>9. CASE \E t \in Senders \cup {Fdr}, isASAP \in BOOLEAN : Send(t, isASAP)
  BY <1>9 DEF Send
<1>10. CASE FdrPendingSend \/ FdrPendingRemove \/ \E ev \in {"read", "write", "error"} : FdrEvent(ev)
  BY <1>1, <1>10 DEF FdrPendingSend, FdrPendingRemove, FdrEvent, Devices
<1>11. CASE FdrHandle
  BY <1>1, <1>2, <1>11
  DEF FdrHandle, FdrConnected, FdrContinueSend, FdrRecv, FdrRecvEnd, FdrSocketError, SocketError, Devices
<1>12. CASE OpTake \/ OpEnd \/ TimerFire \/ TimerEmit \/ DnAnswer \/ Ask
  BY <1>1, <1>12 DEF OpTake, OpEnd, TimerFire, TimerEmit, DnAnswer, Ask, Devices
<1> QED
  BY <1>4, <1>5, <1>6, <1>7, <1>8, <1>9, <1>10, <1>11, <1>12 DEF Next, OpTask

(* A device that stays disposed has nothing: it is between two tasks. *)
LEMMA NothingComesBack ==
  Inv /\ Inv' /\ [Next]_vars =>
    [dev.st = "Disposing" => /\ dev'.st = "Disposing" /\ dev'.sock = NoSock
                             /\ dev'.dn = 0 /\ ~dev'.timer]_vars
<1> SUFFICES ASSUME Inv, Inv', Next, dev.st = "Disposing"
             PROVE  /\ dev'.st = "Disposing" /\ dev'.sock = NoSock
                    /\ dev'.dn = 0 /\ ~dev'.timer
  OBVIOUS
<1>1. dev'.st = "Disposing"
  BY StaysDisposed
<1>2. Settled(dev')
  BY DEF Inv, Typed
<1> QED
  BY <1>1, <1>2 DEF Settled

(* A disposed device stays as it is: no task that was left behind, no answer and
   no timer gives it a socket, a query or a retry again (OpThr_Dispose). *)
THEOREM StaysDisposedForGood == Spec => DisposedForGood
<1>1. Inv /\ Inv' /\ [Next]_vars =>
        [dev.st = "Disposing" => /\ dev'.st = "Disposing" /\ dev'.sock = NoSock
                                 /\ dev'.dn = 0 /\ ~dev'.timer]_vars
  BY NothingComesBack
<1> QED
  BY <1>1, ClientInvariant, PTL DEF Spec, DisposedForGood
=============================================================================
