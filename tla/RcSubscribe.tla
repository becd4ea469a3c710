----------------------------- MODULE RcSubscribe -----------------------------
(***************************************************************************)
(* Subscriptions over an rc session: the client's table of indices         *)
(* (RcSvcReqSubr.cpp, RcSvcAck.cpp, RcSeedVisitorClient.cpp), the server's *)
(* list of them (RcSeedVisitorServer.cpp, RcSvsTicket.cpp), and the seeds  *)
(* that notify whoever subscribed to them.                                 *)
(*                                                                         *)
(* A subscription has an index that the client picks and uses again. The   *)
(* server looks for the tree in whatever thread, the seeds notify in       *)
(* theirs, and either side may give the subscription up meanwhile.         *)
(***************************************************************************)
EXTENDS Integers, Sequences, FiniteSets, SequencesExt

CONSTANTS
  Keys,         \* the seeds of one tree
  BadTab,       \* subscribed with a tab that the tree does not have
  MaxSubrCount, \* 0: any number
  Skip,         \* how far an index may be beyond the end of the server's list (100)
  MaxAsks,      \* bound: calls of f9sv_Subscribe
  MaxData,      \* bound: changes of seeds
  MaxBreaks,    \* bound: broken links
  Readded,      \* a seed may come back while the server has a subscription of the removed one
  MaxOthers     \* bound: subscriptions of another session to a seed

VARIABLES
  cUp,      \* the client's session is ApReady
  layout,   \* the client knows the tree's layout
  pend,     \* PendingReqs_ of the tree: the first was sent, the others wait for the layout
  objs,     \* SubrMap_: what each index is used for
  free,     \* its FreeIndex_
  seedIdx,  \* SubrIndex_ of the seeds
  asked,    \* how many subscriptions were asked for: their number
  c2s, s2c, \* what is under way
  sUp,      \* the server's session
  since,    \* subscriptions up to this one were asked for on an earlier link
  list,     \* SubrList_
  left,     \* the list that OnSessionLinkBroken has moved out
  regs,     \* RcSvsSubr of each subscription
  runners,  \* RcSvsSubscribeRunner that look for the tree
  unsubs,   \* RcSvsUnsubRunnerSP that look for the tree
  resets,   \* those that have taken the subscription out of the list
  subjs,    \* the subscribers of each seed: SubConn and subscription, 0 for the other session
  gone,     \* seeds that were removed
  treeOk,   \* the tree is there and may be read
  others,   \* how many subscriptions the other session has
  changes, breaks,
  kicked    \* the server has called ForceLogout

clientVars == <<cUp, layout, pend, objs, free, seedIdx, asked>>
serverVars == <<sUp, since, list, left, regs, runners, unsubs, resets, kicked>>
seedVars == <<subjs, gone, treeOk, others, changes>>
subscrVars == <<clientVars, c2s, s2c, serverVars, seedVars, breaks>>

Free == [fn |-> "none", key |-> CHOOSE k \in Keys : TRUE, n |-> 0, live |-> FALSE]
NoReg == [idx |-> 0, key |-> CHOOSE k \in Keys : TRUE, fn |-> "none", tree |-> FALSE, closed |-> FALSE, conn |-> 0]

Init ==
  /\ cUp = TRUE /\ layout = FALSE /\ pend = <<>> /\ objs = <<>> /\ free = <<>>
  /\ seedIdx = [k \in Keys |-> 0] /\ asked = 0 /\ c2s = <<>> /\ s2c = <<>>
  /\ sUp = TRUE /\ since = 0 /\ list = <<>> /\ left = {} /\ regs = [n \in 1..MaxAsks |-> NoReg]
  /\ runners = {} /\ unsubs = {} /\ resets = {} /\ kicked = FALSE
  /\ subjs = [k \in Keys |-> <<>>] /\ gone = {} /\ treeOk \in BOOLEAN
  /\ others = [k \in Keys |-> 0] /\ changes = 0 /\ breaks = 0

-----------------------------------------------------------------------------
(* The client *)

(* SubrMap_.Alloc: the index that was freed last, or a new one. *)
NextIdx == IF free = <<>> THEN Len(objs) + 1 ELSE Last(free)
Alloc(k, n) ==
  LET rec == [fn |-> "sub", key |-> k, n |-> n, live |-> FALSE]
  IN IF free = <<>> THEN objs' = Append(objs, rec) /\ UNCHANGED free
     ELSE objs' = [objs EXCEPT ![NextIdx] = rec] /\ free' = Front(free)
IsFull == MaxSubrCount > 0 /\ Len(objs) - Len(free) >= MaxSubrCount

(* RemoveObjPtr and ClearSvFuncSubr. *)
FreeIdx(i) == objs' = [objs EXCEPT ![i] = Free] /\ free' = Append(free, i)

IsReady == layout /\ pend = <<>>
PendingOf(k) == {j \in DOMAIN pend : pend[j].kind = "sub" /\ pend[j].key = k}
SubMsg(i, k, n, lay) == [t |-> "sub", idx |-> i, key |-> k, n |-> n, layout |-> lay]
Msg(t, i, n) == [t |-> t, idx |-> i, n |-> n]

(* f9sv_Subscribe: one more request for the same seed is refused in place.  The API is
   called by one thread. *)
Subscribe(k) ==
  /\ cUp /\ asked < MaxAsks /\ ~IsFull
  /\ IF IsReady
     THEN /\ k \notin BadTab /\ seedIdx[k] = 0
          /\ seedIdx' = [seedIdx EXCEPT ![k] = NextIdx]
          /\ c2s' = Append(c2s, SubMsg(NextIdx, k, asked + 1, FALSE)) /\ UNCHANGED pend
     ELSE /\ PendingOf(k) = {}
          /\ pend' = Append(pend, [kind |-> "sub", key |-> k, idx |-> NextIdx])
          /\ c2s' = IF pend = <<>> THEN Append(c2s, SubMsg(NextIdx, k, asked + 1, TRUE)) ELSE c2s
          /\ UNCHANGED seedIdx
  /\ Alloc(k, asked + 1) /\ asked' = asked + 1
  /\ UNCHANGED <<cUp, layout, s2c, serverVars, seedVars, breaks>>

(* A query is what asks for the layout first: the subscriptions wait. *)
Query ==
  /\ cUp = TRUE /\ layout = FALSE /\ pend = <<>> /\ asked = 0
  /\ pend' = <<[kind |-> "query", key |-> CHOOSE k \in Keys : TRUE, idx |-> 0]>>
  /\ c2s' = Append(c2s, Msg("query", 0, 0))
  /\ UNCHANGED <<cUp, layout, objs, free, seedIdx, asked, s2c, serverVars, seedVars, breaks>>

SendUnsubscribe(i) ==
  /\ objs[i].fn = "sub" /\ objs' = [objs EXCEPT ![i].fn = "unsub"]
  /\ c2s' = Append(c2s, Msg("unsub", i, objs[i].n))

(* f9sv_Unsubscribe of one that was sent, its answer known or not. *)
Unsubscribe(k) ==
  /\ cUp
  /\ \/ IsReady /\ seedIdx[k] # 0 /\ SendUnsubscribe(seedIdx[k])
     \/ ~IsReady /\ 1 \in PendingOf(k) /\ SendUnsubscribe(pend[1].idx)
  /\ UNCHANGED <<cUp, layout, pend, free, seedIdx, asked, s2c, serverVars, seedVars, breaks>>

(* f9sv_Unsubscribe of one that waits for the layout: it is just taken out. *)
UnsubscribePending(k) ==
  /\ cUp /\ ~IsReady
  /\ \E j \in PendingOf(k) \ {1} : pend' = RemoveAt(pend, j) /\ FreeIdx(pend[j].idx)
  /\ UNCHANGED <<cUp, layout, seedIdx, asked, c2s, s2c, serverVars, seedVars, breaks>>

-----------------------------------------------------------------------------
(* What the client receives *)

Received(t) == cUp /\ s2c # <<>> /\ Head(s2c).t = t /\ s2c' = Tail(s2c)

(* RcSvcTreeRejector: everything of the tree is told that it failed. *)
Indices(S) == SetToSeq(S)
RejectTree ==
  LET mine == SelectSeq([j \in DOMAIN pend |-> pend[j].idx], LAMBDA i : i # 0)
                \o Indices({seedIdx[k] : k \in Keys} \ {0})
  IN /\ pend' = <<>> /\ seedIdx' = [k \in Keys |-> 0] /\ free' = free \o mine
     /\ objs' = [i \in DOMAIN objs |-> IF i \in ToSet(mine) THEN Free ELSE objs[i]]
     /\ UNCHANGED c2s

(* RunPendingReqs: with the layout known, the first is in its seed and the others
   are sent; a tab that is not there is told, and keeps its index. *)
Waiting == SelectSeq(Tail(pend), LAMBDA r : r.key \notin BadTab)
SeedsAfter(first) ==
  [k \in Keys |-> LET js == {j \in DOMAIN Waiting : Waiting[j].key = k}
                  IN IF js # {} THEN Waiting[CHOOSE j \in js : TRUE].idx
                     ELSE IF k \in first THEN pend[1].idx ELSE seedIdx[k]]
SendWaiting == c2s' = c2s \o [j \in DOMAIN Waiting |-> SubMsg(Waiting[j].idx, Waiting[j].key, objs[Waiting[j].idx].n, FALSE)]

(* RcSvcAckSubscribe, with an error that takes the subscription away, or not. *)
Answered(i, m) ==
  IF m.res = "ok" THEN objs' = [objs EXCEPT ![i].live = TRUE] /\ UNCHANGED free ELSE FreeIdx(i)
Without(f, i) == [k \in Keys |-> IF f[k] = i THEN 0 ELSE f[k]]

RecvSubscribeAck ==
  /\ Received("suback")
  /\ LET m == Head(s2c) IN
     IF m.res = "notree" THEN RejectTree /\ UNCHANGED layout
     ELSE LET first == IF pend # <<>> /\ m.res # "notab" THEN {m.key} ELSE {}
              seeds == IF pend = <<>> THEN seedIdx ELSE SeedsAfter(first)
          IN /\ layout' = (layout \/ m.layout) /\ pend' = <<>> /\ Answered(m.idx, m)
             /\ IF pend = <<>> THEN UNCHANGED c2s ELSE SendWaiting
             /\ seedIdx' = IF m.res = "ok" THEN seeds ELSE Without(seeds, m.idx)
  /\ UNCHANGED <<cUp, asked, serverVars, seedVars, breaks>>

RecvQueryAck ==
  /\ Received("queryack")
  /\ IF Head(s2c).res = "notree" THEN RejectTree /\ UNCHANGED layout
     ELSE /\ layout' = TRUE /\ pend' = <<>> /\ seedIdx' = SeedsAfter({}) /\ SendWaiting
          /\ UNCHANGED <<objs, free>>
  /\ UNCHANGED <<cUp, asked, serverVars, seedVars, breaks>>

(* OnRecvSubrData: told to whoever has the index now. *)
RecvSubrData ==
  /\ Received("data")
  /\ UNCHANGED <<clientVars, c2s, serverVars, seedVars, breaks>>

(* The end of the subscription, by the seed or by the server's answer: the index
   may be used again (RxSubrData::RemoveSubscribe, OnRecvUnsubrAck). *)
RecvEnd ==
  /\ Received("end") \/ Received("unsuback")
  /\ LET i == Head(s2c).idx IN
     IF i \notin DOMAIN objs THEN UNCHANGED <<objs, free, seedIdx>>
     ELSE FreeIdx(i) /\ seedIdx' = Without(seedIdx, i)
  /\ UNCHANGED <<cUp, layout, pend, asked, c2s, serverVars, seedVars, breaks>>

-----------------------------------------------------------------------------
(* The server *)

IsMine(n) == n > since /\ sUp
Ack(m) == s2c' = IF cUp THEN Append(s2c, m) ELSE s2c
Asked(t) == sUp /\ c2s # <<>> /\ Head(c2s).t = t /\ c2s' = Tail(c2s)

RecvQuery ==
  /\ Asked("query")
  /\ Ack([t |-> "queryack", res |-> IF treeOk THEN "ok" ELSE "notree"])
  /\ UNCHANGED <<clientVars, serverVars, seedVars, breaks>>

Resized(i) == IF i <= Len(list) THEN list ELSE [j \in 1..i |-> IF j <= Len(list) THEN list[j] ELSE 0]
TooFar(i) == IF MaxSubrCount > 0 THEN i > MaxSubrCount ELSE i - 1 > Len(list) + Skip
(* Mutant: a subscription the seed has ended keeps its index. *)
TakenAny(i) == i <= Len(list) /\ list[i] # 0

(* An index may be used again when the seed has told the end, asked to unsubscribe or not. *)
Taken(i) == i <= Len(list) /\ list[i] # 0 /\ ~regs[list[i]].closed

(* OnRecvFunctionCall, Subscribe: the list gets a new RcSvsSubr, and a runner looks
   for its tree. *)
RecvSubscribe ==
  /\ Asked("sub")
  /\ LET m == Head(c2s) IN
     IF TooFar(m.idx) \/ Taken(m.idx)
     THEN kicked' = TRUE /\ UNCHANGED <<list, regs, runners>>
     ELSE /\ list' = [Resized(m.idx) EXCEPT ![m.idx] = m.n]
          /\ regs' = [regs EXCEPT ![m.n] = [NoReg EXCEPT !.idx = m.idx, !.key = m.key, !.fn = "sub"]]
          /\ runners' = runners \cup {<<m.n, m.layout>>} /\ UNCHANGED kicked
  /\ UNCHANGED <<clientVars, s2c, sUp, since, left, unsubs, resets, seedVars, breaks>>

(* OnRecvUnsubscribe: one that is not there (any more) is not answered; one whose tree
   is not found yet is left to the runner. *)
RecvUnsubscribe ==
  /\ Asked("unsub")
  /\ LET i == Head(c2s).idx IN
     IF i > Len(list) \/ list[i] = 0 \/ regs[list[i]].fn # "sub" THEN UNCHANGED <<regs, unsubs>>
     ELSE /\ regs' = [regs EXCEPT ![list[i]].fn = "unsub"]
          /\ unsubs' = IF regs[list[i]].tree THEN unsubs \cup {<<list[i], "asked">>} ELSE unsubs
  /\ UNCHANGED <<clientVars, s2c, sUp, since, list, left, runners, resets, kicked, seedVars, breaks>>

(* SubrMap::emplace_back: one more than the last one has, or the first. *)
NextConn(k) == IF subjs[k] = <<>> THEN 1 ELSE Last(subjs[k])[1] + 1

(* Mutant: unsubscribed while the tree is looked for, it is subscribed all the same. *)
OutcomeLate(n) ==
  IF ~treeOk THEN "notree" ELSE IF regs[n].key \in BadTab THEN "notab"
  ELSE IF regs[n].key \in gone THEN "error" ELSE "ok"

(* RcSvsSubscribeRunner, when the tree is found, or not: under the lock of the list it
   subscribes and answers. *)
Outcome(n) ==
  IF ~treeOk THEN "notree"
  ELSE IF regs[n].key \in BadTab THEN "notab"
  ELSE IF regs[n].fn = "unsub" \/ regs[n].key \in gone THEN "error"
  ELSE "ok"

RunSubscribe(r) ==
  LET n == r[1]
      res == Outcome(n)
  IN
  /\ r \in runners /\ runners' = runners \ {r}
  /\ IF ~IsMine(n) THEN UNCHANGED <<s2c, list, regs, subjs>>
     ELSE /\ Ack([t |-> "suback", idx |-> regs[n].idx, key |-> regs[n].key, n |-> n, res |-> res,
                  layout |-> r[2] /\ res # "notree"])
          /\ IF res = "ok"
             THEN /\ regs' = [regs EXCEPT ![n].tree = TRUE, ![n].conn = NextConn(regs[n].key)]
                  /\ subjs' = [subjs EXCEPT ![regs[n].key] = Append(@, <<NextConn(regs[n].key), n>>)]
                  /\ UNCHANGED list
             ELSE list' = [list EXCEPT ![regs[n].idx] = 0] /\ UNCHANGED <<regs, subjs>>
  /\ UNCHANGED <<clientVars, c2s, sUp, since, left, unsubs, resets, kicked, gone, treeOk, others, changes, breaks>>

(* Mutant: the SubConn is kept. *)
UnsubscribeSubjectAgain(n) ==
  /\ regs' = regs
  /\ subjs' = IF regs[n].key \in gone THEN subjs
              ELSE [subjs EXCEPT ![regs[n].key] = SelectSeq(@, LAMBDA s : s[1] # regs[n].conn)]

(* Subject::Unsubscribe with the SubConn that was kept, once. *)
UnsubscribeSubject(n) ==
  /\ regs' = [regs EXCEPT ![n].conn = 0]
  /\ subjs' = IF regs[n].key \in gone \/ regs[n].conn = 0 THEN subjs
              ELSE [subjs EXCEPT ![regs[n].key] = SelectSeq(@, LAMBDA s : s[1] # regs[n].conn)]

(* RcSvsUnsubRunnerSP::Unsubscribe: first out of the list ... *)
UnsubReset(o) ==
  LET n == o[1] IN
  /\ o \in unsubs /\ unsubs' = unsubs \ {o}
  /\ IF regs[n].fn = "empty"
     THEN UnsubscribeSubject(n) /\ UNCHANGED <<list, resets>>
     ELSE /\ IF IsMine(n) /\ regs[n].idx <= Len(list) /\ list[regs[n].idx] = n
             THEN list' = [list EXCEPT ![regs[n].idx] = 0] /\ resets' = resets \cup {o}
             ELSE UNCHANGED <<list, resets>>
          /\ UNCHANGED <<regs, subjs>>
  /\ UNCHANGED <<clientVars, c2s, s2c, sUp, since, left, runners, kicked, gone, treeOk, others, changes, breaks>>

(* Mutant: answered although the client has heard of the end. *)
UnsubDoneTwice(o) ==
  LET n == o[1] IN
  /\ o \in resets /\ resets' = resets \ {o} /\ UnsubscribeSubject(n)
  /\ IF IsMine(n) THEN Ack(Msg("unsuback", regs[n].idx, n)) ELSE UNCHANGED s2c
  /\ UNCHANGED <<clientVars, c2s, sUp, since, list, left, runners, unsubs, kicked, gone, treeOk, others, changes, breaks>>

(* ... then out of the seed, and answered unless the seed has told the end already. *)
UnsubDone(o) ==
  LET n == o[1] IN
  /\ o \in resets /\ resets' = resets \ {o} /\ UnsubscribeSubject(n)
  /\ IF IsMine(n) /\ ~regs[n].closed THEN Ack(Msg("unsuback", regs[n].idx, n)) ELSE UNCHANGED s2c
  /\ UNCHANGED <<clientVars, c2s, sUp, since, list, left, runners, unsubs, kicked, gone, treeOk, others, changes, breaks>>

-----------------------------------------------------------------------------
(* The seeds: OnSubscribeNotify is called with the seed locked. *)

Subscribers(k) == SelectSeq(subjs[k], LAMBDA s : s[2] # 0)
Notify(k, t) ==
  LET to == SelectSeq(Subscribers(k), LAMBDA s : IsMine(s[2]))
  IN s2c' = IF cUp THEN s2c \o [j \in DOMAIN to |-> Msg(t, regs[to[j][2]].idx, to[j][2])] ELSE s2c

SeedChanged(k) ==
  /\ subjs[k] # <<>> /\ changes < MaxData /\ changes' = changes + 1 /\ Notify(k, "data")
  /\ UNCHANGED <<clientVars, c2s, serverVars, subjs, gone, treeOk, others, breaks>>

(* PodRemoved, SeedRemoved, ParentSeedClear, StreamEnd: the last they hear. *)
SeedRemoved(k) ==
  /\ treeOk /\ k \notin gone /\ gone' = gone \cup {k} /\ Notify(k, "end")
  /\ subjs' = [subjs EXCEPT ![k] = <<>>] /\ others' = [others EXCEPT ![k] = 0]
  /\ regs' = [n \in DOMAIN regs |-> [regs[n] EXCEPT !.closed = @ \/ \E j \in DOMAIN subjs[k] : subjs[k][j][2] = n]]
  /\ UNCHANGED <<clientVars, c2s, sUp, since, list, left, runners, unsubs, resets, kicked, treeOk, changes, breaks>>

(* A seed of the same key: its subscribers are counted from 1 again. *)
Remembered == ToSet(list) \cup left \cup {o[1] : o \in unsubs \cup resets}
SeedAdded(k) ==
  /\ k \in gone /\ (Readded \/ \A n \in Remembered \ {0} : regs[n].closed => regs[n].key # k) /\ gone' = gone \ {k}
  /\ UNCHANGED <<clientVars, c2s, s2c, serverVars, subjs, treeOk, others, changes, breaks>>

OtherSubscribes(k) ==
  /\ treeOk /\ k \notin gone \cup BadTab /\ others[k] < MaxOthers
  /\ others' = [others EXCEPT ![k] = @ + 1]
  /\ subjs' = [subjs EXCEPT ![k] = Append(@, <<NextConn(k), 0>>)]
  /\ UNCHANGED <<clientVars, c2s, s2c, serverVars, gone, treeOk, changes, breaks>>

-----------------------------------------------------------------------------
(* The link *)

(* RcSeedVisitorClientNote::ClearRequests: everybody is told; on the new link the
   user subscribes again. *)
ClientLinkBroken ==
  /\ cUp /\ (~sUp \/ breaks < MaxBreaks) /\ breaks' = IF sUp THEN breaks + 1 ELSE breaks
  /\ cUp' = FALSE /\ layout' = FALSE /\ pend' = <<>> /\ objs' = <<>> /\ free' = <<>>
  /\ seedIdx' = [k \in Keys |-> 0] /\ s2c' = <<>>
  /\ UNCHANGED <<asked, c2s, serverVars, seedVars>>

(* OnSessionLinkBroken at the server: the list is moved out under its lock; what the
   client sent is lost ... *)
ServerLinkBroken ==
  /\ sUp /\ (~cUp \/ kicked \/ breaks < MaxBreaks) /\ breaks' = IF cUp /\ ~kicked THEN breaks + 1 ELSE breaks
  /\ sUp' = FALSE /\ left' = left \cup (ToSet(list) \ {0}) /\ list' = <<>> /\ c2s' = <<>>
  /\ UNCHANGED <<clientVars, s2c, since, regs, runners, unsubs, resets, kicked, seedVars>>

(* ... and those that have their tree are taken out of it. *)
UnsubscribeLeft ==
  /\ left # {} /\ left' = {}
  /\ regs' = [n \in DOMAIN regs |-> IF n \in left THEN [regs[n] EXCEPT !.fn = "empty"] ELSE regs[n]]
  /\ unsubs' = unsubs \cup {<<n, "broken">> : n \in {n \in left : regs[n].tree}}
  /\ UNCHANGED <<clientVars, c2s, s2c, sUp, since, list, runners, resets, kicked, seedVars, breaks>>

(* The next link has a new session at the server. *)
LinkReady ==
  /\ ~cUp /\ ~sUp /\ cUp' = TRUE /\ sUp' = TRUE /\ since' = asked /\ c2s' = <<>>
  /\ UNCHANGED <<layout, pend, objs, free, seedIdx, asked, s2c, list, left, regs, runners, unsubs, resets,
                 kicked, seedVars, breaks>>

-----------------------------------------------------------------------------
ClientReceives == RecvSubscribeAck \/ RecvQueryAck \/ RecvSubrData \/ RecvEnd
ServerReceives == RecvQuery \/ RecvSubscribe \/ RecvUnsubscribe
Runners == \/ \E r \in runners : RunSubscribe(r)
           \/ \E o \in unsubs : UnsubReset(o)
           \/ \E o \in resets : UnsubDone(o)

Next ==
  \/ Query \/ ClientReceives \/ ServerReceives \/ Runners
  \/ \E k \in Keys : \/ Subscribe(k) \/ Unsubscribe(k) \/ UnsubscribePending(k)
                     \/ SeedChanged(k) \/ SeedRemoved(k) \/ SeedAdded(k) \/ OtherSubscribes(k)
  \/ ClientLinkBroken \/ ServerLinkBroken \/ UnsubscribeLeft \/ LinkReady

Spec == Init /\ [][Next]_subscrVars

(* Both sides read what comes, and a tree runs what it is given. *)
Fairness ==
  /\ WF_subscrVars(ClientReceives) /\ WF_subscrVars(ServerReceives) /\ WF_subscrVars(Runners)
  /\ WF_subscrVars(UnsubscribeLeft)
FairSpec == Spec /\ Fairness

-----------------------------------------------------------------------------
Used == {i \in DOMAIN objs : objs[i].fn # "none"}

(* Indices and channels are what they should be. *)
SubscribeTypeOK ==
  /\ ToSet(free) \subseteq DOMAIN objs /\ \A n \in DOMAIN regs : regs[n].fn \in {"none", "sub", "unsub", "empty"}
  /\ ToSet(list) \subseteq 0..MaxAsks

(* Everything that comes is for the subscription that has the index now: an index that
   was given back and used again never hears of the old one, and an answer is found in
   the state its handler asserts (OnRecvSubrData, OnRecvUnsubrAck, RcSvcAckSubscribe). *)
ToItsSubscriber ==
  cUp /\ s2c # <<>> =>
    LET m == Head(s2c) IN
      /\ m.t \in {"data", "end", "unsuback", "suback"} => m.idx \in Used /\ objs[m.idx].n = m.n
      /\ m.t \in {"data", "end"} => objs[m.idx].live
      /\ m.t = "unsuback" => objs[m.idx].fn = "unsub" /\ objs[m.idx].live

(* An index is free or in use, never both, and no two seeds share one (ObjPool, assert in
   GetObjPtr). *)
IndicesAreKept ==
  /\ Cardinality(ToSet(free)) = Len(free) /\ ToSet(free) \cap Used = {}
  /\ ToSet(free) \cup Used = DOMAIN objs
  /\ \A i, j \in Used : i # j => objs[i].n # objs[j].n /\ (objs[i].key = objs[j].key => objs[i].key \in BadTab)

(* A client that follows its own rules is not logged out by those of the server. *)
NeverKicked == ~kicked

(* With nothing under way both sides agree: what the client has, the server has at the same index
   and the seed knows it, and nobody is left there that has gone. *)
Quiet == c2s = <<>> /\ s2c = <<>> /\ runners = {} /\ unsubs = {} /\ resets = {} /\ left = {}
InSubject(k) == {subjs[k][j][2] : j \in DOMAIN subjs[k]} \ {0}
BothAgree ==
  Quiet /\ cUp = sUp => \A k \in Keys :
    InSubject(k) = IF sUp THEN {objs[i].n : i \in {i \in Used : objs[i].key = k /\ objs[i].live}} ELSE {}

(* Nobody is unsubscribed by somebody else: the other session keeps what it has (SubConn). *)
OthersStay == \A k \in Keys : Len(SelectSeq(subjs[k], LAMBDA s : s[2] = 0)) = others[k]

(* Who subscribed is answered, who gave it up is told of the end, as long as the link lasts. *)
Awaits(n) == \E i \in Used : /\ objs[i].n = n /\ objs[i].key \notin BadTab
                             /\ ~objs[i].live \/ objs[i].fn = "unsub"
EveryoneIsTold == \A n \in 1..MaxAsks : Awaits(n) ~> (~cUp \/ ~sUp \/ ~Awaits(n))
=============================================================================
