------------------------------ MODULE Subject ------------------------------
(***************************************************************************)
(* A subject and its subscribers (Subject, SubrMap in Subr.hpp). Publish   *)
(* calls them under a recursive lock: whoever is called may subscribe,     *)
(* unsubscribe himself or others, clear the subject and publish again. All *)
(* that happens in one thread, the others wait for the lock.               *)
(*                                                                         *)
(* A subscription is its SubConn, its subscriber and a number of the model *)
(* that is never used again, as a SubConn is.                              *)
(***************************************************************************)
EXTENDS Integers, SequencesExt, FiniteSets

CONSTANTS
  Subscribers,  \* who subscribes, several times too
  Removals,     \* what may be called to remove: "conn", "all", "clear"
  MaxConn,      \* the last SubConn
  MaxSubs,      \* bound: subscriptions ever made
  MaxPublish,   \* bound: calls of Publish
  MaxDepth      \* bound: how deep they are nested

VARIABLES
  subrs,    \* Subrs_
  next,     \* NextEmitIdx_
  frames,   \* the calls of Combine that run, the innermost last
  made,     \* how many subscriptions were asked for
  count     \* how often Publish was called

subjectVars == <<subrs, next, frames, made, count>>

Numbers(s) == {s[i].no : i \in DOMAIN s}

Init == /\ subrs = <<>> /\ next = 0 /\ frames = <<>>
        /\ made = 0 /\ count = 0

(* The program, or a subscriber that is being called, is free to call the subject. *)
MayCall == IF frames = <<>> THEN TRUE ELSE Last(frames).calling
Depth == Len(frames)

(* Whoever was there when a running Publish began and is there no more need not be told
   by it. What is removed under a nested Publish moves the rest under the outer ones. *)
Gone(left) ==
  [i \in DOMAIN frames |->
     [frames[i] EXCEPT !.due = @ \cap Numbers(left),
                       !.moved = @ \/ (i < Depth /\ left # subrs)]]

-----------------------------------------------------------------------------
(* Mutant: the first number that no subscription has. *)
NewConnLow == CHOOSE c \in 1 .. MaxConn + 1 : /\ \A i \in DOMAIN subrs : subrs[i].conn # c
                                              /\ \A d \in 1 .. c - 1 : \E i \in DOMAIN subrs : subrs[i].conn = d

NewConn == IF subrs = <<>> THEN 1 ELSE Last(subrs).conn + 1

(* SubrMap::emplace_back *)
Subscribe(who) ==
  /\ MayCall /\ made < MaxSubs
  /\ made' = made + 1
  /\ subrs' = IF NewConn > MaxConn THEN subrs  \* refused
              ELSE Append(subrs, [conn |-> NewConn, who |-> who, no |-> made'])
  /\ UNCHANGED <<next, frames, count>>

(* The place of a SubConn: SortedVector searches by halves. *)
Find(conn) ==
  LET f[lo \in 0 .. Len(subrs), hi \in 0 .. Len(subrs)] ==
        IF lo >= hi THEN lo
        ELSE LET mid == (lo + hi) \div 2
             IN IF subrs[mid + 1].conn < conn THEN f[mid + 1, hi] ELSE f[lo, mid]
      at == f[0, Len(subrs)] + 1
  IN IF at \in DOMAIN subrs /\ subrs[at].conn = conn THEN at ELSE 0

(* Mutant: the one that is being called is taken for one still to come. *)
EraseIteratorNext(at) ==
  /\ subrs' = RemoveAt(subrs, at)
  /\ next' = IF at < next THEN next - 1 ELSE next
  /\ frames' = Gone(subrs')

EraseIterator(at) ==
  /\ subrs' = RemoveAt(subrs, at)
  /\ next' = IF at <= next THEN next - 1 ELSE next
  /\ frames' = Gone(subrs')

(* Of a SubConn that somebody still has. *)
Unsubscribe(conn) ==
  /\ "conn" \in Removals /\ MayCall /\ Find(conn) # 0 /\ EraseIterator(Find(conn))
  /\ UNCHANGED <<made, count>>

Others(s, who) == SelectSeq(s, LAMBDA x : x.who # who)

(* Mutant: from the front, with the index as it was. *)
UnsubscribeAllFront(who) ==
  /\ "all" \in Removals /\ MayCall /\ next <= Len(subrs)
  /\ \E i \in DOMAIN subrs : subrs[i].who = who
  /\ subrs' = Others(subrs, who) /\ frames' = Gone(subrs')
  /\ next' = next
  /\ UNCHANGED <<made, count>>

(* First from NextEmitIdx_ to the end, then before it. When NextEmitIdx_ is behind the end
   it reads what is not in the vector: IndexIsInside says that it is not. *)
UnsubscribeAll(who) ==
  LET before == SubSeq(subrs, 1, next)
      behind == SubSeq(subrs, next + 1, Len(subrs))
      kept == Others(before, who)
  IN /\ "all" \in Removals /\ MayCall /\ next <= Len(subrs)
     /\ \E i \in DOMAIN subrs : subrs[i].who = who
     /\ subrs' = kept \o Others(behind, who) /\ frames' = Gone(subrs')
     /\ next' = next - (Len(before) - Len(kept))
     /\ UNCHANGED <<made, count>>

Clear ==
  /\ "clear" \in Removals /\ MayCall /\ subrs # <<>>
  /\ subrs' = <<>> /\ frames' = Gone(<<>>)
  /\ UNCHANGED <<next, made, count>>

-----------------------------------------------------------------------------
(* Combine *)

Publish ==
  /\ MayCall /\ count < MaxPublish /\ Depth < MaxDepth
  /\ count' = count + 1 /\ next' = 0
  /\ frames' = Append(frames, [prv |-> next, calling |-> FALSE, due |-> Numbers(subrs),
                               given |-> <<>>, moved |-> FALSE])
  /\ UNCHANGED <<subrs, made>>

Emit ==
  /\ frames # <<>> /\ ~Last(frames).calling /\ next < Len(subrs)
  /\ next' = next + 1
  /\ frames' = [frames EXCEPT ![Depth].calling = TRUE, ![Depth].given = Append(@, subrs[next + 1].no),
                              ![Depth].due = @ \ {subrs[next + 1].no}]
  /\ UNCHANGED <<subrs, made, count>>

(* The subscriber returns. With Combine it may end the Publish. *)
Returns(goesOn) ==
  /\ frames # <<>> /\ Last(frames).calling
  /\ IF goesOn THEN frames' = [frames EXCEPT ![Depth].calling = FALSE] /\ UNCHANGED next
               ELSE frames' = Front(frames) /\ next' = Last(frames).prv
  /\ UNCHANGED <<subrs, made, count>>

(* Mutant: the outer Publish goes on where the inner one ended. *)
PublishEndsThere ==
  /\ frames # <<>> /\ ~Last(frames).calling /\ next >= Len(subrs)
  /\ frames' = Front(frames) /\ next' = next
  /\ UNCHANGED <<subrs, made, count>>

PublishEnds ==
  /\ frames # <<>> /\ ~Last(frames).calling /\ next >= Len(subrs)
  /\ frames' = Front(frames) /\ next' = Last(frames).prv
  /\ UNCHANGED <<subrs, made, count>>

Next ==
  \/ \E w \in Subscribers : Subscribe(w) \/ UnsubscribeAll(w)
  \/ \E c \in 1 .. MaxConn : Unsubscribe(c)
  \/ Clear \/ Publish \/ Emit \/ PublishEnds
  \/ \E b \in BOOLEAN : Returns(b)

Spec == Init /\ [][Next]_subjectVars

-----------------------------------------------------------------------------
(* The SubConns are in order, so that a search finds them (SortedVector::find). *)
ConnsFound == \A i \in DOMAIN subrs : Find(subrs[i].conn) = i

(* A Publish calls nobody twice, and misses nobody who was there from its beginning,
   whatever is called from within. Only when somebody was removed under a Publish
   that was nested in it, it may miss one (the comment of Publish says so). *)
EachIsCalledOnce ==
  \A i \in DOMAIN frames :
    /\ IsInjective(frames[i].given)
    /\ LET idx == IF i = Depth THEN next ELSE frames[i + 1].prv
       IN ~frames[i].moved =>
            frames[i].due \subseteq Numbers(SubSeq(subrs, idx + 1, Len(subrs)))

(* NextEmitIdx_ is inside the vector whenever UnsubscribeAll may use it as its end. *)
IndexIsInside == "all" \in Removals /\ MayCall => next <= Len(subrs)
=============================================================================
