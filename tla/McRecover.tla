----------------------------- MODULE McRecover -----------------------------
(***************************************************************************)
(* A real-time channel of the futures exchange (ExgMcChannel over          *)
(* PkContFeeder) and the sessions that recover its lost packets            *)
(* (ExgMrRecoverSession).  Packets come by multicast and may be lost; when *)
(* one is missing the later ones wait, a timer asks one of the sessions,   *)
(* of which one of role Primary keeps those of role Secondary from being   *)
(* asked.  A session serves several channels, one request at a time.       *)
(*                                                                         *)
(* PkCont has the pendings and their timer in detail; here a handler that  *)
(* unlocks the pendings and starts the timer is one step.                  *)
(***************************************************************************)
EXTENDS Integers, SequencesExt

CONSTANTS Sessions, Primaries,  \* the sessions, those of role Primary
          kMaxRecoverNum,       \* packets asked for in one request
          Packets,              \* bound: packets of the channel
          MaxBreaks,            \* bound: links that break
          MaxErrors,            \* bound: requests answered with an error
          MaxOthers             \* bound: requests of other channels

VARIABLES ch,        \* the channel: [next, lost, given, pks]
          sent,      \* packets sent by multicast
          inLine,    \* the timer of the channel is in line
          called,    \* the timer thread has called EmitOnTimer
          recovers,  \* Recovers_
          st,        \* st[s]: State_
          ready,     \* ready[s]: the device is LinkReady
          asked,     \* asked[s]: what the session has been asked and waits for
          todo,      \* todo[s]: calls of the channel that its threads will make
          suspended, \* suspended[s]: the CommonTimer will let it go on
          orphaned,  \* history: a session left with its request unseen: it was not the first
          breaks, errors, others

netVars == <<sent, breaks, errors, others>>
timerVars == <<inLine, called>>
sessVars == <<st, ready, asked, todo, suspended>>
mcVars == <<ch, timerVars, recovers, sessVars, orphaned, netVars>>

(* ExgMrState *)
Linking == 1
LinkBroken == 2
ApReady == 3
Requesting == 4

(* Requests: of this channel, of another one, answered and being recovered, or
   gone with the link. *)
Nothing == [what |-> "nothing", from |-> 0, num |-> 0]
Request(what, from, num) == [what |-> what, from |-> from, num |-> num]
Open(s) == asked[s].what \in {"own", "packets", "other"}

-----------------------------------------------------------------------------
(* The channel *)

Give(c, seqs) == [c EXCEPT !.given = @ \o SetToSortSeq(seqs, LAMBDA m, n : m < n),
                           !.next = Max(seqs) + 1, !.pks = @ \ seqs]

(* A packet: given with the pendings that continue it, dropped, or kept. *)
FeedPacket(c, n) ==
  IF n = c.next \/ c.given = <<>>
  THEN Give(c, {n} \cup {p \in c.pks : (n + 1)..p \subseteq c.pks})
  ELSE IF n < c.next THEN c
  ELSE [c EXCEPT !.pks = @ \cup {n}]

(* Mutant: what is skipped is not counted. *)
GiveLossyUncounted(c, seqs) == IF seqs = {} THEN c ELSE Give(c, seqs)

(* Pendings given over the gaps between them, which are counted. *)
GiveLossy(c, seqs) ==
  IF seqs = {} THEN c
  ELSE [Give(c, seqs) EXCEPT !.lost = @ + Max(seqs) + 1 - c.next - Cardinality(seqs)]

ResetBiggerNextSeq(c, n) == IF c.next < n THEN [c EXCEPT !.lost = @ + n - c.next, !.next = n] ELSE c

SetChannel(c) == ch' = c /\ inLine' = (inLine \/ (ch.pks = {} /\ c.pks # {})) /\ UNCHANGED called

-----------------------------------------------------------------------------
(* Packets and the timer *)

(* The exchange sends the next packet by multicast, which may lose it. *)
Multicast ==
  /\ sent < Packets /\ sent' = sent + 1
  /\ \/ SetChannel(FeedPacket(ch, sent + 1))
     \/ UNCHANGED <<ch, timerVars>>
  /\ UNCHANGED <<recovers, sessVars, orphaned, breaks, errors, others>>

Emit == /\ inLine /\ ~called
        /\ inLine' = FALSE /\ called' = TRUE
        /\ UNCHANGED <<ch, recovers, sessVars, orphaned, netVars>>

SameRole(s, t) == (s \in Primaries) <=> (t \in Primaries)

(* The sessions looked at: up to the first that takes the request, and none
   behind one that is connected and of another role. *)
Looked == {i \in DOMAIN recovers :
            \A j \in 1..(i-1) : /\ st[recovers[j]] # ApReady
                                /\ st[recovers[j]] = Requesting => SameRole(recovers[j], recovers[i])}

(* How much to ask for: up to the first pending, or over all gaps if there are several. *)
RecoverNum ==
  LET noGap == Max(ch.pks) - Min(ch.pks) + 1 = Cardinality(ch.pks)
      lostCount == (IF noGap THEN Min(ch.pks) ELSE Max(ch.pks)) - ch.next
  IN Min({lostCount, kMaxRecoverNum})

(* Sessions that are not connected leave when they are looked at. *)
Broken == {recovers[i] : i \in {j \in Looked : st[recovers[j]] < ApReady}}
Forgotten == [s \in Sessions |-> IF s \in Broken THEN Nothing ELSE asked[s]]

(* RequestMcRecover: a link whose end is not yet known loses the request. *)
RequestMcRecover(s) ==
  /\ st' = [st EXCEPT ![s] = Requesting]
  /\ asked' = [Forgotten EXCEPT ![s] = Request(IF ready[s] THEN "own" ELSE "gone", ch.next, RecoverNum)]

(* ExgMcChannel::PkContOnTimer: the sessions that are not connected leave, one
   that is free is asked, one that is busy is waited for; else nothing can be
   recovered and all pendings are given. *)
PkContOnTimer ==
  /\ called /\ called' = FALSE
  /\ IF ch.pks = {} THEN UNCHANGED <<ch, inLine, recovers, st, asked>>
     ELSE LET free == {i \in Looked : st[recovers[i]] = ApReady}
              busy == {i \in Looked : st[recovers[i]] = Requesting}
          IN /\ recovers' = SelectSeq(recovers, LAMBDA s : s \notin Broken)
             /\ \/ \E i \in free : RequestMcRecover(recovers[i]) /\ UNCHANGED <<ch, inLine>>
                \/ free = {} /\ asked' = Forgotten /\ UNCHANGED st
                   /\ IF busy # {} THEN inLine' = TRUE /\ UNCHANGED ch
                      ELSE ch' = GiveLossy(ch, ch.pks) /\ UNCHANGED inLine
  /\ UNCHANGED <<ready, todo, suspended, orphaned, netVars>>

-----------------------------------------------------------------------------
(* Answers of the exchange *)

RxIdle(s) == ready[s] /\ todo[s] = {}

(* 102 with packets to follow; with status 9 the session may ask no more for a
   while (SetDelRecover, CommonTimerRunAfter). *)
AnswerPackets(s) ==
  /\ RxIdle(s) /\ asked[s].what = "own"
  /\ \E num \in 1..asked[s].num : asked' = [asked EXCEPT ![s] = Request("packets", asked[s].from, num)]
  /\ \/ UNCHANGED <<todo, suspended, errors>>
     \/ /\ errors < MaxErrors /\ errors' = errors + 1
        /\ todo' = [todo EXCEPT ![s] = {"del"}] /\ suspended' = [suspended EXCEPT ![s] = TRUE]
  /\ UNCHANGED <<ch, timerVars, recovers, st, ready, orphaned, sent, breaks, others>>

(* Mutant: the channel does not look at its pendings after an error. *)
OnRecoverErrQuiet(begin, status) == UNCHANGED <<ch, inLine>>

(* ExgMcChannel::OnRecoverErr(begin, 0, status): 5 is "not yet open", said by a
   Secondary; else what is left is asked for again after a while. *)
OnRecoverErr(begin, status) ==
  LET isNoRecover == status = 5 /\ (recovers = <<>> \/ Head(recovers) \notin Primaries)
      due == {p \in ch.pks : \E q \in ch.pks : q <= begin /\ (p <= q \/ q..p \subseteq ch.pks)}
  IN IF ch.pks = {} THEN UNCHANGED <<ch, inLine>>
     ELSE IF isNoRecover THEN ch' = ResetBiggerNextSeq(GiveLossy(ch, ch.pks), begin) /\ UNCHANGED inLine
     ELSE IF due = ch.pks THEN ch' = GiveLossy(ch, due) /\ UNCHANGED inLine
     ELSE ch' = ResetBiggerNextSeq(GiveLossy(ch, due), begin) /\ inLine' = TRUE

(* Mutant: after an error the session still counts as asked. *)
AnswerErrorBusy(s) ==
  /\ RxIdle(s) /\ asked[s].what = "own" /\ errors < MaxErrors
  /\ errors' = errors + 1 /\ asked' = [asked EXCEPT ![s] = Nothing]
  /\ OnRecoverErr(asked[s].from, 6)
  /\ UNCHANGED <<st, called, recovers, ready, orphaned, sent, breaks, others, todo, suspended>>

(* 102 without packets. *)
AnswerError(s) ==
  /\ RxIdle(s) /\ asked[s].what = "own" /\ errors < MaxErrors
  /\ errors' = errors + 1 /\ asked' = [asked EXCEPT ![s] = Nothing]
  /\ st' = [st EXCEPT ![s] = ApReady]
  /\ \E status \in {5, 6, 9} :
       /\ OnRecoverErr(asked[s].from, status)
       /\ todo' = [todo EXCEPT ![s] = IF status = 9 THEN {"del"} ELSE {}]
       /\ suspended' = [suspended EXCEPT ![s] = status = 9]
  /\ UNCHANGED <<called, recovers, ready, orphaned, sent, breaks, others>>

(* Mutant: the session is free again with the first packet. *)
RecvRecoveredFirst(s) ==
  /\ RxIdle(s) /\ asked[s].what = "packets"
  /\ LET a == asked[s] IN
       /\ SetChannel(FeedPacket(ch, a.from))
       /\ asked' = [asked EXCEPT ![s] = IF a.num = 1 THEN Nothing ELSE Request("packets", a.from + 1, a.num - 1)]
       /\ st' = [st EXCEPT ![s] = ApReady]
       /\ todo' = [todo EXCEPT ![s] = IF a.num = 1 THEN {"end"} ELSE {}]
  /\ UNCHANGED <<recovers, ready, suspended, orphaned, netVars>>

(* A recovered packet; after the last the session is free. *)
RecvRecovered(s) ==
  /\ RxIdle(s) /\ asked[s].what = "packets"
  /\ LET a == asked[s] IN
       /\ SetChannel(FeedPacket(ch, a.from))
       /\ IF a.num > 1
          THEN asked' = [asked EXCEPT ![s] = Request("packets", a.from + 1, a.num - 1)] /\ UNCHANGED <<st, todo>>
          ELSE /\ asked' = [asked EXCEPT ![s] = Nothing] /\ st' = [st EXCEPT ![s] = ApReady]
               /\ todo' = [todo EXCEPT ![s] = {"end"}]
  /\ UNCHANGED <<recovers, ready, suspended, orphaned, netVars>>

(* Mutant: the rest is left to the next packet that is lost. *)
OnRecoverEndQuiet(s) == /\ "end" \in todo[s] /\ todo' = [todo EXCEPT ![s] = @ \ {"end"}]
                        /\ UNCHANGED <<ch, timerVars, recovers, st, ready, asked, suspended, orphaned, netVars>>

(* ExgMcChannel::OnRecoverEnd: what still waits is looked at again. *)
OnRecoverEnd(s) == /\ "end" \in todo[s] /\ todo' = [todo EXCEPT ![s] = @ \ {"end"}]
                   /\ inLine' = (inLine \/ ch.pks # {})
                   /\ UNCHANGED <<ch, called, recovers, st, ready, asked, suspended, orphaned, netVars>>

(* Another channel asks the session, and is answered. *)
OtherAsks(s) == /\ ready[s] /\ st[s] = ApReady /\ Contains(recovers, s)
                /\ st' = [st EXCEPT ![s] = Requesting]
                /\ others < MaxOthers /\ others' = others + 1
                /\ asked' = [asked EXCEPT ![s] = Request("other", 0, 0)]
                /\ UNCHANGED <<ch, timerVars, recovers, ready, todo, suspended, orphaned, sent, breaks, errors>>

OtherAnswered(s) == /\ RxIdle(s) /\ asked[s].what = "other"
                    /\ st' = [st EXCEPT ![s] = ApReady] /\ asked' = [asked EXCEPT ![s] = Nothing]
                    /\ UNCHANGED <<ch, timerVars, recovers, ready, todo, suspended, orphaned, netVars>>

-----------------------------------------------------------------------------
(* Links *)

LinkReady(s) == /\ ~ready[s] /\ st[s] < ApReady /\ todo[s] = {}
                /\ ready' = [ready EXCEPT ![s] = TRUE]
                /\ suspended' = [suspended EXCEPT ![s] = FALSE]
                /\ UNCHANGED <<ch, timerVars, recovers, st, asked, todo, orphaned, netVars>>

(* ExgMcChannel::AddRecover: Primary sessions in front. *)
AddRecover(s) == recovers' = IF Contains(recovers, s) THEN recovers
                             ELSE IF s \in Primaries THEN <<s>> \o recovers ELSE Append(recovers, s)

(* 030: the exchange confirms the logon of the channel. *)
LoginCfm(s) == /\ RxIdle(s) /\ st[s] < ApReady
               /\ st' = [st EXCEPT ![s] = ApReady] /\ AddRecover(s)
               /\ UNCHANGED <<ch, timerVars, ready, asked, todo, suspended, orphaned, netVars>>

(* OnDevice_CommonTimer, long after whatever was asked has come. *)
CommonTimer(s) == /\ suspended[s] /\ RxIdle(s) /\ ~Open(s)
                  /\ suspended' = [suspended EXCEPT ![s] = FALSE]
                  /\ st' = [st EXCEPT ![s] = ApReady] /\ AddRecover(s)
                  /\ UNCHANGED <<ch, timerVars, ready, asked, todo, orphaned, netVars>>

(* The link breaks; what was asked goes with it. *)
LinkBreaks(s) == /\ ready[s] /\ breaks < MaxBreaks /\ breaks' = breaks + 1
                 /\ ready' = [ready EXCEPT ![s] = FALSE]
                 /\ asked' = [asked EXCEPT ![s] = IF @.what \in {"own", "packets"} THEN Request("gone", 0, 0)
                                                  ELSE Nothing]
                 /\ UNCHANGED <<ch, timerVars, recovers, st, todo, suspended, orphaned, sent, errors, others>>

StateChanged(s) == /\ ~ready[s] /\ st[s] >= ApReady
                   /\ st' = [st EXCEPT ![s] = LinkBroken]
                   /\ todo' = [todo EXCEPT ![s] = @ \cup {"del"}]
                   /\ UNCHANGED <<ch, timerVars, recovers, ready, asked, suspended, orphaned, netVars>>

(* Mutant: nobody looks at the pendings when a session leaves. *)
DelRecoverQuiet(s) ==
  /\ "del" \in todo[s] /\ recovers' = SelectSeq(recovers, LAMBDA t : t # s)
  /\ todo' = [todo EXCEPT ![s] = @ \ {"del"}]
  /\ orphaned' = (orphaned \/ (asked[s].what = "gone" /\ (recovers = <<>> \/ Head(recovers) # s)))
  /\ asked' = [asked EXCEPT ![s] = IF @.what = "gone" THEN Nothing ELSE @]
  /\ UNCHANGED <<ch, timerVars, st, ready, suspended, netVars>>

(* ExgMcChannel::DelRecover: the session leaves; if it was the first ... *)
DelRecover(s) ==
  /\ "del" \in todo[s] /\ recovers' = SelectSeq(recovers, LAMBDA t : t # s)
  /\ todo' = [todo EXCEPT ![s] = (@ \ {"del"}) \cup
                                 (IF recovers # <<>> /\ Head(recovers) = s THEN {"look"} ELSE {})]
  /\ orphaned' = (orphaned \/ (asked[s].what = "gone" /\ (recovers = <<>> \/ Head(recovers) # s)))
  /\ asked' = [asked EXCEPT ![s] = IF @.what = "gone" THEN Nothing ELSE @]
  /\ UNCHANGED <<ch, timerVars, st, ready, suspended, netVars>>

(* ... the pendings are looked at, with another lock. *)
DelRecoverLook(s) == /\ "look" \in todo[s] /\ todo' = [todo EXCEPT ![s] = @ \ {"look"}]
                     /\ inLine' = (inLine \/ ch.pks # {})
                     /\ UNCHANGED <<ch, called, recovers, st, ready, asked, suspended, orphaned, netVars>>

-----------------------------------------------------------------------------
Init == /\ ch = [next |-> 0, lost |-> 0, given |-> <<>>, pks |-> {}]
        /\ sent = 0 /\ breaks = 0 /\ errors = 0 /\ others = 0 /\ inLine = FALSE /\ called = FALSE
        /\ recovers = <<>> /\ orphaned = FALSE
        /\ st = [s \in Sessions |-> Linking] /\ ready = [s \in Sessions |-> FALSE]
        /\ asked = [s \in Sessions |-> Nothing] /\ todo = [s \in Sessions |-> {}]
        /\ suspended = [s \in Sessions |-> FALSE]

(* What goes on by itself: the timer thread, the threads of a session, and the
   exchange, which answers while the link lasts. *)
Goes(s) == \/ AnswerPackets(s) \/ AnswerError(s) \/ RecvRecovered(s) \/ OnRecoverEnd(s) \/ OtherAnswered(s)
           \/ StateChanged(s) \/ DelRecover(s) \/ DelRecoverLook(s)

Next == \/ Multicast \/ Emit \/ PkContOnTimer
        \/ \E s \in Sessions : \/ Goes(s) \/ OtherAsks(s)
                               \/ LinkReady(s) \/ LoginCfm(s) \/ CommonTimer(s) \/ LinkBreaks(s)

Fairness == /\ WF_mcVars(Emit) /\ SF_mcVars(PkContOnTimer)
            /\ \A s \in Sessions : WF_mcVars(Goes(s))

Spec == Init /\ [][Next]_mcVars
FairSpec == Spec /\ Fairness

-----------------------------------------------------------------------------
(* Properties *)

TypeOK ==
  /\ ch.pks \subseteq 1..sent /\ \A p \in ch.pks : p > ch.next
  /\ \A s \in Sessions : /\ st[s] \in Linking..Requesting /\ todo[s] \subseteq {"del", "look", "end"}
                         /\ asked[s].what \in {"nothing", "own", "packets", "other", "gone"}

(* The packets are given in the order of their numbers, each once, and what was
   left out between the first and the last is what LostCount_ says; whatever was
   recovered, refused or given up (PkContOnTimer, OnRecoverErr). *)
InOrderAndCounted ==
  LET g == ch.given IN
  /\ \A i \in 2..Len(g) : g[i-1] < g[i]
  /\ g # <<>> => ch.next - g[1] = Len(g) + ch.lost

(* A session counts as asked (State_ is Requesting) exactly while something asked
   is open: "the last request must be complete before the next is sent"
   (ExgMcChannel.cpp), through errors, suspensions and new links. *)
RequestsMatch == \A s \in Sessions : ready[s] => (st[s] = Requesting <=> Open(s))

(* When packets wait, somebody will go on with them: the timer, a session that
   was asked, or one of the calls that a session is about to make -- unless a
   session that was not the first of Recovers_ left with the request. *)
SomeoneWillRecover ==
  ch.pks # {} => \/ inLine \/ called \/ orphaned
                 \/ \E s \in Sessions : asked[s].what \in {"own", "packets", "gone"} \/ todo[s] \cap {"look", "end"} # {}

(* The same without the exception: "if it is still not continuous after a while,
   give up waiting" (PkCont.hpp). *)
SomeoneWillAlwaysRecover ==
  ch.pks # {} => \/ inLine \/ called
                 \/ \E s \in Sessions : asked[s].what \in {"own", "packets", "gone"} \/ todo[s] \cap {"look", "end"} # {}

(* What waits is given in the end. *)
PendingsRecovered == ch.pks # {} ~> ch.pks = {} \/ orphaned
=============================================================================
