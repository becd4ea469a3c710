------------------------------ MODULE RcLogon ------------------------------
(***************************************************************************)
(* The sessions of an rc server (RcSession.cpp, RcFuncConnServer.cpp) and  *)
(* the agent that limits how often a user is online (PoDupLogon.cpp).      *)
(*                                                                         *)
(* Each session is called by the thread of its own device, one call at a   *)
(* time. The table of who is online is shared: it is changed under the     *)
(* lock of PolicyMaps_, but whoever is to make place is told after it.     *)
(***************************************************************************)
EXTENDS Integers, Sequences, FiniteSets, SequencesExt

CONSTANTS
  Sessions,   \* sessions that log on as one user, each for one link
  Policies,   \* what the administrator may set: OnlineMax_ (0: any number) and PoDupLogonAct_
  MaxChanges  \* bound: how often it is set

VARIABLES
  link,     \* the device: not connected yet, linked, broken
  closing,  \* an AsyncClose or AsyncLingerClose waits in the device's queue, and
            \* whether the session still hears what comes (NoRecvEvent)
  st,       \* SessionSt_
  proto,    \* RemoteParam_.RcVer_ >= 0
  note,     \* the RcServerNote_SaslAuth and how far its AuthSession_ is
  online,   \* PoDupLogonClient::Online_ is set
  policy,   \* OnlineMax_ and PoDupLogonAct_ of the user's policy
  changes,  \* how often it was set
  limit,    \* OnlineMax_ when a session was last allowed
  table,    \* the user's Sapling_: who is online, the earliest first
  count,    \* OnlineCount_
  kicks,    \* autoDupLogout of the CheckLogon each thread is in
  pc,       \* where the thread of each session is
  verdict,  \* the result of CheckLogon
  served    \* sessions for which a function of the application was called

rcVars == <<link, closing, st, proto, note, online, policy, changes, limit, table, count, kicks, pc,
            verdict, served>>
policyVars == <<policy, changes, limit>>
tableVars == <<online, policyVars, table, count, kicks>>

States == <<"Closing", "DeviceLinkReady", "ProtocolReady", "Connecting", "Logoning", "ApReady">>
Rank(x) == CHOOSE i \in DOMAIN States : States[i] = x
Below(x, y) == Rank(x) < Rank(y)

Init ==
  /\ link = [s \in Sessions |-> "none"] /\ closing = [s \in Sessions |-> "no"]
  /\ st = [s \in Sessions |-> "DeviceLinkReady"] /\ proto = [s \in Sessions |-> FALSE]
  /\ note = [s \in Sessions |-> "none"] /\ online = [s \in Sessions |-> FALSE]
  /\ policy \in Policies /\ changes = 0 /\ limit = 0 /\ table = <<>> /\ count = 0
  /\ kicks = [s \in Sessions |-> <<>>] /\ pc = [s \in Sessions |-> "idle"]
  /\ verdict = [s \in Sessions |-> "none"] /\ served = {}

-----------------------------------------------------------------------------
(* The session *)

SetSt(s, x) == st' = [st EXCEPT ![s] = x]

(* ForceLogout, and what else ends in an AsyncClose or AsyncLingerClose. *)
ForceLogout(S) ==
  closing' = [s \in Sessions |-> IF s \in S /\ closing[s] = "no" /\ link[s] = "ready" THEN "yes" ELSE closing[s]]
Deafen(s) == closing' = [closing EXCEPT ![s] = "deaf"]

Idle(s) == pc[s] = "idle" /\ link[s] = "ready"
Hears(s) == Idle(s) /\ closing[s] # "deaf"

(* ResetSessionSt, OnDevice_LinkReady: the logon's timer runs from here. *)
OnDeviceLinkReady(s) ==
  /\ link[s] = "none" /\ link' = [link EXCEPT ![s] = "ready"] /\ SetSt(s, "DeviceLinkReady")
  /\ UNCHANGED <<closing, proto, note, tableVars, pc, verdict, served>>

(* The other side's version line: good, of another version, or unknown. *)
CheckProtocolVersion(s) ==
  /\ Hears(s) /\ ~proto[s]
  /\ \/ /\ proto' = [proto EXCEPT ![s] = TRUE] /\ UNCHANGED closing
        /\ IF Below(st[s], "ProtocolReady") THEN SetSt(s, "ProtocolReady") ELSE UNCHANGED st
     \/ (SetSt(s, "Closing") \/ UNCHANGED st) /\ Deafen(s) /\ UNCHANGED proto
  /\ UNCHANGED <<link, note, tableVars, pc, verdict, served>>

(* A function without a note is called in the states its agent requires only;
   what cannot be parsed ends like one that may not be called. *)
Parsed(s, required) == Hears(s) /\ proto[s] /\ ~Below(st[s], required)
NotReady(s) ==
  /\ Hears(s) /\ proto[s] /\ Deafen(s)
  /\ UNCHANGED <<link, st, proto, note, tableVars, pc, verdict, served>>

(* RcFuncConnServer: the client's version; the answer has the server's. *)
RecvConnection(s) ==
  /\ Parsed(s, "ProtocolReady")
  /\ IF Below("Connecting", st[s]) THEN ForceLogout({s}) /\ UNCHANGED st
     ELSE SetSt(s, "Connecting") /\ UNCHANGED closing
  /\ UNCHANGED <<link, proto, note, tableVars, pc, verdict, served>>

RecvLogout(s) ==
  /\ Parsed(s, "ProtocolReady") /\ SetSt(s, "Closing") /\ ForceLogout({s})
  /\ UNCHANGED <<link, proto, note, tableVars, pc, verdict, served>>

(* A function of the application. *)
RecvCall(s) ==
  /\ Parsed(s, "ApReady") /\ served' = served \cup {s}
  /\ UNCHANGED <<link, closing, st, proto, note, tableVars, pc, verdict>>

(* SendSasl, which says nothing outside of the logon. *)
SaslSt(s) == IF st[s] \in {"Connecting", "Logoning"} THEN "Logoning" ELSE st[s]

(* OnAuthVerifyCB with NeedsMore or with an error; an error ends the session. *)
Challenge(s) == SetSt(s, SaslSt(s)) /\ note' = [note EXCEPT ![s] = "more"] /\ UNCHANGED <<closing, pc>>
SaslFails(s) ==
  /\ SetSt(s, SaslSt(s)) /\ note' = [note EXCEPT ![s] = "over"] /\ ForceLogout({s}) /\ UNCHANGED pc

(* The mechanism and the first message: makes the note. *)
RecvSaslFirst(s) ==
  /\ Parsed(s, "Connecting") /\ note[s] = "none"
  /\ Challenge(s) \/ SaslFails(s)
  /\ UNCHANGED <<link, proto, tableVars, verdict, served>>

(* RcServerNote_SaslAuth::OnRecvFunctionCall: a note is called in any state. A
   proof that is right goes on with CheckLogon. *)
RecvSaslNext(s) ==
  /\ Hears(s) /\ proto[s] /\ note[s] # "none"
  /\ IF st[s] = "ApReady" THEN ForceLogout({s}) /\ UNCHANGED <<st, note, pc>>
     ELSE \/ SaslFails(s)
          \/ note[s] = "more" /\ pc' = [pc EXCEPT ![s] = "check"] /\ note' = [note EXCEPT ![s] = "over"]
             /\ UNCHANGED <<st, closing>>
  /\ UNCHANGED <<link, proto, tableVars, verdict, served>>

(* Mutant: a session whose Connection was answered is not watched. *)
OnCommonTimerNotConnecting(s) ==
  /\ Idle(s) /\ st[s] \notin {"Closing", "Connecting"} /\ closing[s] = "no" /\ ForceLogout({s})
  /\ UNCHANGED <<link, st, proto, note, tableVars, pc, verdict, served>>

(* OnDevice_CommonTimer: the logon took too long, or nothing was heard for too long. *)
OnCommonTimer(s) ==
  /\ Idle(s) /\ st[s] # "Closing" /\ closing[s] = "no" /\ ForceLogout({s})
  /\ UNCHANGED <<link, st, proto, note, tableVars, pc, verdict, served>>

-----------------------------------------------------------------------------
(* The table of who is online *)

TooMany == policy.max > 0 /\ count >= policy.max

(* Mutant: place is made for those who are there, not for the one who comes. *)
MakePlaceTooFew == IF TooMany /\ policy.act = "RejectOld" THEN count - policy.max ELSE 0

(* How many have to go before one more comes. *)
MakePlace == IF TooMany /\ policy.act = "RejectOld" THEN count - policy.max + 1 ELSE 0

(* CheckLogon, up to the unlock. One too many is refused, or another has to go; a
   source that is not the one the policy binds to is refused. *)
CheckLogon(s) ==
  /\ pc[s] = "check" /\ pc' = [pc EXCEPT ![s] = "kick"]
  /\ \/ verdict' = [verdict EXCEPT ![s] = "refused"] /\ UNCHANGED tableVars
     \/ /\ ~(TooMany /\ policy.act = "RejectNew") /\ limit' = policy.max
        /\ table' = Append(SubSeq(table, MakePlace + 1, Len(table)), s)
        /\ count' = count - MakePlace + 1
        /\ kicks' = [kicks EXCEPT ![s] = SubSeq(table, 1, MakePlace)]
        /\ online' = [online EXCEPT ![s] = TRUE] /\ verdict' = [verdict EXCEPT ![s] = "allowed"]
        /\ UNCHANGED <<policy, changes>>
  /\ UNCHANGED <<link, closing, st, proto, note, served>>

(* The administrator changes the policy; nobody has to go for that. *)
ChangePolicy ==
  /\ changes < MaxChanges /\ changes' = changes + 1 /\ policy' \in Policies \ {policy}
  /\ UNCHANGED <<link, closing, st, proto, note, online, limit, table, count, kicks, pc, verdict, served>>

(* Mutant: the one that made place is not told. *)
ForceLogoutOldQuiet(s) ==
  /\ pc[s] = "kick" /\ kicks[s] # <<>> /\ kicks' = [kicks EXCEPT ![s] = Tail(@)]
  /\ online' = [online EXCEPT ![Head(kicks[s])] = FALSE]
  /\ UNCHANGED <<link, closing, st, proto, note, policyVars, table, count, pc, verdict, served>>

(* ~AutoDupLogout, with the lock free again: the next one that made place is told. *)
ForceLogoutOld(s) ==
  /\ pc[s] = "kick" /\ kicks[s] # <<>> /\ kicks' = [kicks EXCEPT ![s] = Tail(@)]
  /\ online' = [online EXCEPT ![Head(kicks[s])] = FALSE] /\ ForceLogout({Head(kicks[s])})
  /\ UNCHANGED <<link, st, proto, note, policyVars, table, count, pc, verdict, served>>

(* OnAuthVerifyCB after CheckLogon: OnSaslDone_AtServer. *)
OnSaslDone(s) ==
  /\ pc[s] = "kick" /\ kicks[s] = <<>> /\ pc' = [pc EXCEPT ![s] = "idle"]
  /\ IF verdict[s] = "allowed" THEN SetSt(s, "ApReady") /\ UNCHANGED closing
     ELSE SetSt(s, SaslSt(s)) /\ ForceLogout({s})
  /\ UNCHANGED <<link, proto, note, tableVars, verdict, served>>

(* The administrator's "reject" of one that is online. *)
Reject(s) ==
  /\ s \in ToSet(table) /\ closing[s] = "no" /\ ForceLogout({s})
  /\ UNCHANGED <<link, st, proto, note, tableVars, pc, verdict, served>>

-----------------------------------------------------------------------------
(* The end of a session *)

(* Mutant: a session that was told to go leaves its place to the one who told it. *)
LinkBrokenKeeps(s) ==
  /\ Idle(s) /\ link' = [link EXCEPT ![s] = "broken"] /\ closing' = [closing EXCEPT ![s] = "no"]
  /\ SetSt(s, "Closing") /\ proto' = [proto EXCEPT ![s] = FALSE] /\ note' = [note EXCEPT ![s] = "none"]
  /\ pc' = [pc EXCEPT ![s] = IF online[s] /\ closing[s] = "no" THEN "closed" ELSE "idle"]
  /\ verdict' = [verdict EXCEPT ![s] = "none"] /\ served' = served \ {s}
  /\ UNCHANGED tableVars

(* OnSessionLinkBroken, and OnLogonClientClosed up to its lock. *)
LinkBroken(s) ==
  /\ Idle(s) /\ link' = [link EXCEPT ![s] = "broken"] /\ closing' = [closing EXCEPT ![s] = "no"]
  /\ SetSt(s, "Closing") /\ proto' = [proto EXCEPT ![s] = FALSE] /\ note' = [note EXCEPT ![s] = "none"]
  /\ pc' = [pc EXCEPT ![s] = IF online[s] THEN "closed" ELSE "idle"]
  /\ verdict' = [verdict EXCEPT ![s] = "none"] /\ served' = served \ {s}
  /\ UNCHANGED tableVars

(* Mutant: a place that was already given away is given back again. *)
OnLogonClientClosedTwice(s) ==
  /\ pc[s] = "closed" /\ pc' = [pc EXCEPT ![s] = "idle"]
  /\ online' = [online EXCEPT ![s] = FALSE] /\ count' = count - 1
  /\ table' = SelectSeq(table, LAMBDA x : x # s)
  /\ UNCHANGED <<link, closing, st, proto, note, policyVars, kicks, verdict, served>>

(* OnLogonClientClosed under the lock: a place that was given away is not there. *)
OnLogonClientClosed(s) ==
  /\ pc[s] = "closed" /\ pc' = [pc EXCEPT ![s] = "idle"]
  /\ IF online[s] /\ s \in ToSet(table)
     THEN /\ online' = [online EXCEPT ![s] = FALSE] /\ count' = count - 1
          /\ \E i \in DOMAIN table : table[i] = s /\ table' = RemoveAt(table, i)
     ELSE UNCHANGED <<online, table, count>>
  /\ UNCHANGED <<link, closing, st, proto, note, policyVars, kicks, verdict, served>>

-----------------------------------------------------------------------------
(* What the thread of a session does of itself, once it is called. *)
Goes(s) == CheckLogon(s) \/ ForceLogoutOld(s) \/ OnSaslDone(s) \/ OnLogonClientClosed(s)
Receives(s) == \/ CheckProtocolVersion(s) \/ NotReady(s) \/ RecvConnection(s) \/ RecvLogout(s)
               \/ RecvCall(s) \/ RecvSaslFirst(s) \/ RecvSaslNext(s)

Next ==
  \/ ChangePolicy
  \/ \E s \in Sessions :
       \/ OnDeviceLinkReady(s) \/ Receives(s) \/ OnCommonTimer(s) \/ Goes(s)
       \/ Reject(s) \/ LinkBroken(s)

Spec == Init /\ [][Next]_rcVars

(* The device's queue runs what was put into it, a close too; the logon's timer
   is armed until the session is ApReady. *)
Closes(s) == closing[s] # "no" /\ LinkBroken(s)
LogonTimeout(s) == st[s] # "ApReady" /\ OnCommonTimer(s)
Fairness == \A s \in Sessions :
  WF_rcVars(Goes(s)) /\ WF_rcVars(Closes(s)) /\ WF_rcVars(LogonTimeout(s))
FairSpec == Spec /\ Fairness

-----------------------------------------------------------------------------
Places == ToSet(table)
Leaving == UNION {ToSet(kicks[s]) : s \in Sessions}

RcTypeOK ==
  /\ link \in [Sessions -> {"none", "ready", "broken"}]
  /\ st \in [Sessions -> ToSet(States)] /\ pc \in [Sessions -> {"idle", "check", "kick", "closed"}]
  /\ table \in Seq(Sessions) /\ count \in Nat

(* The table has no more sessions than OnlineMax was when one was last allowed,
   each once, and its count is theirs; who is neither in it nor about to be told has no Online_
   (PoDupLogonTree::CheckLogon, OnLogonClientClosed, assert in ForceLogout). *)
PlacesAreCounted ==
  /\ count = Len(table) /\ Cardinality(Places) = Len(table)
  /\ limit > 0 => count <= limit
  /\ \A s \in Sessions : online[s] <=> s \in Places \cup Leaving
  /\ Places \cap Leaving = {}

(* A session whose link is broken gives its place back, whoever else takes or gives
   places meanwhile (OnLogonClientClosed). *)
NoPlaceForTheGone ==
  \A s \in Sessions : link[s] = "broken" /\ pc[s] = "idle" => s \notin Places

(* A session that goes on after its logon has a place, or is about to lose its
   link: nobody is online beside the table (AutoDupLogout). *)
OnlineHasAPlace ==
  \A s \in Sessions : st[s] = "ApReady" /\ link[s] = "ready" /\ closing[s] = "no" => s \in Places \cup Leaving

(* The application is called for sessions that were allowed only. *)
ServedIfAllowed == \A s \in served : verdict[s] = "allowed"

(* Whoever is told to go loses the link, and no logon lasts for ever. *)
ToldGoes == \A s \in Sessions : s \in Leaving \/ (closing[s] # "no" /\ link[s] = "ready") ~> link[s] # "ready"
LogonEnds == \A s \in Sessions : link[s] = "ready" ~> (st[s] = "ApReady" \/ link[s] # "ready")
=============================================================================
