--------------------------- MODULE RcLogonProofs ---------------------------
(***************************************************************************)
(* A user has as many sessions online as the policy allowed, and nobody is *)
(* online beside the table: for any number of sessions, any policies and   *)
(* however often they are changed.                                         *)
(*                                                                         *)
(* The table is changed under the lock and those that made place are told  *)
(* after it.  So the places and the lists of those still to be told are    *)
(* kept apart (Parted), and what a session knows of its own logon (Logons) *)
(* says that it asks for a place once only.                                *)
(***************************************************************************)
EXTENDS RcLogon, FiniteSetTheorems, SequenceTheorems, TLAPS

(* What an administrator may set (PoDupLogonRec). *)
PoliciesOK == Policies \subseteq [max : Nat, act : {"RejectNew", "RejectOld"}]

SessionStates == {"Closing", "DeviceLinkReady", "ProtocolReady", "Connecting", "Logoning", "ApReady"}

Distinct(s) == \A i, j \in DOMAIN s : s[i] = s[j] => i = j

Typed ==
  /\ link \in [Sessions -> {"none", "ready", "broken"}]
  /\ closing \in [Sessions -> {"no", "yes", "deaf"}]
  /\ st \in [Sessions -> SessionStates]
  /\ proto \in [Sessions -> BOOLEAN] /\ note \in [Sessions -> {"none", "more", "over"}]
  /\ online \in [Sessions -> BOOLEAN] /\ policy \in Policies /\ limit \in Nat
  /\ table \in Seq(Sessions) /\ count \in Nat /\ kicks \in [Sessions -> Seq(Sessions)]
  /\ pc \in [Sessions -> {"idle", "check", "kick", "closed"}]
  /\ verdict \in [Sessions -> {"none", "allowed", "refused"}] /\ served \subseteq Sessions

(* Each place is one session's, and each list of those to be told holds others. *)
Parted ==
  /\ count = Len(table) /\ (limit > 0 => count <= limit)
  /\ Distinct(table) /\ \A s \in Sessions : Distinct(kicks[s])
  /\ \A s \in Sessions : ToSet(kicks[s]) \cap ToSet(table) = {}
  /\ \A s, r \in Sessions : s # r => ToSet(kicks[s]) \cap ToSet(kicks[r]) = {}

(* Who has Online_ set, and who has not. *)
Onlines ==
  /\ \A s \in ToSet(table) : online[s]
  /\ \A s \in Sessions : \A r \in ToSet(kicks[s]) : online[r]
  /\ \A s \in Sessions : online[s] => s \in ToSet(table) \/ \E r \in Sessions : s \in ToSet(kicks[r])

(* A session asks for a place once, while its link is up, and gives it back. *)
Logons ==
  \A s \in Sessions :
    /\ pc[s] \in {"check", "kick"} => link[s] = "ready" /\ note[s] = "over"
    /\ pc[s] = "closed" => link[s] = "broken"
    /\ link[s] = "none" => note[s] = "none"
    /\ note[s] # "over" => verdict[s] = "none"
    /\ pc[s] = "check" => verdict[s] = "none"
    /\ kicks[s] # <<>> => pc[s] = "kick"
    /\ link[s] # "broken" /\ verdict[s] = "none" => ~online[s]
    /\ link[s] = "broken" /\ pc[s] = "idle" => s \notin ToSet(table)

(* Who was allowed is online until it is told to go. *)
Alloweds ==
  \A s \in Sessions :
    /\ verdict[s] = "allowed" /\ link[s] = "ready" /\ closing[s] = "no" => online[s]
    /\ st[s] = "ApReady" /\ link[s] = "ready" => verdict[s] = "allowed"
    /\ s \in served => verdict[s] = "allowed"

Inv == Typed /\ Parted /\ Onlines /\ Logons /\ Alloweds

-----------------------------------------------------------------------------
(* Sequences without repetition *)

(* Membership and repetition by places. *)
LEMMA ByPlaces ==
  ASSUME NEW S, NEW t \in Seq(S)
  PROVE  /\ \A x : x \in ToSet(t) <=> \E i \in 1 .. Len(t) : t[i] = x
         /\ Distinct(t) <=> \A i, j \in 1 .. Len(t) : t[i] = t[j] => i = j
         /\ Len(t) \in Nat /\ ToSet(t) \subseteq S
BY DEF ToSet, Distinct

(* What is taken from the front and what is left share nothing (CheckLogon). *)
LEMMA SplitDistinct ==
  ASSUME NEW S, NEW t \in Seq(S), Distinct(t), NEW n \in 0 .. Len(t)
  PROVE  LET a == SubSeq(t, 1, n)
             b == SubSeq(t, n + 1, Len(t))
         IN /\ a \in Seq(S) /\ b \in Seq(S) /\ Distinct(a) /\ Distinct(b) /\ Len(b) = Len(t) - n
            /\ ToSet(a) \cap ToSet(b) = {} /\ ToSet(a) \cup ToSet(b) = ToSet(t)
<1> DEFINE a == SubSeq(t, 1, n)
           b == SubSeq(t, n + 1, Len(t))
<1>1. /\ a \in Seq(S) /\ DOMAIN a = 1 .. n /\ \A i \in 1 .. n : a[i] = t[i]
  BY SubSeqProperties
<1>2. /\ b \in Seq(S) /\ Len(b) = Len(t) - n /\ DOMAIN b = 1 .. (Len(t) - n)
      /\ \A i \in 1 .. (Len(t) - n) : b[i] = t[n + i]
  BY SubSeqProperties
<1> HIDE DEF a, b
<1>0. Len(t) \in Nat /\ (\A i, j \in 1 .. Len(t) : t[i] = t[j] => i = j) /\ n \in Nat /\ n <= Len(t)
  BY ByPlaces
<1>3. Distinct(a)
  BY <1>0, <1>1 DEF Distinct
<1>4. Distinct(b)
  <2> SUFFICES ASSUME NEW i \in 1 .. (Len(t) - n), NEW j \in 1 .. (Len(t) - n), b[i] = b[j] PROVE i = j
    BY <1>2 DEF Distinct
  <2>1. n + i \in 1 .. Len(t) /\ n + j \in 1 .. Len(t) /\ t[n + i] = t[n + j]
    BY <1>0, <1>2
  <2> QED
    BY <1>0, <2>1
<1>5. \A x : x \in ToSet(a) <=> \E i \in 1 .. n : t[i] = x
  BY <1>1 DEF ToSet
<1>6. \A x : x \in ToSet(b) <=> \E i \in (n + 1) .. Len(t) : t[i] = x
  <2>1. \A i \in (n + 1) .. Len(t) : i - n \in 1 .. (Len(t) - n) /\ b[i - n] = t[i]
    BY <1>0, <1>2
  <2>2. \A i \in 1 .. (Len(t) - n) : n + i \in (n + 1) .. Len(t) /\ b[i] = t[n + i]
    BY <1>0, <1>2
  <2>3. ToSet(b) = {b[i] : i \in 1 .. (Len(t) - n)}
    BY <1>2 DEF ToSet
  <2>4. ASSUME NEW x PROVE (\E i \in 1 .. (Len(t) - n) : b[i] = x) <=> \E i \in (n + 1) .. Len(t) : t[i] = x
    BY <2>1, <2>2
  <2> QED
    BY <2>3, <2>4
<1>7. \A x : x \in ToSet(t) <=> \E i \in 1 .. Len(t) : t[i] = x
  BY ByPlaces
<1>8. \A i \in 1 .. Len(t) : i \in 1 .. n \/ i \in (n + 1) .. Len(t)
  BY <1>0
<1>9. ToSet(a) \cap ToSet(b) = {}
  <2> SUFFICES ASSUME NEW x \in ToSet(a), x \in ToSet(b) PROVE FALSE
    OBVIOUS
  <2>1. PICK i \in 1 .. n : t[i] = x
    BY <1>5
  <2>2. PICK j \in (n + 1) .. Len(t) : t[j] = x
    BY <1>6
  <2>3. i \in 1 .. Len(t) /\ j \in 1 .. Len(t) /\ i # j
    BY <1>0
  <2> QED
    BY <1>0, <2>1, <2>2, <2>3
<1>10. ToSet(a) \cup ToSet(b) = ToSet(t)
  <2>1. \A i \in 1 .. n : i \in 1 .. Len(t)
    BY <1>0
  <2>2. \A i \in (n + 1) .. Len(t) : i \in 1 .. Len(t)
    BY <1>0
  <2> QED
    BY <1>5, <1>6, <1>7, <1>8, <2>1, <2>2
<1> QED
  BY <1>1, <1>2, <1>3, <1>4, <1>9, <1>10 DEF a, b

(* One that was not there comes last (CheckLogon). *)
LEMMA AppendDistinct ==
  ASSUME NEW S, NEW t \in Seq(S), Distinct(t), NEW x \in S, x \notin ToSet(t)
  PROVE  /\ Append(t, x) \in Seq(S) /\ Len(Append(t, x)) = Len(t) + 1
         /\ Distinct(Append(t, x)) /\ ToSet(Append(t, x)) = ToSet(t) \cup {x}
<1> DEFINE u == Append(t, x)
<1>1. /\ u \in Seq(S) /\ Len(u) = Len(t) + 1 /\ DOMAIN u = 1 .. (Len(t) + 1)
      /\ u[Len(t) + 1] = x /\ \A i \in 1 .. Len(t) : u[i] = t[i]
  OBVIOUS
<1> HIDE DEF u
<1>2. Distinct(u)
  BY <1>1 DEF Distinct, ToSet
<1>3. ToSet(u) = ToSet(t) \cup {x}
  BY <1>1 DEF ToSet
<1> QED
  BY <1>1, <1>2, <1>3 DEF u

(* One that was there is taken out (OnLogonClientClosed). *)
LEMMA RemoveDistinct ==
  ASSUME NEW S, NEW t \in Seq(S), Distinct(t), NEW i \in DOMAIN t
  PROVE  /\ RemoveAt(t, i) \in Seq(S) /\ Len(RemoveAt(t, i)) = Len(t) - 1
         /\ Distinct(RemoveAt(t, i)) /\ ToSet(RemoveAt(t, i)) = ToSet(t) \ {t[i]}
<1> DEFINE a == SubSeq(t, 1, i - 1)
           b == SubSeq(t, i + 1, Len(t))
           u == a \o b
<1>1. /\ a \in Seq(S) /\ Len(a) = i - 1 /\ \A j \in 1 .. i - 1 : a[j] = t[j]
  BY SubSeqProperties
<1>2. /\ b \in Seq(S) /\ Len(b) = Len(t) - i /\ \A j \in 1 .. (Len(t) - i) : b[j] = t[i + j]
  BY SubSeqProperties
<1> HIDE DEF a, b
<1>3. /\ u \in Seq(S) /\ Len(u) = Len(t) - 1 /\ DOMAIN u = 1 .. (Len(t) - 1)
      /\ \A j \in 1 .. (Len(t) - 1) : u[j] = IF j < i THEN t[j] ELSE t[j + 1]
  BY <1>1, <1>2
<1>4. u = RemoveAt(t, i)
  BY DEF RemoveAt, a, b
<1> HIDE DEF u
<1>5. Distinct(u)
  BY SMTT(40), <1>3 DEF Distinct
<1>6. \A j \in 1 .. Len(t) : j # i => t[j] \in ToSet(u)
  <2> SUFFICES ASSUME NEW j \in 1 .. Len(t), j # i PROVE t[j] \in ToSet(u)
    OBVIOUS
  <2>1. CASE j < i
    BY <1>3, <2>1 DEF ToSet
  <2>2. CASE j > i
    <3>1. j - 1 \in 1 .. (Len(t) - 1) /\ u[j - 1] = t[j]
      BY <1>3, <2>2
    <3> QED
      BY <1>3, <3>1 DEF ToSet
  <2> QED
    BY <2>1, <2>2
<1>7. ToSet(u) \subseteq ToSet(t) \ {t[i]}
  BY <1>3 DEF ToSet, Distinct
<1>8. ToSet(t) \ {t[i]} \subseteq ToSet(u)
  BY <1>6 DEF ToSet
<1> QED
  BY <1>3, <1>4, <1>5, <1>7, <1>8

(* The first one is taken (ForceLogoutOld). *)
LEMMA TailDistinct ==
  ASSUME NEW S, NEW t \in Seq(S), Distinct(t), t # <<>>
  PROVE  /\ Tail(t) \in Seq(S) /\ Distinct(Tail(t)) /\ Head(t) \in S
         /\ Head(t) \in ToSet(t) /\ ToSet(Tail(t)) = ToSet(t) \ {Head(t)}
<1> DEFINE u == Tail(t)
<1>1. /\ u \in Seq(S) /\ Len(u) = Len(t) - 1 /\ DOMAIN u = 1 .. (Len(t) - 1)
      /\ \A j \in 1 .. (Len(t) - 1) : u[j] = t[j + 1]
      /\ Head(t) = t[1] /\ 1 \in DOMAIN t /\ Head(t) \in S
  BY HeadTailProperties
<1> HIDE DEF u
<1>2. Distinct(u)
  BY SMTT(40), <1>1 DEF Distinct
<1>3. \A j \in 1 .. Len(t) : j # 1 => t[j] \in ToSet(u)
  <2> SUFFICES ASSUME NEW j \in 1 .. Len(t), j # 1 PROVE t[j] \in ToSet(u)
    OBVIOUS
  <2>1. j - 1 \in 1 .. (Len(t) - 1) /\ u[j - 1] = t[j]
    BY <1>1
  <2> QED
    BY <1>1, <2>1 DEF ToSet
<1>4. Head(t) \in ToSet(t)
  BY <1>1 DEF ToSet
<1>5. ToSet(u) = ToSet(t) \ {Head(t)}
  <2>1. ToSet(u) \subseteq ToSet(t) \ {Head(t)}
    BY <1>1 DEF ToSet, Distinct
  <2>2. ToSet(t) \ {Head(t)} \subseteq ToSet(u)
    BY <1>1, <1>3, ByPlaces
  <2> QED
    BY <2>1, <2>2
<1> QED
  BY <1>1, <1>2, <1>4, <1>5 DEF u

(* As many places as members. *)
LEMMA DistinctCount ==
  ASSUME NEW S, NEW t \in Seq(S), Distinct(t)
  PROVE  Cardinality(ToSet(t)) = Len(t)
<1>1. t \in Bijection(1 .. Len(t), ToSet(t))
  BY DEF Bijection, Injection, Surjection, IsInjective, Distinct, ToSet
<1>2. IsFiniteSet(1 .. Len(t)) /\ Cardinality(1 .. Len(t)) = Len(t)
  <2>1. Len(t) \in Nat /\ 1 \in Int /\ Len(t) \in Int
    OBVIOUS
  <2>2. Cardinality(1 .. Len(t)) = IF 1 > Len(t) THEN 0 ELSE Len(t) - 1 + 1
    BY <2>1, FS_Interval
  <2> QED
    BY <2>1, <2>2, FS_Interval
<1> QED
  BY <1>1, <1>2, FS_Bijection DEF ExistsBijection

-----------------------------------------------------------------------------
(* The steps *)

(* The highest state is ApReady (RcSessionSt). *)
LEMMA ApReadyIsHighest ==
  ASSUME NEW x \in SessionStates, ~Below(x, "ApReady")
  PROVE  x = "ApReady"
<1>1. DOMAIN States = 1 .. 6
  BY DEF States
<1>2. Rank("ApReady") = 6
  BY <1>1 DEF Rank, States
<1>3. Rank("Closing") = 1 /\ Rank("DeviceLinkReady") = 2 /\ Rank("ProtocolReady") = 3
  BY <1>1 DEF Rank, States
<1>4. Rank("Connecting") = 4 /\ Rank("Logoning") = 5
  BY <1>1 DEF Rank, States
<1> QED
  BY <1>2, <1>3, <1>4 DEF Below, SessionStates

(* The values that are assigned. *)
LEMMA Assigned ==
  ASSUME Typed, NEW s \in Sessions
  PROVE  /\ SaslSt(s) \in SessionStates
         /\ \A x \in SessionStates : SetSt(s, x) => st' \in [Sessions -> SessionStates]
         /\ \A S : ForceLogout(S) => closing' \in [Sessions -> {"no", "yes", "deaf"}]
         /\ Deafen(s) => closing' \in [Sessions -> {"no", "yes", "deaf"}]
<1>1. SaslSt(s) \in SessionStates
  BY DEF Typed, SaslSt, SessionStates
<1>2. ASSUME NEW x \in SessionStates, SetSt(s, x) PROVE st' \in [Sessions -> SessionStates]
  BY <1>2 DEF Typed, SetSt
<1>3. ASSUME NEW S, ForceLogout(S) PROVE closing' \in [Sessions -> {"no", "yes", "deaf"}]
  BY <1>3 DEF Typed, ForceLogout
<1>4. Deafen(s) => closing' \in [Sessions -> {"no", "yes", "deaf"}]
  BY DEF Typed, Deafen
<1> QED
  BY <1>1, <1>2, <1>3, <1>4

(* Initially nobody is there. *)
LEMMA InitInv == PoliciesOK /\ Init => Inv
<1> SUFFICES ASSUME PoliciesOK, Init PROVE Inv
  OBVIOUS
<1>1. Typed
  BY DEF Init, Typed, PoliciesOK, SessionStates
<1>2. ToSet(<<>>) = {} /\ Distinct(<<>>)
  BY DEF ToSet, Distinct
<1>3. Parted /\ Onlines
  BY <1>2 DEF Init, Parted, Onlines
<1>4. Logons /\ Alloweds
  BY <1>2 DEF Init, Logons, Alloweds
<1> QED
  BY <1>1, <1>3, <1>4 DEF Inv

(* What the thread of a session does outside of the table. *)
LEMMA SessionStep ==
  ASSUME Inv, NEW s \in Sessions,
         \/ OnDeviceLinkReady(s) \/ Receives(s) \/ OnCommonTimer(s) \/ OnSaslDone(s) \/ Reject(s)
  PROVE  Inv'
<1> USE DEF Inv
<1>1. UNCHANGED tableVars
  BY DEF OnDeviceLinkReady, Receives, CheckProtocolVersion, NotReady, RecvConnection, RecvLogout,
         RecvCall, RecvSaslFirst, RecvSaslNext, OnCommonTimer, OnSaslDone, Reject
<1>2. Parted' /\ Onlines'
  BY <1>1 DEF Parted, Onlines, tableVars, policyVars
<1>3. CASE OnDeviceLinkReady(s)
  <2>1. Typed'
    BY <1>3 DEF OnDeviceLinkReady, Typed, SetSt, tableVars, policyVars, SessionStates
  <2>2. Logons'
    BY <1>3 DEF OnDeviceLinkReady, Typed, Logons, SetSt, tableVars, policyVars, ToSet
  <2>3. Alloweds'
    BY ZenonT(40), <1>3 DEF OnDeviceLinkReady, Typed, Logons, Alloweds, SetSt, tableVars, policyVars
  <2> QED
    BY <1>2, <2>1, <2>2, <2>3
<1>4. CASE Receives(s)
  <2> USE <1>4 DEF Receives, Hears, Idle, Parsed, Typed, tableVars, policyVars
  <2>1. CASE CheckProtocolVersion(s)
    <3>1. Typed'
      BY <2>1 DEF CheckProtocolVersion, SetSt, Deafen, SessionStates
    <3>2. Logons'
      BY <2>1 DEF CheckProtocolVersion, Logons, ToSet
    <3>3. Alloweds'
      BY <2>1 DEF CheckProtocolVersion, SetSt, Deafen, Alloweds
    <3> QED
      BY <1>2, <3>1, <3>2, <3>3
  <2>2. CASE NotReady(s)
    <3>1. Typed'
      BY <2>2 DEF NotReady, Deafen
    <3>2. Logons'
      BY <2>2 DEF NotReady, Logons, ToSet
    <3>3. Alloweds'
      BY <2>2 DEF NotReady, Deafen, Alloweds
    <3> QED
      BY <1>2, <3>1, <3>2, <3>3
  <2>3. CASE RecvConnection(s)
    <3>1. Typed'
      BY <2>3 DEF RecvConnection, SetSt, ForceLogout, SessionStates
    <3>2. Logons'
      BY <2>3 DEF RecvConnection, Logons, ToSet
    <3>3. Alloweds'
      BY <2>3 DEF RecvConnection, SetSt, ForceLogout, Alloweds
    <3> QED
      BY <1>2, <3>1, <3>2, <3>3
  <2>4. CASE RecvLogout(s)
    <3>1. Typed'
      BY <2>4 DEF RecvLogout, SetSt, ForceLogout, SessionStates
    <3>2. Logons'
      BY <2>4 DEF RecvLogout, Logons, ToSet
    <3>3. Alloweds'
      BY <2>4 DEF RecvLogout, SetSt, ForceLogout, Alloweds
    <3> QED
      BY <1>2, <3>1, <3>2, <3>3
  <2>5. CASE RecvCall(s)
    <3>0. verdict[s] = "allowed"
      BY <2>5, ApReadyIsHighest DEF RecvCall, Alloweds
    <3>1. Typed'
      BY <2>5 DEF RecvCall
    <3>2. Logons'
      BY <2>5 DEF RecvCall, Logons, ToSet
    <3>3. Alloweds'
      BY <2>5, <3>0 DEF RecvCall, Alloweds
    <3> QED
      BY <1>2, <3>1, <3>2, <3>3
  <2>6. CASE RecvSaslFirst(s)
    <3>1. st' \in [Sessions -> SessionStates] /\ closing' \in [Sessions -> {"no", "yes", "deaf"}]
      BY <2>6, Assigned DEF RecvSaslFirst, Challenge, SaslFails
    <3>2. Typed'
      BY <2>6, <3>1 DEF RecvSaslFirst, Challenge, SaslFails
    <3>3. Logons'
      BY <2>6 DEF RecvSaslFirst, Challenge, SaslFails, Logons, ToSet
    <3>4. Alloweds'
      BY <2>6 DEF RecvSaslFirst, Challenge, SaslFails, SaslSt, SetSt, ForceLogout, Alloweds
    <3> QED
      BY <1>2, <3>2, <3>3, <3>4
  <2>7. CASE RecvSaslNext(s)
    <3>1. st' \in [Sessions -> SessionStates] /\ closing' \in [Sessions -> {"no", "yes", "deaf"}]
      BY <2>7, Assigned DEF RecvSaslNext, SaslFails
    <3>2. Typed'
      BY <2>7, <3>1 DEF RecvSaslNext, SaslFails
    <3>3. Logons'
      BY <2>7 DEF RecvSaslNext, SaslFails, Logons, ToSet
    <3>4. Alloweds'
      BY <2>7 DEF RecvSaslNext, SaslFails, SaslSt, SetSt, ForceLogout, Alloweds
    <3> QED
      BY <1>2, <3>2, <3>3, <3>4
  <2> QED
    BY <2>1, <2>2, <2>3, <2>4, <2>5, <2>6, <2>7
<1>5. CASE OnCommonTimer(s) \/ Reject(s)
  <2>1. Typed'
    BY <1>5 DEF OnCommonTimer, Reject, Typed, ForceLogout, tableVars, policyVars
  <2>2. Logons'
    BY <1>5 DEF OnCommonTimer, Reject, Typed, Logons, tableVars, policyVars, ToSet
  <2>3. Alloweds'
    BY <1>5 DEF OnCommonTimer, Reject, Typed, Alloweds, ForceLogout, tableVars, policyVars
  <2> QED
    BY <1>2, <2>1, <2>2, <2>3
<1>6. CASE OnSaslDone(s)
  <2> USE <1>6 DEF OnSaslDone, Typed, SetSt, SaslSt, ForceLogout, tableVars, policyVars
  <2>0. st' \in [Sessions -> SessionStates] /\ closing' \in [Sessions -> {"no", "yes", "deaf"}]
    BY ZenonT(40), Assigned DEF SessionStates
  <2>1. Typed'
    BY <2>0
  <2>2. Logons'
    BY DEF Logons, ToSet
  <2>3. Alloweds'
    BY DEF Logons, Alloweds
  <2> QED
    BY <1>2, <2>1, <2>2, <2>3
<1> QED
  BY <1>3, <1>4, <1>5, <1>6

(* The administrator changes the policy: what was allowed stays. *)
LEMMA ChangePolicyStep == PoliciesOK /\ Inv /\ ChangePolicy => Inv'
<1> SUFFICES ASSUME PoliciesOK, Inv, ChangePolicy PROVE Inv'
  OBVIOUS
<1>1. Typed'
  BY DEF Inv, ChangePolicy, Typed
<1>2. Parted' /\ Onlines'
  BY DEF Inv, ChangePolicy, Parted, Onlines
<1>3. Logons' /\ Alloweds'
  BY DEF Inv, ChangePolicy, Logons, Alloweds
<1> QED
  BY <1>1, <1>2, <1>3 DEF Inv

(* As many have to go as make the policy right, and there are that many. *)
LEMMA PlaceIsMade ==
  ASSUME PoliciesOK, Inv, ~(TooMany /\ policy.act = "RejectNew")
  PROVE  /\ MakePlace \in 0 .. Len(table)
         /\ policy.max \in Nat /\ (policy.max > 0 => count - MakePlace + 1 <= policy.max)
<1>1. policy \in [max : Nat, act : {"RejectNew", "RejectOld"}]
  BY DEF PoliciesOK, Inv, Typed
<1>2. count = Len(table) /\ count \in Nat
  BY DEF Inv, Typed, Parted
<1> QED
  BY <1>1, <1>2 DEF MakePlace, TooMany

(* CheckLogon: the earliest make place, and the one that asks comes last. *)
LEMMA CheckLogonStep ==
  ASSUME PoliciesOK, Inv, NEW s \in Sessions, CheckLogon(s)
  PROVE  Inv'
<1> DEFINE gone == SubSeq(table, 1, MakePlace)
           left == SubSeq(table, MakePlace + 1, Len(table))
<1>0. /\ pc[s] = "check" /\ pc' = [pc EXCEPT ![s] = "kick"]
      /\ UNCHANGED <<link, closing, st, proto, note, served, policy>>
  BY DEF CheckLogon, tableVars, policyVars
<1>1. link[s] = "ready" /\ note[s] = "over" /\ verdict[s] = "none" /\ kicks[s] = <<>> /\ ~online[s]
  BY <1>0 DEF Inv, Typed, Logons
<1>2. s \notin ToSet(table) /\ (\A r \in Sessions : s \notin ToSet(kicks[r])) /\ s \notin served
  BY <1>1 DEF Inv, Onlines, Alloweds
<1>3. CASE verdict' = [verdict EXCEPT ![s] = "refused"] /\ UNCHANGED tableVars
  <2>1. Typed'
    BY <1>0, <1>3 DEF Inv, Typed, tableVars, policyVars
  <2>2. Parted' /\ Onlines'
    BY <1>3 DEF Inv, Parted, Onlines, tableVars, policyVars
  <2>3. Logons'
    BY <1>0, <1>1, <1>3 DEF Inv, Typed, Logons, tableVars, policyVars
  <2>4. Alloweds'
    BY <1>0, <1>1, <1>2, <1>3 DEF Inv, Typed, Logons, Alloweds, tableVars, policyVars
  <2> QED
    BY <2>1, <2>2, <2>3, <2>4 DEF Inv
<1>4. CASE ~(verdict' = [verdict EXCEPT ![s] = "refused"] /\ UNCHANGED tableVars)
  <2>0. /\ ~(TooMany /\ policy.act = "RejectNew") /\ limit' = policy.max
        /\ table' = Append(left, s) /\ count' = count - MakePlace + 1
        /\ kicks' = [kicks EXCEPT ![s] = gone] /\ online' = [online EXCEPT ![s] = TRUE]
        /\ verdict' = [verdict EXCEPT ![s] = "allowed"]
    BY <1>4 DEF CheckLogon
  <2>1. /\ MakePlace \in 0 .. Len(table)
        /\ policy.max \in Nat /\ (policy.max > 0 => count - MakePlace + 1 <= policy.max)
    BY <2>0, PlaceIsMade
  <2>2. /\ table \in Seq(Sessions) /\ Distinct(table) /\ count = Len(table) /\ Len(table) \in Nat
    BY DEF Inv, Typed, Parted
  <2>3. /\ gone \in Seq(Sessions) /\ left \in Seq(Sessions) /\ Distinct(gone) /\ Distinct(left)
        /\ Len(left) = Len(table) - MakePlace
        /\ ToSet(gone) \cap ToSet(left) = {} /\ ToSet(gone) \cup ToSet(left) = ToSet(table)
    BY <2>1, <2>2, SplitDistinct
  <2> HIDE DEF gone, left
  <2>4. /\ table' \in Seq(Sessions) /\ Len(table') = Len(left) + 1
        /\ Distinct(table') /\ ToSet(table') = ToSet(left) \cup {s}
    BY <1>2, <2>0, <2>3, AppendDistinct
  <2>5. kicks'[s] = gone /\ \A r \in Sessions : r # s => kicks'[r] = kicks[r]
    BY <2>0 DEF Inv, Typed
  <2>6. count' \in Nat /\ count' = Len(table') /\ (policy.max > 0 => count' <= policy.max)
    BY <2>0, <2>1, <2>2, <2>3, <2>4
  <2>7. Typed'
    <3>1. kicks' \in [Sessions -> Seq(Sessions)] /\ online' \in [Sessions -> BOOLEAN]
      BY <2>0, <2>3 DEF Inv, Typed
    <3> QED
      BY <1>0, <2>0, <2>1, <2>4, <2>6, <3>1 DEF Inv, Typed
  <2>8. Parted'
    <3>1. \A r \in Sessions : Distinct(kicks'[r]) /\ ToSet(kicks'[r]) \cap ToSet(table') = {}
      BY <1>2, <2>3, <2>4, <2>5 DEF Inv, Parted
    <3>2. \A q, r \in Sessions : q # r => ToSet(kicks'[q]) \cap ToSet(kicks'[r]) = {}
      BY <2>3, <2>5 DEF Inv, Parted
    <3> QED
      BY <2>0, <2>4, <2>6, <3>1, <3>2 DEF Parted
  <2>9. Onlines'
    <3>1. online'[s] /\ \A r \in Sessions : r # s => online'[r] = online[r]
      BY <2>0 DEF Inv, Typed
    <3>2. ToSet(table) \subseteq Sessions /\ \A q \in Sessions : ToSet(kicks[q]) \subseteq Sessions
      BY ByPlaces DEF Inv, Typed
    <3>3. \A r \in ToSet(table') : online'[r]
      BY <2>3, <2>4, <3>1, <3>2 DEF Inv, Onlines
    <3>4. \A q \in Sessions : \A r \in ToSet(kicks'[q]) : online'[r]
      BY <1>2, <2>3, <2>5, <3>1, <3>2 DEF Inv, Onlines
    <3>5. ASSUME NEW r \in Sessions, online'[r]
          PROVE  r \in ToSet(table') \/ \E q \in Sessions : r \in ToSet(kicks'[q])
      <4>1. CASE r = s
        BY <2>4, <4>1
      <4>2. CASE r # s /\ r \in ToSet(table)
        BY <2>3, <2>4, <2>5, <4>2
      <4>3. CASE r # s /\ r \notin ToSet(table)
        <5>1. PICK q \in Sessions : r \in ToSet(kicks[q])
          BY <3>1, <3>5, <4>3 DEF Inv, Onlines
        <5>2. q # s
          BY <1>1, <5>1 DEF ToSet
        <5> QED
          BY <2>5, <5>1, <5>2
      <4> QED
        BY <4>1, <4>2, <4>3
    <3> QED
      BY <3>3, <3>4, <3>5 DEF Onlines
  <2>10. Logons'
    <3>1. \A r \in Sessions : r # s => pc'[r] = pc[r] /\ verdict'[r] = verdict[r] /\ online'[r] = online[r]
      BY <1>0, <2>0 DEF Inv, Typed
    <3>2. pc'[s] = "kick" /\ verdict'[s] = "allowed" /\ link'[s] = "ready" /\ note'[s] = "over"
      BY <1>0, <1>1, <2>0 DEF Inv, Typed
    <3>3. \A r \in Sessions : r # s /\ r \in ToSet(table') => r \in ToSet(table)
      BY <2>3, <2>4
    <3> QED
      BY <1>0, <2>5, <3>1, <3>2, <3>3 DEF Inv, Logons
  <2>11. Alloweds'
    BY <1>0, <1>1, <2>0 DEF Inv, Typed, Alloweds
  <2> QED
    BY <2>7, <2>8, <2>9, <2>10, <2>11 DEF Inv
<1> QED
  BY <1>3, <1>4

(* ForceLogoutOld: the first one that made place is told, and is not online. *)
LEMMA ForceLogoutOldStep ==
  ASSUME Inv, NEW s \in Sessions, ForceLogoutOld(s)
  PROVE  Inv'
<1> DEFINE h == Head(kicks[s])
<1>0. /\ pc[s] = "kick" /\ kicks[s] # <<>> /\ kicks' = [kicks EXCEPT ![s] = Tail(@)]
      /\ online' = [online EXCEPT ![h] = FALSE] /\ ForceLogout({h})
      /\ UNCHANGED <<link, st, proto, note, policy, limit, table, count, pc, verdict, served>>
  BY DEF ForceLogoutOld, policyVars
<1>1. kicks[s] \in Seq(Sessions) /\ Distinct(kicks[s])
  BY DEF Inv, Typed, Parted
<1>2. /\ Tail(kicks[s]) \in Seq(Sessions) /\ Distinct(Tail(kicks[s])) /\ h \in Sessions
      /\ h \in ToSet(kicks[s]) /\ ToSet(Tail(kicks[s])) = ToSet(kicks[s]) \ {h}
  BY <1>0, <1>1, TailDistinct
<1> HIDE DEF h
<1>3. kicks'[s] = Tail(kicks[s]) /\ \A r \in Sessions : r # s => kicks'[r] = kicks[r]
  BY <1>0 DEF Inv, Typed
<1>4. \A r \in Sessions : ToSet(kicks'[r]) = ToSet(kicks[r]) \ {h}
  <2> SUFFICES ASSUME NEW r \in Sessions, r # s PROVE h \notin ToSet(kicks[r])
    BY <1>2, <1>3
  <2> QED
    BY <1>2 DEF Inv, Parted
<1>5. ~online'[h] /\ \A r \in Sessions : r # h => online'[r] = online[r]
  BY <1>0, <1>2 DEF Inv, Typed
<1>6. ToSet(table) \subseteq Sessions /\ \A q \in Sessions : ToSet(kicks[q]) \subseteq Sessions
  BY ByPlaces DEF Inv, Typed
<1>7. Typed'
  <2>1. kicks' \in [Sessions -> Seq(Sessions)] /\ online' \in [Sessions -> BOOLEAN]
    BY <1>0, <1>2 DEF Inv, Typed
  <2>2. closing' \in [Sessions -> {"no", "yes", "deaf"}]
    BY <1>0, Assigned DEF Inv
  <2> QED
    BY <1>0, <2>1, <2>2 DEF Inv, Typed
<1>8. Parted'
  <2>1. \A r \in Sessions : Distinct(kicks'[r])
    BY <1>2, <1>3 DEF Inv, Parted
  <2> QED
    BY <1>0, <1>4, <2>1 DEF Inv, Parted
<1>9. Onlines'
  <2>1. h \notin ToSet(table)
    BY <1>2 DEF Inv, Parted
  <2>2. \A r \in ToSet(table') : online'[r]
    BY <1>0, <1>5, <1>6, <2>1 DEF Inv, Onlines
  <2>3. \A q \in Sessions : \A r \in ToSet(kicks'[q]) : online'[r]
    BY <1>4, <1>5, <1>6 DEF Inv, Onlines
  <2>4. \A r \in Sessions : online'[r] => r \in ToSet(table') \/ \E q \in Sessions : r \in ToSet(kicks'[q])
    BY <1>0, <1>4, <1>5 DEF Inv, Onlines
  <2> QED
    BY <2>2, <2>3, <2>4 DEF Onlines
<1>10. Logons'
  <2>1. \A r \in Sessions : kicks'[r] # <<>> => pc'[r] = "kick"
    BY <1>0, <1>3 DEF Inv, Logons
  <2> QED
    BY <1>0, <1>5, <2>1 DEF Inv, Logons
<1>11. Alloweds'
  <2>1. ASSUME NEW r \in Sessions, closing'[r] = "no" PROVE closing[r] = "no" /\ (r = h => link[r] # "ready")
    BY <1>0, <2>1 DEF ForceLogout
  <2> QED
    BY <1>0, <1>5, <2>1 DEF Inv, Alloweds
<1> QED
  BY <1>7, <1>8, <1>9, <1>10, <1>11 DEF Inv

(* OnSessionLinkBroken: what has a place will give it back. *)
LEMMA LinkBrokenStep ==
  ASSUME Inv, NEW s \in Sessions, LinkBroken(s)
  PROVE  Inv'
<1>0. /\ pc[s] = "idle" /\ link' = [link EXCEPT ![s] = "broken"] /\ closing' = [closing EXCEPT ![s] = "no"]
      /\ st' = [st EXCEPT ![s] = "Closing"] /\ proto' = [proto EXCEPT ![s] = FALSE]
      /\ note' = [note EXCEPT ![s] = "none"]
      /\ pc' = [pc EXCEPT ![s] = IF online[s] THEN "closed" ELSE "idle"]
      /\ verdict' = [verdict EXCEPT ![s] = "none"] /\ served' = served \ {s}
      /\ UNCHANGED <<online, policy, limit, table, count, kicks>>
  BY DEF LinkBroken, Idle, SetSt, tableVars, policyVars
<1>1. Typed'
  BY <1>0 DEF Inv, Typed, SessionStates
<1>2. Parted' /\ Onlines'
  BY <1>0 DEF Inv, Parted, Onlines
<1>3. Logons'
  <2>1. ~online[s] => s \notin ToSet(table)
    BY DEF Inv, Onlines
  <2>2. pc[s] # "kick" /\ kicks[s] = <<>>
    BY <1>0 DEF Inv, Logons
  <2> QED
    BY <1>0, <2>1, <2>2 DEF Inv, Typed, Logons
<1>4. Alloweds'
  BY <1>0 DEF Inv, Typed, Alloweds
<1> QED
  BY <1>1, <1>2, <1>3, <1>4 DEF Inv

(* OnLogonClientClosed: a place is given back unless it was given away. *)
LEMMA OnLogonClientClosedStep ==
  ASSUME Inv, NEW s \in Sessions, OnLogonClientClosed(s)
  PROVE  Inv'
<1>0. /\ pc[s] = "closed" /\ pc' = [pc EXCEPT ![s] = "idle"]
      /\ UNCHANGED <<link, closing, st, proto, note, policy, limit, kicks, verdict, served>>
  BY DEF OnLogonClientClosed, policyVars
<1>1. link[s] = "broken"
  BY <1>0 DEF Inv, Logons
<1>2. CASE online[s] /\ s \in ToSet(table)
  <2>1. online' = [online EXCEPT ![s] = FALSE] /\ count' = count - 1
    BY <1>2 DEF OnLogonClientClosed
  <2>2. PICK i \in DOMAIN table : table[i] = s /\ table' = RemoveAt(table, i)
    BY <1>2 DEF OnLogonClientClosed
  <2>3. /\ table \in Seq(Sessions) /\ Distinct(table) /\ count = Len(table) /\ Len(table) \in Nat
    BY DEF Inv, Typed, Parted
  <2>4. /\ table' \in Seq(Sessions) /\ Len(table') = Len(table) - 1
        /\ Distinct(table') /\ ToSet(table') = ToSet(table) \ {s}
    BY <2>2, <2>3, RemoveDistinct
  <2>5. Len(table') \in Nat
    BY <2>4
  <2>6. Typed'
    BY <1>0, <2>1, <2>3, <2>4, <2>5 DEF Inv, Typed
  <2>7. Parted'
    BY <1>0, <2>1, <2>3, <2>4 DEF Inv, Typed, Parted
  <2>8. ~online'[s] /\ \A r \in Sessions : r # s => online'[r] = online[r]
    BY <2>1 DEF Inv, Typed
  <2>9. \A r \in Sessions : s \notin ToSet(kicks[r])
    BY <1>2 DEF Inv, Parted
  <2>10. ToSet(table) \subseteq Sessions /\ \A q \in Sessions : ToSet(kicks[q]) \subseteq Sessions
    BY ByPlaces DEF Inv, Typed
  <2>11. Onlines'
    BY <1>0, <2>4, <2>8, <2>9, <2>10 DEF Inv, Onlines
  <2>12. Logons'
    BY <1>0, <1>1, <2>4, <2>8 DEF Inv, Typed, Logons
  <2>13. Alloweds'
    BY <1>0, <1>1, <2>8 DEF Inv, Alloweds
  <2> QED
    BY <2>6, <2>7, <2>11, <2>12, <2>13 DEF Inv
<1>3. CASE ~(online[s] /\ s \in ToSet(table))
  <2>1. UNCHANGED <<online, table, count>> /\ s \notin ToSet(table)
    BY <1>3 DEF OnLogonClientClosed, Inv, Onlines
  <2>2. Typed'
    BY <1>0, <2>1 DEF Inv, Typed
  <2>3. Parted' /\ Onlines'
    BY <1>0, <2>1 DEF Inv, Parted, Onlines
  <2>4. Logons'
    BY <1>0, <1>1, <2>1 DEF Inv, Typed, Logons
  <2>5. Alloweds'
    BY <1>0, <2>1 DEF Inv, Alloweds
  <2> QED
    BY <2>2, <2>3, <2>4, <2>5 DEF Inv
<1> QED
  BY <1>2, <1>3

LEMMA NextInv == PoliciesOK /\ Inv /\ [Next]_rcVars => Inv'
<1> SUFFICES ASSUME PoliciesOK, Inv, [Next]_rcVars PROVE Inv'
  OBVIOUS
<1>1. CASE ChangePolicy
  BY <1>1, ChangePolicyStep
<1>2. ASSUME NEW s \in Sessions,
             OnDeviceLinkReady(s) \/ Receives(s) \/ OnCommonTimer(s) \/ Goes(s) \/ Reject(s) \/ LinkBroken(s)
      PROVE  Inv'
  BY <1>2, SessionStep, CheckLogonStep, ForceLogoutOldStep, LinkBrokenStep, OnLogonClientClosedStep DEF Goes
<1>3. CASE UNCHANGED rcVars
  <2>1. Typed' /\ Logons' /\ Alloweds'
    BY <1>3 DEF Inv, Typed, Logons, Alloweds, rcVars
  <2>2. Parted' /\ Onlines'
    BY <1>3 DEF Inv, Parted, Onlines, rcVars
  <2> QED
    BY <2>1, <2>2 DEF Inv
<1> QED
  BY <1>1, <1>2, <1>3 DEF Next

(* The invariant, under the policies an administrator may set. *)
THEOREM RcInvariant == PoliciesOK /\ Spec => []Inv
<1> SUFFICES ASSUME PoliciesOK PROVE Spec => []Inv
  OBVIOUS
<1>1. Init => Inv
  BY InitInv
<1>2. Inv /\ [Next]_rcVars => Inv'
  BY NextInv
<1> QED
  BY <1>1, <1>2, PTL DEF Spec

-----------------------------------------------------------------------------
(* What follows *)

(* The table has no more sessions than the policy allowed, each once; who is
   neither in it nor about to be told has no Online_ (PoDupLogonTree). *)
THEOREM PlacesAreCountedAlways == PoliciesOK /\ Spec => []PlacesAreCounted
<1>1. Inv => PlacesAreCounted
  <2> SUFFICES ASSUME Inv PROVE PlacesAreCounted
    OBVIOUS
  <2>1. table \in Seq(Sessions) /\ Distinct(table) /\ count = Len(table) /\ (limit > 0 => count <= limit)
    BY DEF Inv, Typed, Parted
  <2>2. Cardinality(ToSet(table)) = Len(table)
    BY <2>1, DistinctCount
  <2>3. \A s : s \in Leaving <=> \E r \in Sessions : s \in ToSet(kicks[r])
    BY DEF Leaving
  <2>4. \A s \in Sessions : online[s] <=> s \in Places \cup Leaving
    BY <2>3 DEF Inv, Onlines, Places
  <2>5. Places \cap Leaving = {}
    BY <2>3 DEF Inv, Parted, Places
  <2> QED
    BY <2>1, <2>2, <2>4, <2>5 DEF PlacesAreCounted, Places
<1> QED
  BY <1>1, RcInvariant, PTL

(* A session whose link is broken has given its place back (OnLogonClientClosed). *)
THEOREM NoPlaceForTheGoneAlways == PoliciesOK /\ Spec => []NoPlaceForTheGone
<1>1. Inv => NoPlaceForTheGone
  BY DEF Inv, Logons, NoPlaceForTheGone, Places
<1> QED
  BY <1>1, RcInvariant, PTL

(* Nobody goes on beside the table after its logon (AutoDupLogout). *)
THEOREM OnlineHasAPlaceAlways == PoliciesOK /\ Spec => []OnlineHasAPlace
<1>1. Inv => OnlineHasAPlace
  <2> SUFFICES ASSUME Inv, NEW s \in Sessions, st[s] = "ApReady", link[s] = "ready", closing[s] = "no"
               PROVE  s \in Places \cup Leaving
    BY DEF OnlineHasAPlace
  <2>1. online[s]
    BY DEF Inv, Alloweds
  <2> QED
    BY <2>1 DEF Inv, Onlines, Places, Leaving
<1> QED
  BY <1>1, RcInvariant, PTL

(* The application is called for those that were allowed only. *)
THEOREM ServedIfAllowedAlways == PoliciesOK /\ Spec => []ServedIfAllowed
<1>1. Inv => ServedIfAllowed
  BY DEF Inv, Typed, Alloweds, ServedIfAllowed
<1> QED
  BY <1>1, RcInvariant, PTL
=============================================================================
