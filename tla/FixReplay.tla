----------------------------- MODULE FixReplay -----------------------------
(***************************************************************************)
(* FixSender::Replay(begin, 0), the answer to an open-ended ResendRequest, *)
(* with the application sending in other threads meanwhile.                *)
(*                                                                         *)
(* While the replay runs, IsReplayingAll_ keeps new messages off the line: *)
(* they are numbered and recorded, and the replay is to pick them up from  *)
(* the record.  The replaying thread reads the record without the lock of  *)
(* the recorder; it takes the lock to set the flag, and again at the end   *)
(* to see that it has read everything, to clear the flag and to send.      *)
(***************************************************************************)
EXTENDS Naturals, Sequences, FiniteSetsExt

CONSTANTS MaxSent,   \* bound: messages recorded
          MaxReplays \* bound: replays started

(* A recorded message is a Report, which is replayed, or an Admin message,
   which is not; a Reset is a SequenceReset together with its RST line. *)
Types == {"Report", "Admin", "Reset"}

VARIABLES file,        \* the "S" lines of the recorder, in order
          nextSend,    \* FixRecorder::NextSendSeq_
          isReplayingAll,
          line,        \* what was handed to the device, in order
          pc,          \* the replaying thread: idle, start, reading or end
          begin,       \* Replayer::BeginSeqNo_
          pos,         \* the last record that was read
          sendBuf,     \* Replayer::SendBuf_
          from,        \* what the peer expects when the replay begins, and how long line was
          hidden,      \* history: a SequenceReset was kept off the line by the last replay
          replays      \* replays started so far

vars == <<file, nextSend, isReplayingAll, line, pc, begin, pos, sendBuf, from, hidden, replays>>

Init == /\ file = <<>> /\ nextSend = 1 /\ isReplayingAll = FALSE /\ line = <<>>
        /\ pc = "idle" /\ begin = 1 /\ pos = 0 /\ sendBuf = <<>>
        /\ from = [seq |-> 1, len |-> 0] /\ hidden = FALSE /\ replays = 0

(* A message on the line: it has number seq, and the next one it announces
   is `next' (NewSeqNo of a SequenceReset, seq + 1 of any other). *)
Sent(type, seq, next) == [type |-> type, seq |-> seq, next |-> next]

(* Mutant: new messages go out while a replay runs. *)
SendLive(type, next) ==
  /\ Len(file) < MaxSent
  /\ file' = Append(file, [type |-> type, seq |-> nextSend])
  /\ line' = Append(line, Sent(type, nextSend, next))
  /\ nextSend' = next
  /\ hidden' = (hidden \/ (isReplayingAll /\ type = "Reset"))
  /\ UNCHANGED <<isReplayingAll, pc, begin, pos, sendBuf, from, replays>>

(* FixSender::Send, under the lock of the recorder: out unless a replay is
   running, and recorded. *)
Send(type, next) ==
  /\ Len(file) < MaxSent
  /\ file' = Append(file, [type |-> type, seq |-> nextSend])
  /\ line' = IF isReplayingAll THEN line ELSE Append(line, Sent(type, nextSend, next))
  /\ nextSend' = next
  /\ hidden' = (hidden \/ (isReplayingAll /\ type = "Reset"))
  /\ UNCHANGED <<isReplayingAll, pc, begin, pos, sendBuf, from, replays>>

AppSend(type) == type # "Reset" /\ Send(type, nextSend + 1)

SequenceReset(newSeqNo) == Send("Reset", newSeqNo)

(* Replay(begin, 0) up to the release of the lock; a replay in progress
   lets no other begin. *)
ReplayStart(b) ==
  /\ pc = "idle" /\ ~isReplayingAll /\ replays < MaxReplays
  /\ isReplayingAll' = TRUE
  /\ pc' = "start" /\ begin' = b /\ sendBuf' = <<>>
  /\ from' = [seq |-> b, len |-> Len(line)]
  /\ hidden' = FALSE
  /\ replays' = replays + 1
  /\ UNCHANGED <<file, nextSend, line, pos>>

(* The records behind the last RST line, from the number b on. *)
Found(b) ==
  LET resets == {i \in DOMAIN file : file[i].type = "Reset"}
      after  == IF resets = {} THEN 0 ELSE Max(resets)
  IN {i \in DOMAIN file : i > after /\ file[i].seq >= b}

(* Replayer::Reload for one record: a Report is rebuilt, behind a GapFill for
   the numbers before it. *)
Reload(i) ==
  LET x == file[i]
      fill == IF begin < x.seq THEN <<Sent("GapFill", begin, x.seq)>> ELSE <<>>
  IN /\ pos' = i
     /\ IF x.type # "Report" THEN UNCHANGED <<begin, sendBuf>>
        ELSE /\ begin' = x.seq + 1
             /\ sendBuf' = sendBuf \o fill \o <<Sent("Report", x.seq, x.seq + 1)>>

(* ReloadSent::Start: everything recorded so far is flushed and searched for
   the first record to replay. *)
ReloadStart ==
  /\ pc = "start"
  /\ IF begin >= nextSend \/ Found(begin) = {}
     THEN pc' = "end" /\ UNCHANGED <<begin, pos, sendBuf>>
     ELSE pc' = "reading" /\ Reload(Min(Found(begin)))
  /\ UNCHANGED <<file, nextSend, isReplayingAll, line, from, hidden, replays>>

(* ReloadSent::FindNext: the next record, or the end of the file. *)
ReloadNext ==
  /\ pc = "reading"
  /\ IF pos = Len(file)
     THEN pc' = "end" /\ UNCHANGED <<begin, pos, sendBuf>>
     ELSE pc' = "reading" /\ Reload(pos + 1)
  /\ UNCHANGED <<file, nextSend, isReplayingAll, line, from, hidden, replays>>

(* Mutant: the flag stays set. *)
ReplayEndStillOn ==
  /\ pc = "end"
  /\ line' = line \o sendBuf
  /\ pc' = "idle" /\ sendBuf' = <<>>
  /\ UNCHANGED <<file, nextSend, isReplayingAll, begin, pos, from, hidden, replays>>

(* The end of Run and of Replay, in one critical section.  Run asks
   IsErrOrEOF, which answers by the last read alone: it found nothing, so
   there is nothing left to load.  What BeginSeqNo_ lacks to the next number
   is filled, or reset. *)
ReplayEnd ==
  /\ pc = "end"
  /\ LET type == IF begin < nextSend THEN "GapFill" ELSE "Reset"
         last == IF begin = nextSend THEN <<>> ELSE <<Sent(type, begin, nextSend)>>
     IN line' = line \o sendBuf \o last
  /\ isReplayingAll' = FALSE /\ pc' = "idle" /\ sendBuf' = <<>>
  /\ UNCHANGED <<file, nextSend, begin, pos, from, hidden, replays>>

Next == \/ \E type \in Types : AppSend(type)
        \/ \E n \in 1..nextSend : SequenceReset(n)
        \/ \E b \in 1..nextSend : ReplayStart(b)
        \/ ReloadStart
        \/ ReloadNext
        \/ ReplayEnd

Spec == Init /\ [][Next]_vars

-----------------------------------------------------------------------------
(* Properties *)

(* The state, and the flag IsReplayingAll_ that is set just while a replay runs. *)
Numbers == Nat \ {0}
Messages == [type : Types \cup {"GapFill"}, seq : Numbers, next : Numbers]

TypeOK == /\ file \in Seq([type : Types, seq : Numbers])
          /\ line \in Seq(Messages) /\ sendBuf \in Seq(Messages)
          /\ nextSend \in Numbers /\ begin \in Numbers /\ pos \in 0..Len(file)
          /\ pc \in {"idle", "start", "reading", "end"} /\ isReplayingAll = (pc # "idle")
          /\ from \in [seq : Numbers, len : 0..Len(line)] /\ hidden \in BOOLEAN /\ replays \in Nat

(* The number the peer expects before the i-th of some messages that begin with
   those it had before it asked, if it expected from.seq then. *)
ExpectedAt(msgs, i) == IF i <= from.len + 1 THEN from.seq ELSE msgs[i - 1].next

(* Each of the later ones has that number; a SequenceReset is always taken. *)
Joined(msgs) ==
  \A i \in from.len + 1 .. Len(msgs) : msgs[i].type = "Reset" \/ msgs[i].seq = ExpectedAt(msgs, i)

(* What the peer expects once the last replay has ended, if it expected
   BeginSeqNo when it asked, is the next number to send. *)
LineComplete ==
  ~isReplayingAll /\ replays > 0 => Joined(line) /\ ExpectedAt(line, Len(line) + 1) = nextSend

(* From the first message of a replay on, the line has neither a gap nor an
   overlap, however the replay and the senders interleave (IsReplayingAll_
   and the lock at the end of Replay), if no SequenceReset was kept off it. *)
NoGapOnTheLine == ~hidden => LineComplete

-----------------------------------------------------------------------------
(* What the comments in Replayer::Run say, and the code does not do. *)

(* "IsErrOrEOF() was checked, so the end of the file was read for certain":
   a number that is left over was not recorded, so no GapFill skips a Report. *)
NoReportSkipped ==
  (\A i \in DOMAIN file : file[i].type # "Reset") =>
    \A i \in DOMAIN line : line[i].type = "GapFill" =>
      \A j \in DOMAIN file : file[j].type = "Report" =>
        ~(line[i].seq <= file[j].seq /\ file[j].seq < line[i].next)

(* "another thread has reset the number, so a SeqReset has to be sent to the
   peer": a SequenceReset made while the replay ran reaches the peer, which
   ends up with the next number to send. *)
ResetReachesPeer == hidden => LineComplete
=============================================================================
