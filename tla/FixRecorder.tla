---------------------------- MODULE FixRecorder ----------------------------
(***************************************************************************)
(* FixRecorder: the two sequence numbers of a FIX session, kept in memory  *)
(* and recoverable from the record file, which an asynchronous appender    *)
(* writes.  The process may stop at any moment; what the appender had not  *)
(* written is lost, and Initialize finds the numbers in what is left by    *)
(* searching the file backwards (LastSeqSearcher).                         *)
(*                                                                         *)
(* A line of the file is                                                   *)
(*   S  a message sent, with its number            R  one received, so too *)
(*   IDX, RST  the next number to send and to receive (0: not given)       *)
(*   other  a line that carries no number (i, e, y, g, d)                  *)
(* A process that stops may leave the lines of one call half written.      *)
(***************************************************************************)
EXTENDS Integers, Sequences, FiniteSetsExt

CONSTANTS MaxSeq,     \* bound: sequence numbers
          MaxLines,   \* bound: lines recorded when a call begins
          MaxStarts   \* bound: starts of the process

ASSUME RecorderAssumption == MaxSeq \in Nat \ {0} /\ MaxLines \in Nat /\ MaxStarts \in Nat

Line(kind, s, r) == [kind |-> kind, s |-> s, r |-> r]
Lines == [kind : {"S", "R", "IDX", "RST", "other"}, s : Nat, r : Nat]

VARIABLES disk,     \* the lines in the file
          queue,    \* the lines the appender has yet to write
          nextSendSeq, \* NextSendSeq_
          nextRecvSeq, \* NextRecvSeq_
          up,       \* the process runs
          sending,  \* the number handed to the device and not yet recorded, or 0
          onLine,   \* history: the numbers handed to the device since the last reset
          starts    \* starts of the process

recorderVars == <<disk, queue, nextSendSeq, nextRecvSeq, up, sending, onLine, starts>>

-----------------------------------------------------------------------------
(* LastSeqSearcher: from the end of the file back to the first line that
   gives the number; a message gives the number after its own. *)

GivesSend(l) == l.kind = "S" \/ (l.kind \in {"IDX", "RST"} /\ l.s > 0)
GivesRecv(l) == l.kind = "R" \/ (l.kind \in {"IDX", "RST"} /\ l.r > 0)
SendOf(l) == IF l.kind = "S" THEN l.s + 1 ELSE l.s
RecvOf(l) == IF l.kind = "R" THEN l.r + 1 ELSE l.r

LastSend(f) == LET found == {i \in DOMAIN f : GivesSend(f[i])}
               IN IF found = {} THEN 1 ELSE SendOf(f[Max(found)])

LastRecv(f) == LET found == {i \in DOMAIN f : GivesRecv(f[i])}
               IN IF found = {} THEN 1 ELSE RecvOf(f[Max(found)])

-----------------------------------------------------------------------------
(* One call of the recorder adds lines and sets the numbers to s and r.  When
   enough was written since the last one an IDX line with the new numbers
   follows. *)

(* Mutant: the IDX line is made before the numbers are set. *)
WriteBufferOldIdx(lines, s, r) ==
  /\ Len(disk) + Len(queue) < MaxLines /\ s <= MaxSeq + 1 /\ r <= MaxSeq + 1
  /\ nextSendSeq' = s /\ nextRecvSeq' = r
  /\ \E idx \in {<<>>, <<Line("IDX", nextSendSeq, nextRecvSeq)>>} : queue' = queue \o lines \o idx

WriteBuffer(lines, s, r) ==
  /\ Len(disk) + Len(queue) < MaxLines /\ s <= MaxSeq + 1 /\ r <= MaxSeq + 1
  /\ nextSendSeq' = s /\ nextRecvSeq' = r
  /\ \E idx \in {<<>>, <<Line("IDX", s, r)>>} : queue' = queue \o lines \o idx

(* The recorder is not locked by a Send. *)
Unlocked == up /\ sending = 0

(* The first Initialize, on an empty file, has just recorded that it was called. *)
RecorderInit == /\ disk = <<>> /\ queue = <<Line("other", 0, 0)>> /\ nextSendSeq = 1 /\ nextRecvSeq = 1
                /\ up = TRUE /\ sending = 0 /\ onLine = {} /\ starts = 1

(* FixSender::Send: OnSendFixMessage hands the message to the device ... *)
SendBegin == /\ Unlocked /\ nextSendSeq <= MaxSeq
             /\ sending' = nextSendSeq
             /\ onLine' = onLine \cup {nextSendSeq}
             /\ UNCHANGED <<disk, queue, nextSendSeq, nextRecvSeq, up, starts>>

(* Mutant: the default of the next number is forgotten. *)
WriteAfterSendNoDefault(newSeqNo) ==
  /\ up /\ sending > 0
  /\ WriteBuffer(<<Line("S", sending, 0), Line("RST", newSeqNo, 0)>>, newSeqNo, nextRecvSeq)
  /\ onLine' = {} /\ sending' = 0
  /\ UNCHANGED <<disk, up, starts>>

(* ... and WriteAfterSend records it, under the same lock.  A SequenceReset
   sets the next number to newSeqNo, any other message (0) to the one after. *)
WriteAfterSend(newSeqNo) ==
  /\ up /\ sending > 0
  /\ IF newSeqNo = 0
     THEN /\ WriteBuffer(<<Line("S", sending, 0)>>, sending + 1, nextRecvSeq)
          /\ onLine' = onLine
     ELSE /\ WriteBuffer(<<Line("S", sending, 0), Line("RST", newSeqNo, 0)>>, newSeqNo, nextRecvSeq)
          /\ onLine' = {}
  /\ sending' = 0
  /\ UNCHANGED <<disk, up, starts>>

(* FixSender::ResetNextSendSeq. *)
ResetNextSendSeq(n) == /\ Unlocked
                       /\ WriteBuffer(<<Line("RST", n, 0)>>, n, nextRecvSeq)
                       /\ onLine' = {}
                       /\ UNCHANGED <<disk, up, sending, starts>>

(* A message with the expected number. *)
WriteInputConform == /\ Unlocked
                     /\ WriteBuffer(<<Line("R", 0, nextRecvSeq)>>, nextSendSeq, nextRecvSeq + 1)
                     /\ UNCHANGED <<disk, up, sending, onLine, starts>>

(* A SequenceReset numbered n: a GapFill has the expected number, a Reset any. *)
WriteInputSeqReset(n, newSeqNo, isGapFill) ==
  /\ Unlocked
  /\ isGapFill => n = nextRecvSeq /\ newSeqNo >= n
  /\ WriteBuffer(<<Line("R", 0, n), Line(IF isGapFill THEN "IDX" ELSE "RST", 0, newSeqNo)>>,
                 nextSendSeq, newSeqNo)
  /\ UNCHANGED <<disk, up, sending, onLine, starts>>

ForceResetRecvSeq(newSeqNo) ==
  /\ Unlocked
  /\ WriteBuffer(<<Line("other", 0, 0), Line("RST", 0, newSeqNo)>>, nextSendSeq, newSeqNo)
  /\ UNCHANGED <<disk, up, sending, onLine, starts>>

(* Write: an error, an ignored or a kept message, an information. *)
Write == /\ Unlocked
         /\ WriteBuffer(<<Line("other", 0, 0)>>, nextSendSeq, nextRecvSeq)
         /\ UNCHANGED <<disk, up, sending, onLine, starts>>

(* The appender's thread writes. *)
ConsumeAppendBuffer == /\ queue # <<>>
                       /\ disk' = Append(disk, Head(queue))
                       /\ queue' = Tail(queue)
                       /\ UNCHANGED <<nextSendSeq, nextRecvSeq, up, sending, onLine, starts>>

(* The process stops, in the middle of a Send or with lines unwritten. *)
Crash == /\ up
         /\ up' = FALSE /\ queue' = <<>> /\ sending' = 0
         /\ UNCHANGED <<disk, nextSendSeq, nextRecvSeq, onLine, starts>>

(* Initialize, of a process started on the file that is left. *)
Initialize == /\ ~up /\ starts < MaxStarts
              /\ starts' = starts + 1 /\ up' = TRUE
              /\ nextSendSeq' = LastSend(disk) /\ nextRecvSeq' = LastRecv(disk)
              /\ queue' = <<Line("other", 0, 0)>>
              /\ UNCHANGED <<disk, sending, onLine>>

Seqs == 1..MaxSeq

RecorderNext == \/ SendBegin
                \/ \E n \in 0..MaxSeq : WriteAfterSend(n)
                \/ \E n \in Seqs : ResetNextSendSeq(n)
                \/ WriteInputConform
                \/ \E n, m \in Seqs, g \in BOOLEAN : WriteInputSeqReset(n, m, g)
                \/ \E n \in Seqs : ForceResetRecvSeq(n)
                \/ Write
                \/ ConsumeAppendBuffer
                \/ Crash
                \/ Initialize

RecorderSpec == RecorderInit /\ [][RecorderNext]_recorderVars

-----------------------------------------------------------------------------
(* Properties *)

(* The types of the state: in particular a number found in a file, however
   little of it was written, is a positive one (FixRecorder::Initialize). *)
RecorderTypeOK == /\ disk \in Seq(Lines) /\ queue \in Seq(Lines)
                  /\ nextSendSeq \in Nat \ {0} /\ nextRecvSeq \in Nat \ {0}
                  /\ up \in BOOLEAN /\ sending \in Nat /\ onLine \subseteq Nat

(* The record of a running recorder: the file and what will follow. *)
Record == disk \o queue

(* What a search of the record finds are the numbers in memory, after any
   calls and resets and wherever the IDX lines fall: a process that is closed
   and started again goes on with the same numbers. *)
Recoverable == up => LastSend(Record) = nextSendSeq /\ LastRecv(Record) = nextRecvSeq

(* "sent messages are written before SendASAP() is called" (FixRecorder.hpp):
   so a process that starts again gives no number to a second message. *)
SentIsWritten == up => \A n \in onLine : n < nextSendSeq \/ n = sending
=============================================================================
