------------------------------- MODULE InnApf -------------------------------
(***************************************************************************)
(* Streams in one file (InnApf, InnStream, InnFile): a stream is a list of *)
(* rooms, the file's header says where each begins. What is appended with  *)
(* a buffer waits in memory; a timer has the pool write it, and so does    *)
(* everybody who reads. The process may stop between any two writes.       *)
(*                                                                         *)
(* What is appended to a stream is 1, 2, 3...; a cell of a room holds one. *)
(* A write of one header or of the cells of one room is one step, and the  *)
(* file keeps what the process has written. Its cache of the rooms         *)
(* (BlockList_) says what the file says: whoever changes a stream's rooms  *)
(* holds its lock.                                                         *)
(***************************************************************************)
EXTENDS Integers, SequencesExt, FiniteSets

CONSTANTS
  Keys,       \* the streams
  Appenders,  \* threads that call AppendBuffered
  Directs,    \* threads that call AppendNoBuffer
  Readers,    \* threads that call Read or Size
  RoomSize,   \* cells of a room
  MaxItems,   \* bound: what is appended to one stream
  MaxReads,   \* bound: calls of Read or Size
  MaxLives    \* bound: how often the file is opened

Updater == "pool"  \* the pool's thread, and the one that destroys the InnApf
Threads == Appenders \cup Directs

VARIABLES
  rooms,     \* the file: its rooms, each with its next, its DataSize and its cells
  exHeader,  \* the file: of every recorded stream, where its first room is (0: none)
  life,      \* "up", "closing", "closed" or "crashed"
  lives,     \* how often the file was opened
  reads,     \* how many reads there were
  open,      \* KeyMap_
  changed,   \* ChangedStreams_
  todo,      \* changedStreams of UpdateChanged: the first is being worked on
  upd,       \* where UpdateChanged is with it
  info,      \* CurrInfo_.FirstRoomPos_
  saved,     \* Saved_.Info_
  recorded,  \* OffsetExHeader_ # 0
  pend,      \* PendingAppend_
  flag,      \* IsNeedsChangedUpdate_
  op,        \* what is done under the lock of a stream, and by whom
  at,        \* where an appending thread is outside the lock, and with which stream
  total      \* how much was appended to a stream

apfVars == <<rooms, exHeader, life, lives, reads, open, changed, todo, upd, info, saved,
             recorded, pend, flag, op, at, total>>

NoRec == -1
NoEnd == -1
Free == [by |-> "none", step |-> "none", pos |-> 0, data |-> <<>>, own |-> <<>>, end |-> NoEnd,
         room |-> 0]
Idle == [step |-> "idle", key |-> "none"]

-----------------------------------------------------------------------------
(* What the file says *)

(* The rooms of a list that begins at r. *)
Chain(file, r) ==
  LET f[n \in 0 .. Len(file)] ==
        IF n = 0 THEN <<>>
        ELSE LET before == f[n - 1]
                 next == IF before = <<>> THEN r ELSE file[Last(before)].next
             IN IF next = 0 \/ next \in ToSet(before) THEN before ELSE Append(before, next)
  IN f[Len(file)]

Content(file, r) ==
  LET chain == Chain(file, r)
  IN FlattenSeq([i \in DOMAIN chain |->
                   SubSeq(file[chain[i]].cells, 1, file[chain[i]].size)])

(* MakeRoomKey, ValidateBlockRoomKey: a room without its header is refused. *)
Loadable(file, r) == \A i \in ToSet(Chain(file, r)) : file[i].size >= 0

Init == /\ rooms = <<>> /\ exHeader = [k \in Keys |-> NoRec]
        /\ life = "up" /\ lives = 1 /\ reads = 0
        /\ open = {} /\ changed = <<>> /\ todo = <<>> /\ upd = "next"
        /\ info = [k \in Keys |-> 0] /\ saved = info /\ recorded = [k \in Keys |-> FALSE]
        /\ pend = [k \in Keys |-> <<>>] /\ flag = [k \in Keys |-> FALSE]
        /\ op = [k \in Keys |-> Free] /\ at = [t \in Threads |-> Idle]
        /\ total = [k \in Keys |-> 0]

fileVars == <<rooms, exHeader>>
lifeVars == <<life, lives, reads>>
recVars == <<info, saved, recorded>>
updVars == <<todo, upd>>

-----------------------------------------------------------------------------
(* Threads that open and append *)

(* OpenStream, with OpenAlways. *)
OpenStream(k) ==
  /\ life = "up" /\ k \notin open
  /\ open' = open \cup {k} /\ changed' = Append(changed, k)
  /\ UNCHANGED <<fileVars, lifeVars, updVars, recVars, pend, flag, op, at, total>>

(* Mutant: the pendings are looked at when the data is in. *)
AppendBufferedLate(t, k) ==
  /\ life = "up" /\ k \in open /\ at[t] = Idle /\ total[k] < MaxItems
  /\ flag' = [flag EXCEPT ![k] = FALSE]
  /\ pend' = [pend EXCEPT ![k] = Append(@, total[k] + 1)]
  /\ total' = [total EXCEPT ![k] = @ + 1]
  /\ at' = [at EXCEPT ![t] = [step |-> "check", key |-> k]]
  /\ UNCHANGED <<fileVars, lifeVars, open, changed, updVars, recVars, op>>

(* AppendBuffered, while it holds the lock of the pendings. *)
AppendBuffered(t, k) ==
  /\ life = "up" /\ k \in open /\ at[t] = Idle /\ total[k] < MaxItems
  /\ flag' = [flag EXCEPT ![k] = pend[k] = <<>>]
  /\ pend' = [pend EXCEPT ![k] = Append(@, total[k] + 1)]
  /\ total' = [total EXCEPT ![k] = @ + 1]
  /\ at' = [at EXCEPT ![t] = [step |-> "check", key |-> k]]
  /\ UNCHANGED <<fileVars, lifeVars, open, changed, updVars, recVars, op>>

(* CheckCurrInfoChanged: the flag is read without a lock... *)
CheckCurrInfoChanged(t) ==
  /\ at[t].step = "check"
  /\ at' = [at EXCEPT ![t] = IF flag[@.key] THEN [@ EXCEPT !.step = "add"] ELSE Idle]
  /\ UNCHANGED <<fileVars, lifeVars, open, changed, updVars, recVars, pend, flag, op, total>>

(* ...and cleared. *)
AddChanged(t) ==
  /\ at[t].step = "add"
  /\ flag' = [flag EXCEPT ![at[t].key] = FALSE]
  /\ changed' = Append(changed, at[t].key)
  /\ at' = [at EXCEPT ![t] = Idle]
  /\ UNCHANGED <<fileVars, lifeVars, open, updVars, recVars, pend, op, total>>

(* AppendNoBuffer: InnStream::Append locks the stream. *)
AppendNoBuffer(t, k) ==
  /\ life = "up" /\ k \in open /\ at[t] = Idle /\ op[k] = Free /\ total[k] < MaxItems
  /\ at' = [at EXCEPT ![t] = [step |-> "append", key |-> k]]
  /\ op' = [op EXCEPT ![k] = [Free EXCEPT !.by = t, !.step = "flush", !.own = <<total[k] + 1>>]]
  /\ total' = [total EXCEPT ![k] = @ + 1]
  /\ UNCHANGED <<fileVars, lifeVars, open, changed, updVars, recVars, pend, flag>>

Read(t, k) ==
  /\ life = "up" /\ k \in open /\ op[k] = Free /\ reads < MaxReads
  /\ reads' = reads + 1
  /\ op' = [op EXCEPT ![k] = [Free EXCEPT !.by = t, !.step = "flush"]]
  /\ UNCHANGED <<fileVars, life, lives, open, changed, updVars, recVars, pend, flag, at, total>>

-----------------------------------------------------------------------------
(* Under the lock of a stream *)

(* Mutant: the pendings are left in the queue that was written. *)
FlushTwice(k) ==
  /\ op[k].step = "flush"
  /\ op' = [op EXCEPT ![k].step = IF pend[k] = <<>> THEN "flushed" ELSE "write",
                      ![k].pos = Len(Content(rooms, info[k])),
                      ![k].data = pend[k]]
  /\ UNCHANGED <<fileVars, lifeVars, open, changed, updVars, recVars, pend, flag, at, total>>

(* Stream::Flush takes what waits, and writes it behind the stream. *)
Flush(k) ==
  /\ op[k].step = "flush"
  /\ op' = [op EXCEPT ![k].step = IF pend[k] = <<>> THEN "flushed" ELSE "write",
                      ![k].pos = Len(Content(rooms, info[k])),
                      ![k].data = pend[k]]
  /\ pend' = [pend EXCEPT ![k] = <<>>]
  /\ UNCHANGED <<fileVars, lifeVars, open, changed, updVars, recVars, flag, at, total>>

(* What AppendNoBuffer was given is being written, not what Flush has taken. *)
IsOwn(k) == op[k].end # NoEnd /\ op[k].own = <<>>

RoomAt(k, pos) == Chain(rooms, info[k])[pos \div RoomSize + 1]
HasRoomAt(k, pos) == pos < Len(Chain(rooms, info[k])) * RoomSize
Fits(k) == {i \in DOMAIN op[k].data : (op[k].pos % RoomSize) + i <= RoomSize}

(* InnFile::Write: first the cells... *)
WriteRoom(k) ==
  /\ op[k].step = "write" /\ op[k].data # <<>> /\ HasRoomAt(k, op[k].pos)
  /\ LET r == RoomAt(k, op[k].pos)
         from == op[k].pos % RoomSize
     IN rooms' = [rooms EXCEPT ![r].cells =
                    [c \in 1 .. RoomSize |-> IF c - from \in Fits(k) THEN op[k].data[c - from] ELSE @[c]]]
  /\ op' = [op EXCEPT ![k].step = "size"]
  /\ UNCHANGED <<exHeader, lifeVars, open, changed, updVars, recVars, pend, flag, at, total>>

(* ...then DataSize. *)
UpdateRoomHeader(k) ==
  /\ op[k].step = "size"
  /\ LET r == RoomAt(k, op[k].pos)
         end == (op[k].pos % RoomSize) + Cardinality(Fits(k))
     IN rooms' = [rooms EXCEPT ![r].size = IF @ < end THEN end ELSE @]
  /\ op' = [op EXCEPT ![k].step = "write", ![k].pos = @ + Cardinality(Fits(k)),
                      ![k].data = SubSeq(@, Cardinality(Fits(k)) + 1, Len(@))]
  /\ UNCHANGED <<exHeader, lifeVars, open, changed, updVars, recVars, pend, flag, at, total>>

(* Mutant: the room before points to the new one before it has a header. *)
MakeNewRoomLinked(k) ==
  LET new == [next |-> 0, size |-> -1, cells |-> [c \in 1 .. RoomSize |-> 0]]
      chain == Chain(rooms, info[k])
  IN /\ op[k].step = "write" /\ op[k].data # <<>> /\ ~HasRoomAt(k, op[k].pos)
     /\ rooms' = Append(IF chain = <<>> THEN rooms
                        ELSE [rooms EXCEPT ![Last(chain)].next = Len(rooms) + 1], new)
     /\ op' = [op EXCEPT ![k].step = "room", ![k].room = Len(rooms) + 1]
     /\ UNCHANGED <<exHeader, lifeVars, open, changed, updVars, recVars, pend, flag, at, total>>

(* AddNewRoom: MakeNewRoom at the end of the file (InnFileP locks)... *)
MakeNewRoom(k) ==
  /\ op[k].step = "write" /\ op[k].data # <<>> /\ ~HasRoomAt(k, op[k].pos)
  /\ rooms' = Append(rooms, [next |-> 0, size |-> -1, cells |-> [c \in 1 .. RoomSize |-> 0]])
  /\ op' = [op EXCEPT ![k].step = "room", ![k].room = Len(rooms) + 1]
  /\ UNCHANGED <<exHeader, lifeVars, open, changed, updVars, recVars, pend, flag, at, total>>

(* ...its header, with no next... *)
FormatRoom(k) ==
  /\ op[k].step = "room"
  /\ rooms' = [rooms EXCEPT ![op[k].room].size = 0]
  /\ op' = [op EXCEPT ![k].step = "link"]
  /\ UNCHANGED <<exHeader, lifeVars, open, changed, updVars, recVars, pend, flag, at, total>>

(* ...and the room before points to it, or it is the first. *)
LinkRoom(k) ==
  LET chain == Chain(rooms, info[k])
      new == op[k].room
  IN /\ op[k].step = "link"
     /\ IF chain = <<>>
        THEN /\ info' = [info EXCEPT ![k] = new] /\ flag' = [flag EXCEPT ![k] = TRUE]  \* OnFirstRoomPosChanged
             /\ UNCHANGED rooms
        ELSE rooms' = [rooms EXCEPT ![Last(chain)].next = new] /\ UNCHANGED <<info, flag>>
     /\ op' = [op EXCEPT ![k].step = "write"]
     /\ UNCHANGED <<exHeader, lifeVars, open, changed, updVars, saved, recorded, pend, at, total>>

(* Flush is done: it calls CheckCurrInfoChanged. *)
FlushDone(k) ==
  /\ op[k].step = "write" /\ op[k].data = <<>> /\ ~IsOwn(k)
  /\ op' = [op EXCEPT ![k].step = "flushed"]
  /\ IF flag[k] THEN flag' = [flag EXCEPT ![k] = FALSE] /\ changed' = Append(changed, k)
                ELSE UNCHANGED <<flag, changed>>
  /\ UNCHANGED <<fileVars, lifeVars, open, updVars, recVars, pend, at, total>>

ReadDone(k) ==
  /\ op[k].step = "flushed" /\ op[k].by \in Readers
  /\ op' = [op EXCEPT ![k] = Free]
  /\ UNCHANGED <<fileVars, lifeVars, open, changed, updVars, recVars, pend, flag, at, total>>

-----------------------------------------------------------------------------
(* AppendNoBuffer goes on *)

(* SeekToEndWithFlush has flushed, and says where the end is... *)
SeekToEnd(k) ==
  /\ op[k].step = "flushed" /\ op[k].by \in Directs /\ op[k].end = NoEnd
  /\ op' = [op EXCEPT ![k].step = "flush", ![k].end = Len(Content(rooms, info[k]))]
  /\ UNCHANGED <<fileVars, lifeVars, open, changed, updVars, recVars, pend, flag, at, total>>

(* ...and IoHandler::Work writes there, after it has flushed once more (SeekWithFlush). *)
WriteOwn(k) ==
  /\ op[k].step = "flushed" /\ op[k].by \in Directs /\ op[k].end # NoEnd
  /\ op' = [op EXCEPT ![k].step = "write", ![k].pos = op[k].end, ![k].data = op[k].own,
                      ![k].own = <<>>]
  /\ UNCHANGED <<fileVars, lifeVars, open, changed, updVars, recVars, pend, flag, at, total>>

OwnDone(k) ==
  /\ op[k].step = "write" /\ op[k].data = <<>> /\ IsOwn(k)
  /\ at' = [at EXCEPT ![op[k].by].step = "check"]
  /\ op' = [op EXCEPT ![k] = Free]
  /\ UNCHANGED <<fileVars, lifeVars, open, changed, updVars, recVars, pend, flag, total>>

-----------------------------------------------------------------------------
(* UpdateChanged, every second in a thread of the pool, and when the InnApf is destroyed *)

TakeChanged ==
  /\ life = "up" /\ todo = <<>> /\ changed # <<>>
  /\ todo' = changed /\ changed' = <<>>
  /\ UNCHANGED <<fileVars, lifeVars, open, upd, recVars, pend, flag, op, at, total>>

UpdateStream ==
  /\ upd = "next" /\ todo # <<>> /\ op[Head(todo)] = Free /\ life \in {"up", "closing"}
  /\ upd' = "locked"
  /\ op' = [op EXCEPT ![Head(todo)] = [Free EXCEPT !.by = Updater, !.step = "flush"]]
  /\ UNCHANGED <<fileVars, lifeVars, open, changed, todo, recVars, pend, flag, at, total>>

(* Mutant: a stream that has its record is not written again. *)
RecordOnce ==
  /\ upd = "locked" /\ op[Head(todo)].step = "flushed"
  /\ LET k == Head(todo)
     IN /\ op' = [op EXCEPT ![k] = Free] /\ upd' = "next" /\ todo' = Tail(todo)
        /\ saved' = [saved EXCEPT ![k] = info[k]] /\ recorded' = [recorded EXCEPT ![k] = TRUE]
        /\ exHeader' = IF recorded[k] THEN exHeader ELSE [exHeader EXCEPT ![k] = info[k]]
  /\ UNCHANGED <<rooms, lifeVars, open, changed, info, pend, flag, at, total>>

(* The stream is flushed. It gets its record, or its record is to be written again, unlocked. *)
Record ==
  /\ upd = "locked" /\ op[Head(todo)].step = "flushed"
  /\ LET k == Head(todo)
         again == recorded[k] /\ saved[k] # info[k]
     IN /\ op' = [op EXCEPT ![k] = Free]
        /\ saved' = [saved EXCEPT ![k] = info[k]] /\ recorded' = [recorded EXCEPT ![k] = TRUE]
        /\ exHeader' = IF recorded[k] THEN exHeader ELSE [exHeader EXCEPT ![k] = info[k]]
        /\ upd' = IF again THEN "write" ELSE "next"
        /\ todo' = IF again THEN todo ELSE Tail(todo)
  /\ UNCHANGED <<rooms, lifeVars, open, changed, info, pend, flag, at, total>>

WriteRecord ==
  /\ upd = "write"
  /\ exHeader' = [exHeader EXCEPT ![Head(todo)] = saved[Head(todo)]]
  /\ upd' = "next" /\ todo' = Tail(todo)
  /\ UNCHANGED <<rooms, lifeVars, open, changed, recVars, pend, flag, op, at, total>>

(* The last StreamRW is closed and no task of the pool holds the InnApf. *)
Destroy ==
  /\ life = "up" /\ todo = <<>> /\ upd = "next"
  /\ \A t \in Threads : at[t] = Idle
  /\ \A k \in Keys : op[k] = Free
  /\ life' = "closing" /\ todo' = changed /\ changed' = <<>>
  /\ UNCHANGED <<fileVars, lives, reads, open, upd, recVars, pend, flag, op, at, total>>

Closed ==
  /\ life = "closing" /\ todo = <<>> /\ upd = "next" /\ life' = "closed"
  /\ UNCHANGED <<fileVars, lives, reads, open, changed, updVars, recVars, pend, flag, op, at, total>>

Crash ==
  /\ life \in {"up", "closing"} /\ life' = "crashed"
  /\ UNCHANGED <<fileVars, lives, reads, open, changed, updVars, recVars, pend, flag, op, at, total>>

(* Make, ReadExHeader: every record is a stream. *)
Make ==
  LET first == [k \in Keys |-> IF exHeader[k] = NoRec THEN 0 ELSE exHeader[k]]
  IN /\ life \in {"closed", "crashed"} /\ lives < MaxLives
     /\ life' = "up" /\ lives' = lives + 1
     /\ open' = {k \in Keys : exHeader[k] # NoRec} /\ changed' = <<>> /\ todo' = <<>> /\ upd' = "next"
     /\ info' = first /\ saved' = first /\ recorded' = [k \in Keys |-> exHeader[k] # NoRec]
     /\ pend' = [k \in Keys |-> <<>>] /\ flag' = [k \in Keys |-> FALSE]
     /\ op' = [k \in Keys |-> Free] /\ at' = [t \in Threads |-> Idle]
     /\ total' = [k \in Keys |-> Len(Content(rooms, first[k]))]
     /\ UNCHANGED <<fileVars, reads>>

(* The process runs. *)
Runs(A) == life \in {"up", "closing"} /\ A

Next ==
  \/ \E k \in Keys : OpenStream(k)
  \/ \E t \in Appenders, k \in Keys : AppendBuffered(t, k)
  \/ \E t \in Directs, k \in Keys : AppendNoBuffer(t, k)
  \/ \E t \in Readers, k \in Keys : Read(t, k)
  \/ \E t \in Threads : Runs(CheckCurrInfoChanged(t)) \/ Runs(AddChanged(t))
  \/ \E k \in Keys : \/ Runs(Flush(k)) \/ Runs(WriteRoom(k)) \/ Runs(UpdateRoomHeader(k))
                     \/ Runs(MakeNewRoom(k)) \/ Runs(FormatRoom(k)) \/ Runs(LinkRoom(k))
                     \/ Runs(FlushDone(k)) \/ Runs(ReadDone(k)) \/ Runs(SeekToEnd(k))
                     \/ Runs(WriteOwn(k)) \/ Runs(OwnDone(k))
  \/ TakeChanged \/ UpdateStream \/ Runs(Record) \/ Runs(WriteRecord)
  \/ Destroy \/ Closed \/ Crash \/ Make

Spec == Init /\ [][Next]_apfVars

-----------------------------------------------------------------------------
UpTo(n) == [i \in 1 .. n |-> i]

(* What a stream holds, what is being written and what waits is what was
   appended to it, each once and in order (Stream::Flush, InnStream::Append). *)
AppendedInOrder ==
  life \in {"up", "closing"} =>
    \A k \in Keys : Content(rooms, info[k]) \o op[k].data \o pend[k] \o op[k].own = UpTo(total[k])

(* Nothing that was appended is overwritten by what others append. It does not hold when
   one thread calls AppendNoBuffer while another calls AppendBuffered. *)
NothingOverwritten ==
  life \in {"up", "closing"} =>
    \A k \in Keys :
      ToSet(Content(rooms, info[k]) \o op[k].data \o pend[k] \o op[k].own) = 1 .. total[k]

(* Wherever the process stops, the file can be read: a recorded stream begins with
   what was appended first, without a hole, in rooms of its own, and after a clean
   end all of it is there (AddNewRoom, InnFile::Write, UpdateChanged, ~InnApf). *)
FileIsReadable ==
  \A k \in Keys :
    /\ exHeader[k] > 0 =>
         /\ Loadable(rooms, exHeader[k])
         /\ IsPrefix(Content(rooms, exHeader[k]), UpTo(total[k]))
         /\ \A j \in Keys \ {k} : exHeader[j] > 0 =>
              ToSet(Chain(rooms, exHeader[k])) \cap ToSet(Chain(rooms, exHeader[j])) = {}
    /\ life = "closed" /\ k \in open =>
         exHeader[k] # NoRec /\ Len(Content(rooms, exHeader[k])) = total[k]

(* What has not been written, and a first room that is not recorded, are known to
   UpdateChanged, or to somebody who will tell it (IsNeedsChangedUpdate_, which is
   read and written under different locks and none). *)
SomeoneWillUpdate ==
  life \in {"up", "closing"} =>
    \A k \in open :
      pend[k] # <<>> \/ info[k] # saved[k] \/ ~recorded[k] =>
        \/ k \in ToSet(changed) \cup ToSet(todo)
        \/ flag[k] /\ op[k].data # <<>>
        \/ flag[k] /\ op[k].step = "write"
        \/ \E t \in Threads : at[t].key = k /\ (flag[k] \/ at[t].step = "add")
=============================================================================
