------------------------------- MODULE LogTail -------------------------------
(***************************************************************************)
(* A log tailer (logtail/mod.rs) and the request ring it feeds             *)
(* (state/requests.rs), with the two things neither controls: the log      *)
(* file, which is appended to, truncated, replaced and removed between any *)
(* two system calls of a poll, and the channel to the application, which   *)
(* other senders may fill.                                                 *)
(*                                                                         *)
(* A byte here is a unit that says something: the recognised part of a     *)
(* request-logger line, a newline, or other text.                          *)
(*                                                                         *)
(* Names that Collector has too begin with Tail: TaskProofs extends both.  *)
(* Definitions named X_Fault are X with a plausible bug; see Recorder.     *)
(***************************************************************************)
EXTENDS Integers, SequencesExt, FiniteSetsExt, Folding

CONSTANTS
  Ids,           \* request ids
  MaxReadPerTick, MaxLineBytes, MaxEventsPerTick,  \* logtail/mod.rs
  MaxEntries,    \* the ring's MAX_ENTRIES
  ChannelCapacity, \* the application's channel, 256
  MaxFileBytes,  \* bound: length of the file
  MaxAppends,    \* bound: bytes written, all files together
  MaxFiles,      \* bound: files (or truncations) the path goes through, and
                 \* system calls that fail although there is one, together
  MaxOthers      \* bound: messages of other senders

ASSUME LimitsAssumption ==
  /\ {MaxReadPerTick, MaxLineBytes, MaxEventsPerTick, MaxEntries, ChannelCapacity}
       \subseteq Nat \ {0}
  /\ MaxFileBytes \in Nat \ {0}

NL == <<"nl", 0>>
Other == <<"other", 0>>
Marks == {"received", "finished"} \X Ids
Bytes == {NL, Other} \cup Marks

VARIABLES
  exists, file,  \* the path: is there a file, and its bytes
  files, writes, \* how many there were, how many bytes were written
  errors,        \* system calls that failed on a file that is there
  pc,            \* the tailer: "tick", or "read" between metadata and open
  metaLen,       \* meta.len(), 0 when there is none
  offset, initialized, carry, skipping,  \* TailerTask
  lastStatus,    \* TailerTask.last_status
  channel,       \* messages to the application, oldest first
  others,        \* messages of other senders so far
  ring,          \* RequestLog.entries, oldest first
  tailStatus,    \* RequestLog.tail_status
  parsed,        \* history: what consume_bytes found since offset was last set
  base,          \* history: ... which was to this
  readFrom,      \* history: the file those bytes came from
  blind          \* history: some of them came from another file

fileVars == <<exists, file, files, writes>>
taskVars == <<metaLen, offset, initialized, carry, skipping, lastStatus>>
appVars == <<ring, tailStatus>>
readVars == <<parsed, base, readFrom, blind>>
tailVars == <<fileVars, errors, pc, taskVars, channel, others, appVars, readVars>>

TailInit ==
  /\ exists \in BOOLEAN
  /\ file \in IF exists THEN {<<>>, <<Other>>} ELSE {<<>>}
  /\ files = 1
  /\ writes = 0
  /\ errors = 0
  /\ pc = "tick"
  /\ metaLen = 0
  /\ offset = 0
  /\ initialized = FALSE
  /\ carry = <<>>
  /\ skipping = FALSE
  /\ lastStatus = "none"
  /\ channel = <<>>
  /\ others = 0
  /\ ring = <<>>
  /\ tailStatus = "none"
  /\ parsed = <<>>
  /\ base = 0
  /\ readFrom = 1
  /\ blind = FALSE

-----------------------------------------------------------------------------
(* The file.                                                               *)

Write(b) ==
  /\ exists
  /\ Len(file) < MaxFileBytes
  /\ writes < MaxAppends
  /\ file' = Append(file, b)
  /\ writes' = writes + 1
  /\ UNCHANGED <<exists, files, errors, pc, taskVars, channel, others, appVars, readVars>>

\* Truncation in place, rotation by rename with a new file, or the appearance
\* of a file where there was none.
Replace ==
  /\ files + errors < MaxFiles
  /\ exists' = TRUE
  /\ file' = <<>>
  /\ files' = files + 1
  /\ UNCHANGED <<writes, errors, pc, taskVars, channel, others, appVars, readVars>>

Unlink ==
  /\ exists
  /\ exists' = FALSE
  /\ file' = <<>>
  /\ UNCHANGED <<files, writes, errors, pc, taskVars, channel, others, appVars, readVars>>

-----------------------------------------------------------------------------
(* Line assembly and parsing.                                              *)

\* parse_line: the first marker of a kind, "Received request" looked for
\* before "Generated response"; nothing in other lines.
ParseLine(line) ==
  LET marks(kind) == {i \in DOMAIN line : line[i][1] = kind} IN
  IF marks("received") # {} THEN <<line[Min(marks("received"))]>>
  ELSE IF marks("finished") # {} THEN <<line[Min(marks("finished"))]>>
  ELSE <<>>

\* One turn of consume_bytes' loop, on what it carries and has found.
Feed_Fault(s, b) ==                            \* the cap checked one byte late
  IF b = NL THEN [carry |-> <<>>, skipping |-> FALSE,
                  found |-> s.found \o IF s.skipping THEN <<>> ELSE ParseLine(s.carry)]
  ELSE IF s.skipping THEN s
  ELSE IF Len(s.carry) > MaxLineBytes
       THEN [s EXCEPT !.carry = <<>>, !.skipping = TRUE]
  ELSE [s EXCEPT !.carry = Append(@, b)]
Feed(s, b) ==
  IF b = NL THEN [carry |-> <<>>, skipping |-> FALSE,
                  found |-> s.found \o IF s.skipping THEN <<>> ELSE ParseLine(s.carry)]
  ELSE IF s.skipping THEN s
  ELSE IF Len(s.carry) >= MaxLineBytes
       THEN [s EXCEPT !.carry = <<>>, !.skipping = TRUE]
  ELSE [s EXCEPT !.carry = Append(@, b)]

consume_bytes(chunk) ==
  Fold(Feed, [carry |-> carry, skipping |-> skipping, found |-> <<>>], chunk)

Newest(s, n) == IF Len(s) > n THEN SubSeq(s, Len(s) - n + 1, Len(s)) ELSE s

-----------------------------------------------------------------------------
(* The rest of a tick, in TailerTask::run: a report, unless there is       *)
(* nothing to say; lost when the channel is full.                          *)

Report(status, events) ==
  /\ pc' = "tick"
  /\ metaLen' = 0
  /\ IF events = <<>> /\ lastStatus = status
     THEN UNCHANGED <<lastStatus, channel>>
     ELSE /\ lastStatus' = status
          /\ channel' = IF Len(channel) < ChannelCapacity
                        THEN Append(channel, [status |-> status, events |-> events])
                        ELSE channel
  /\ UNCHANGED <<fileVars, others, appVars>>

\* The position moves to `at`, and nothing is carried over to it.
Restart_Fault(at) ==                           \* the carried line is kept
  /\ offset' = at
  /\ base' = at
  /\ parsed' = <<>>
  /\ readFrom' = files
  /\ blind' = FALSE
  /\ UNCHANGED <<carry, skipping>>
Restart(at) ==
  /\ offset' = at
  /\ carry' = <<>>
  /\ skipping' = FALSE
  /\ base' = at
  /\ parsed' = <<>>
  /\ readFrom' = files
  /\ blind' = FALSE

-----------------------------------------------------------------------------
(* poll_step, up to the open.                                              *)

\* A system call on the path fails: there is no file, or something else is
\* wrong (permissions, descriptors, a network mount).  The code asks not which.
Fails == exists /\ files + errors < MaxFiles /\ errors' = errors + 1
CallFails == Fails \/ (~ exists /\ UNCHANGED errors)

\* metadata fails: whatever appears later is new.
FindMissing ==
  /\ pc = "tick"
  /\ CallFails
  /\ initialized' = TRUE
  /\ Restart(0)
  /\ Report("missing", <<>>)

\* The first sight of the file starts at its end.
FirstSight ==
  /\ pc = "tick"
  /\ exists
  /\ ~ initialized
  /\ initialized' = TRUE
  /\ Restart(Len(file))
  /\ UNCHANGED errors
  /\ Report("tailing", <<>>)

\* A shrunken file starts over.
Shrunk(len) == len < offset

Unchanged ==
  /\ pc = "tick"
  /\ exists
  /\ initialized
  /\ Len(file) = offset
  /\ UNCHANGED <<errors, offset, initialized, carry, skipping, readVars>>
  /\ Report("tailing", <<>>)

\* A file truncated to nothing has nothing to read either.
Emptied ==
  /\ pc = "tick"
  /\ exists
  /\ initialized
  /\ Shrunk(Len(file))
  /\ file = <<>>
  /\ Restart(0)
  /\ UNCHANGED <<errors, initialized>>
  /\ Report("tailing", <<>>)

FindMore ==
  /\ pc = "tick"
  /\ exists
  /\ initialized
  /\ Len(file) # offset
  /\ file # <<>>
  /\ pc' = "read"
  /\ metaLen' = Len(file)
  /\ IF Shrunk(Len(file)) THEN Restart(0)
     ELSE UNCHANGED <<offset, carry, skipping, readVars>>
  /\ UNCHANGED <<fileVars, errors, initialized, lastStatus, channel, others, appVars>>

-----------------------------------------------------------------------------
(* poll_step, from the open on.  The file may have changed in between.     *)

OpenFails ==
  /\ pc = "read"
  /\ CallFails
  /\ UNCHANGED <<offset, initialized, carry, skipping, readVars>>
  /\ Report("missing", <<>>)

SeekFails ==
  /\ pc = "read"
  /\ Fails
  /\ UNCHANGED <<offset, initialized, carry, skipping, readVars>>
  /\ Report("tailing", <<>>)

LeastOf(a, b) == IF a < b THEN a ELSE b
Want_Fault ==                                  \* only whole buffers are read
  IF metaLen - offset < MaxReadPerTick THEN 0 ELSE MaxReadPerTick
Want == LeastOf(metaLen - offset, MaxReadPerTick)
Readable == LeastOf(Want, IF Len(file) > offset THEN Len(file) - offset ELSE 0)

\* The loop of reads got so many bytes.
Read(filled) ==
  /\ pc = "read"
  /\ exists
  /\ LET after == consume_bytes(SubSeq(file, offset + 1, offset + filled)) IN
     /\ offset' = offset + filled
     /\ carry' = after.carry
     /\ skipping' = after.skipping
     /\ parsed' = parsed \o after.found
     /\ Report("tailing", Newest(after.found, MaxEventsPerTick))
  /\ readFrom' = files
  /\ blind' = (blind \/ (offset > 0 /\ readFrom # files))
  /\ UNCHANGED <<initialized, base>>

ReadAll == Read(Readable) /\ UNCHANGED errors

\* One of the reads fails: what came before it counts.
ReadFails == \E filled \in 0 .. Readable : Fails /\ Read(filled)

Poll ==
  \/ FindMissing \/ FirstSight \/ Unchanged \/ Emptied \/ FindMore
  \/ OpenFails \/ SeekFails \/ ReadAll \/ ReadFails

-----------------------------------------------------------------------------
(* The application's end of the channel.                                   *)

OthersSend ==
  /\ others < MaxOthers
  /\ Len(channel) < ChannelCapacity
  /\ others' = others + 1
  /\ channel' = Append(channel, [status |-> "other", events |-> <<>>])
  /\ UNCHANGED <<fileVars, errors, pc, taskVars, appVars, readVars>>

EntryOf(entries, id) == {i \in DOMAIN entries : entries[i].id = id}

\* RequestLog::apply, one event.
Note_Fault(entries, event) ==                  \* a replayed line pushes a twin
  IF event[1] = "received"
  THEN Newest(Append(entries, [id |-> event[2], done |-> FALSE]), MaxEntries)
  ELSE [i \in DOMAIN entries |->
         IF entries[i].id = event[2] THEN [entries[i] EXCEPT !.done = TRUE] ELSE entries[i]]
Note(entries, event) ==
  IF EntryOf(entries, event[2]) # {}
  THEN [i \in DOMAIN entries |->
         IF entries[i].id = event[2]
         THEN [entries[i] EXCEPT !.done = event[1] = "finished"] ELSE entries[i]]
  ELSE IF event[1] = "received"
  THEN Newest(Append(entries, [id |-> event[2], done |-> FALSE]), MaxEntries)
  ELSE entries

Deliver ==
  /\ channel # <<>>
  /\ channel' = Tail(channel)
  /\ LET m == Head(channel) IN
     IF m.status = "other" THEN UNCHANGED appVars
     ELSE /\ tailStatus' = m.status
          /\ ring' = Fold(Note, ring, m.events)
  /\ UNCHANGED <<fileVars, errors, pc, taskVars, others, readVars>>

TailNext ==
  \/ \E b \in Bytes : Write(b)
  \/ Replace
  \/ Unlink
  \/ Poll
  \/ OthersSend
  \/ Deliver

\* The interval timer fires for ever, and the event loop goes on receiving
\* (see EventLoop); nobody has to write to the file.
Fairness == WF_tailVars(Poll) /\ WF_tailVars(Deliver)
TailSpec == TailInit /\ [][TailNext]_tailVars
FairSpec == TailSpec /\ Fairness

-----------------------------------------------------------------------------
(* Properties.                                                             *)

\* Every variable has its type, and the carried line is within its cap.
TailTypeOK ==
  /\ exists \in BOOLEAN /\ initialized \in BOOLEAN
  /\ skipping \in BOOLEAN /\ blind \in BOOLEAN
  /\ file \in Seq(Bytes) /\ Len(file) <= MaxFileBytes
  /\ pc \in {"tick", "read"}
  /\ {metaLen, offset, base} \subseteq Nat
  /\ carry \in Seq(Bytes \ {NL}) /\ Len(carry) <= MaxLineBytes
  /\ {lastStatus, tailStatus} \subseteq {"none", "missing", "tailing"}
  /\ Len(channel) <= ChannelCapacity
  /\ parsed \in Seq(Marks)

\* What there is to find in s: its complete lines that are not too long.
LineOf(s, n) ==
  LET start == Max({0} \cup {i \in 1 .. n - 1 : s[i] = NL}) + 1 IN SubSeq(s, start, n - 1)
EventsAt(s, n) ==
  IF s[n] = NL /\ Len(LineOf(s, n)) <= MaxLineBytes THEN ParseLine(LineOf(s, n)) ELSE <<>>
EventsIn(s) == Fold(\o, <<>>, [n \in DOMAIN s |-> EventsAt(s, n)])

\* However the polls cut the file, each complete line after the starting
\* point is parsed exactly once and in order, and nothing else is (the
\* tailer's documentation: partial lines are carried, long ones skipped to
\* their newline, a truncated file starts over).  A failed metadata moves the
\* starting point to the top, also of a file that was there all along.  The
\* exception is the one the documentation names: a file replaced by another at
\* least as long.
ReadsEachLineOnce ==
  (~ blind /\ readFrom = files /\ exists /\ offset <= Len(file))
    => parsed = EventsIn(SubSeq(file, base + 1, offset))

\* The ring holds at most one row per request, and at most its capacity,
\* whatever lines are repeated, lost, or read again after a failed call.
OneRowPerRequest ==
  /\ Len(ring) <= MaxEntries
  /\ \A id \in Ids : Cardinality(EntryOf(ring, id)) <= 1

\* A backlog drains over ticks: once the file is left alone, the tailer gets
\* to its end.
BacklogDrains == <>[](exists /\ pc = "tick" => offset = Len(file))

\* logtail/mod.rs on a batch that finds the channel full: "bounded,
\* self-healing".  The pane's status settles on the file's.
StatusSettles == <>[](exists => tailStatus = "tailing")
=============================================================================
