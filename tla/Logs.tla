--------------------------------- MODULE Logs ---------------------------------
(***************************************************************************)
(* The logger of comLib/Logger_impl.cpp and comLib/Logger.cpp, in two      *)
(* parts.                                                                  *)
(*                                                                         *)
(* The rolling files of LogAppenderFile: the volume the stream is open on, *)
(* the older volumes name.1, name.2, ... and the steps of RollingVolumes   *)
(* on the file system, between which the process may be killed.  A volume  *)
(* has the numbers of its messages and its size.  m_nRollVolumes is not 0, *)
(* only files of this log are in the directory, writing and renaming do    *)
(* not fail, and one thread writes at a time (LogThread, or a thread that  *)
(* holds m_lock).                                                          *)
(*                                                                         *)
(* Asynchronous logging: threads that log (Logger_impl::AppendLine and the *)
(* commands of LogThread), the LogThread that takes their events from      *)
(* m_log_queue and collects lines in m_szBuffer, and the thread that       *)
(* closes the log (Logger_impl::Close).  A line is the sequence of its     *)
(* bytes, and a byte is known by its line and its place.  m_log_queue is   *)
(* the bounded queue that SafeQueue implements; the buffer and the file    *)
(* belong to LogThread until it ended.  The threads have stopped logging   *)
(* when Close is called, and LogThread ends within the 5 seconds Close     *)
(* waits for it.                                                           *)
(***************************************************************************)
EXTENDS Integers, Sequences

CONSTANTS m_nRollVolumes, m_nVolumeSize,
          Sizes,           \* sizes of a message
          MaxMessages,     \* bound on the messages written
          MaxRestarts,     \* bound on the restarts of the process
          Loggers,
          LineLengths,     \* lengths of a line, "\n" included
          m_nBufferSize,   \* not 1: asyncAppendLine does not terminate then
          queue_size,      \* capacity of m_log_queue
          MaxCalls         \* bound on the calls of each logger

ASSUME RollAssumption ==
    m_nRollVolumes \in Nat \ {0} /\ m_nVolumeSize \in Nat /\ Sizes \subseteq Nat
ASSUME BufferAssumption ==
    m_nBufferSize \in Nat \ {1} /\ LineLengths \subseteq Nat

VARIABLES volumes,         \* the files by index; name itself has index 0
          open,            \* m_cLogFile: "closed", "file" or "unlinked"
          m_nIndex, m_nSize,
          rollPc,          \* where doAppendLine, check_file_delete or doOpen is
          todo,            \* the indices of the names that are still to be renamed
          message,         \* the message being written
          size,            \* the size of each message
          restarts,
          meddled          \* somebody deletes volumes now and then

VARIABLES m_log_queue,
          m_szBuffer,      \* the bytes before m_nBufferPos
          file,            \* the bytes flush handed to the appenders
          logRunning,      \* LogThread's m_bRunning
          logPc,           \* where LogThread is
          drained,         \* i, the counter of its last loop
          closing,         \* where Close is
          calls,           \* the calls each logger has made
          logged           \* the bytes of all lines pushed

rollVars == <<volumes, open, m_nIndex, m_nSize, rollPc, todo, message, size, restarts,
              meddled>>
logVars == <<m_log_queue, m_szBuffer, file, logRunning, logPc, drained, closing, calls,
             logged>>

-----------------------------------------------------------------------------
\* The rolling files.
Existing == DOMAIN volumes
Without(k) == [j \in Existing \ {k} |-> volumes[j]]
Put(k, v) == [j \in Existing \cup {k} |-> IF j = k THEN v ELSE volumes[j]]

RollInit ==
    /\ volumes = <<>>
    /\ open = "closed"
    /\ m_nIndex = 0 /\ m_nSize = 0
    /\ rollPc = "start"
    /\ todo = {} /\ message = 0 /\ size = <<>>
    /\ restarts = 0
    /\ meddled \in BOOLEAN

\* Open(true): appends, and creates the file when there is none.
OpenAppend ==
    /\ volumes' = IF 0 \in Existing THEN volumes ELSE Put(0, [lines |-> <<>>, bytes |-> 0])
    /\ open' = "file"

getMaxIndex == CHOOSE k \in Existing \cup {0} : \A j \in Existing : j <= k

doOpen ==
    /\ rollPc = "start"
    /\ m_nIndex' = IF getMaxIndex > m_nRollVolumes THEN m_nRollVolumes ELSE getMaxIndex
    /\ m_nSize' = IF 0 \in Existing THEN volumes[0].bytes ELSE 0
    /\ OpenAppend
    /\ rollPc' = "idle"
    /\ UNCHANGED <<todo, message, size, restarts, meddled>>

\* doAppendLine up to the call of NewLog, which closes the stream.
doAppendLine(len) ==
    /\ rollPc = "idle"
    /\ Len(size) < MaxMessages
    /\ size' = Append(size, len)
    /\ message' = Len(size) + 1
    /\ IF m_nVolumeSize # 0 /\ m_nSize >= m_nVolumeSize
       THEN rollPc' = (IF m_nRollVolumes > 1 THEN "delete" ELSE "reopen") /\ open' = "closed"
       ELSE rollPc' = "write" /\ UNCHANGED open
    /\ UNCHANGED <<volumes, m_nIndex, m_nSize, todo, restarts, meddled>>

\* Mutant: the index of the oldest volume is one too low.
RollDeleteIndex ==
    LET oldest == m_nIndex > 0 /\ m_nIndex >= m_nRollVolumes - 1
    IN  /\ rollPc = "delete"
        /\ m_nIndex' = IF oldest THEN m_nRollVolumes - 1 ELSE m_nIndex
        /\ volumes' = IF oldest THEN Without(m_nRollVolumes - 2) ELSE volumes
        /\ todo' = DOMAIN volumes'
        /\ rollPc' = "rename"
        /\ UNCHANGED <<open, m_nSize, message, size, restarts, meddled>>

\* The oldest volume is deleted, and the names are listed.
RollDelete ==
    LET oldest == m_nIndex > 0 /\ m_nIndex >= m_nRollVolumes - 1
    IN  /\ rollPc = "delete"
        /\ m_nIndex' = IF oldest THEN m_nRollVolumes - 1 ELSE m_nIndex
        /\ volumes' = IF oldest THEN Without(m_nRollVolumes - 1) ELSE volumes
        /\ todo' = DOMAIN volumes'
        /\ rollPc' = "rename"
        /\ UNCHANGED <<open, m_nSize, message, size, restarts, meddled>>

\* rename replaces a file that has the new name; a name that is not there any more
\* is left out.
Renamed(k, new) ==
    IF k < m_nRollVolumes - 1 /\ k \in Existing
    THEN [j \in (Existing \ {k}) \cup {new} |-> volumes[IF j = new THEN k ELSE j]]
    ELSE volumes

\* Mutant: the new index is that of the last volume, not the next one.
RollRenameIndex ==
    /\ rollPc = "rename"
    /\ \E k \in todo : /\ \A j \in todo : j <= k
                       /\ todo' = todo \ {k}
                       /\ volumes' = Renamed(k, m_nIndex + 1)
    /\ UNCHANGED <<open, m_nIndex, m_nSize, rollPc, message, size, restarts, meddled>>

\* The list is sorted with the highest index first, and a name gets the next index.
RollRename ==
    /\ rollPc = "rename"
    /\ \E k \in todo : /\ \A j \in todo : j <= k
                       /\ todo' = todo \ {k}
                       /\ volumes' = Renamed(k, k + 1)
    /\ UNCHANGED <<open, m_nIndex, m_nSize, rollPc, message, size, restarts, meddled>>

RollRenamed ==
    /\ rollPc = "rename" /\ todo = {}
    /\ rollPc' = "reopen"
    /\ UNCHANGED <<volumes, open, m_nIndex, m_nSize, todo, message, size, restarts, meddled>>

\* Open(true) of RollingVolumes, and back in doAppendLine the size is reset.
RollReopen ==
    /\ rollPc = "reopen"
    /\ OpenAppend
    /\ m_nIndex' = m_nIndex + 1
    /\ m_nSize' = 0
    /\ rollPc' = "write"
    /\ UNCHANGED <<todo, message, size, restarts, meddled>>

\* The rest of doAppendLine.  What goes to a file that has no name is lost.
RollWrite ==
    /\ rollPc = "write"
    /\ m_nSize' = m_nSize + size[message]
    /\ volumes' = IF open = "file"
                  THEN Put(0, [lines |-> Append(volumes[0].lines, message),
                               bytes |-> volumes[0].bytes + size[message]])
                  ELSE volumes
    /\ message' = 0
    /\ rollPc' = "idle"
    /\ UNCHANGED <<open, m_nIndex, todo, size, restarts, meddled>>

\* Closes and opens the stream when the file has no name.
check_file_delete ==
    /\ rollPc = "idle"
    /\ 0 \notin Existing
    /\ m_nSize' = 0
    /\ OpenAppend
    /\ UNCHANGED <<m_nIndex, rollPc, todo, message, size, restarts, meddled>>

\* Somebody deletes a volume.
DeleteVolume(k) ==
    /\ meddled
    /\ volumes' = Without(k)
    /\ open' = IF k = 0 /\ open = "file" THEN "unlinked" ELSE open
    /\ UNCHANGED <<m_nIndex, m_nSize, rollPc, todo, message, size, restarts, meddled>>

\* The process is killed and started again.
RollRestart ==
    /\ rollPc # "start"
    /\ restarts < MaxRestarts
    /\ restarts' = restarts + 1
    /\ rollPc' = "start"
    /\ open' = "closed"
    /\ m_nIndex' = 0 /\ m_nSize' = 0
    /\ todo' = {} /\ message' = 0
    /\ UNCHANGED <<volumes, size, meddled>>

Writing == RollDelete \/ RollRename \/ RollRenamed \/ RollReopen \/ RollWrite

RollNext ==
    \/ doOpen
    \/ \E len \in Sizes : doAppendLine(len)
    \/ Writing
    \/ check_file_delete
    \/ RollRestart
    \/ \E k \in Existing : DeleteVolume(k)

RollSpec == RollInit /\ [][RollNext]_rollVars

Lines(k) == volumes[k].lines

\* Read from the highest index down, the volumes give the messages in the order in
\* which they were written.
VolumesInOrder ==
    \A j, k \in Existing : \A a \in DOMAIN Lines(j), b \in DOMAIN Lines(k) :
        j > k \/ (j = k /\ a < b) => Lines(j)[a] < Lines(k)[b]

\* A volume was below m_nVolumeSize when its last message was written.  With one volume
\* RollingVolumes opens the same file again, which then grows as it likes.
VolumeBounded ==
    m_nVolumeSize # 0 /\ m_nRollVolumes > 1 =>
        \A k \in Existing : Lines(k) # <<>> =>
            volumes[k].bytes - size[Lines(k)[Len(Lines(k))]] < m_nVolumeSize

\* The names that RollingVolumes may use.
NamesInRange == Existing \subseteq 0 .. m_nRollVolumes - 1

\* RollingVolumes: the log keeps its order, the size of a volume its limit and the names
\* their number, whatever m_nIndex and m_nSize became in deletions and restarts in the
\* middle of a roll.
RollsSound == VolumesInOrder /\ VolumeBounded /\ NamesInRange

\* A step takes messages from the volume with the highest index and from no other.
OnlyOldestLoses ==
    \A k \in Existing :
        (\E a \in DOMAIN Lines(k) :
            \A j \in Existing' : \A b \in DOMAIN Lines(j)' : Lines(j)'[b] # Lines(k)[a])
        => \A j \in Existing : j <= k

\* RollingVolumes, when nobody else touches the files: a roll deletes the oldest volume
\* and nothing else, also when the process was killed in the middle of an earlier roll
\* and a name is missing.
OnlyOldestLost == [][~ meddled => OnlyOldestLoses]_rollVars

-----------------------------------------------------------------------------
\* Asynchronous logging.  An event has the line it carries; at is how many bytes were
\* pushed before it, which only the properties look at.
Line(t, len) == [k \in 1 .. len |-> <<t, calls[t], k>>]
LogEvent(type, line) == [type |-> type, line |-> line, at |-> Len(logged)]

LogInit ==
    /\ m_log_queue = <<>> /\ m_szBuffer = <<>> /\ file = <<>> /\ logged = <<>>
    /\ logRunning = TRUE
    /\ logPc = "loop" /\ drained = 0
    /\ closing = "no"
    /\ calls = [t \in Loggers |-> 0]

LogCall(t) ==
    /\ closing = "no"
    /\ calls[t] < MaxCalls
    /\ calls' = [calls EXCEPT ![t] = @ + 1]
    /\ UNCHANGED <<m_szBuffer, file, logRunning, logPc, drained, closing>>

\* AppendLine in asynchronous mode: push_log blocks while the queue is full.
AppendLine(t, len) ==
    /\ LogCall(t)
    /\ Len(m_log_queue) < queue_size
    /\ m_log_queue' = Append(m_log_queue, LogEvent("log", Line(t, len)))
    /\ logged' = logged \o Line(t, len)

\* push_flush_command and push_check_delete_command: Push refuses when the queue
\* is full, the event is deleted and the caller is told nothing.
PushCommand(t, type) ==
    /\ LogCall(t)
    /\ m_log_queue' = IF Len(m_log_queue) < queue_size
                      THEN Append(m_log_queue, LogEvent(type, <<>>))
                      ELSE m_log_queue
    /\ UNCHANGED logged

flush_cache ==
    /\ file' = file \o m_szBuffer
    /\ m_szBuffer' = <<>>

\* The rounds of the loop that writes a long line in pieces of m_nBufferSize - 1.
Pieces(len) == IF len < m_nBufferSize THEN 0
               ELSE 1 + (len - m_nBufferSize) \div (m_nBufferSize - 1)

asyncAppendLine(msg) ==
    LET written == Pieces(Len(msg)) * (m_nBufferSize - 1)
    IN  IF m_nBufferSize = 0
        THEN file' = file \o msg /\ UNCHANGED m_szBuffer
        ELSE IF Len(msg) + Len(m_szBuffer) >= m_nBufferSize
        THEN /\ file' = file \o m_szBuffer \o SubSeq(msg, 1, written)
             /\ m_szBuffer' = SubSeq(msg, written + 1, Len(msg))
        ELSE /\ m_szBuffer' = m_szBuffer \o msg
             /\ UNCHANGED file

\* check_file_delete is the business of LogAppenderFile and leaves the lines alone.
process_event(event) ==
    \/ event.type = "log" /\ asyncAppendLine(event.line)
    \/ event.type = "flush" /\ flush_cache
    \/ event.type = "check_delete" /\ UNCHANGED <<m_szBuffer, file>>

\* Pop an event and process it.
LogServe ==
    /\ m_log_queue # <<>>
    /\ m_log_queue' = Tail(m_log_queue)
    /\ process_event(Head(m_log_queue))
    /\ UNCHANGED <<logRunning, closing, calls, logged>>

RunLoop ==
    /\ logPc = "loop"
    /\ logPc' = IF logRunning THEN "pop" ELSE "drain"
    /\ UNCHANGED <<m_log_queue, m_szBuffer, file, logRunning, drained, closing, calls, logged>>

RunServe ==
    /\ logPc = "pop"
    /\ LogServe
    /\ logPc' = "loop"
    /\ UNCHANGED drained

RunTimeout ==
    /\ logPc = "pop"
    /\ m_log_queue = <<>>
    /\ logPc' = "loop"
    /\ UNCHANGED <<m_log_queue, m_szBuffer, file, logRunning, drained, closing, calls, logged>>

\* The last loop counts i up to a size that shrinks.
DrainServe ==
    /\ logPc = "drain" /\ drained < Len(m_log_queue)
    /\ LogServe
    /\ drained' = drained + 1
    /\ UNCHANGED logPc

DrainDone ==
    /\ logPc = "drain" /\ drained >= Len(m_log_queue)
    /\ logPc' = "ended"
    /\ UNCHANGED <<m_log_queue, m_szBuffer, file, logRunning, drained, closing, calls, logged>>

CloseStop ==
    /\ closing = "no"
    /\ closing' = "stop"
    /\ logRunning' = FALSE
    /\ UNCHANGED <<m_log_queue, m_szBuffer, file, logPc, drained, calls, logged>>

\* SynStop saw the thread end; what is left in the queue goes with it.
CloseFinish ==
    /\ closing = "stop" /\ logPc = "ended"
    /\ closing' = "closed"
    /\ m_log_queue' = <<>>
    /\ flush_cache
    /\ UNCHANGED <<logRunning, logPc, drained, calls, logged>>

LogThreadStep == RunLoop \/ RunServe \/ RunTimeout \/ DrainServe \/ DrainDone

LogNext ==
    \/ \E t \in Loggers, len \in LineLengths : AppendLine(t, len)
    \/ \E t \in Loggers, type \in {"flush", "check_delete"} : PushCommand(t, type)
    \/ LogThreadStep
    \/ CloseStop
    \/ CloseFinish

LogSpec == LogInit /\ [][LogNext]_logVars

\* The bytes the log thread has taken, and where the line of the k-th event in the queue
\* begins in logged, and behind the last one where logged ends.
Taken == file \o m_szBuffer
Begins(k) == IF k <= Len(m_log_queue) THEN m_log_queue[k].at ELSE Len(logged)

\* No byte of a line is lost, doubled or moved between push_log and the appenders: what
\* was taken is the beginning of what was pushed, each line in the queue begins where the
\* one before it ends, and the last one ends with what was pushed.
BytesInOrder ==
    closing # "closed" =>
        /\ Begins(1) = Len(Taken)
        /\ \A n \in DOMAIN Taken : Taken[n] = logged[n]
        /\ \A k \in DOMAIN m_log_queue :
              LET line == m_log_queue[k].line
              IN  /\ Begins(k + 1) = Begins(k) + Len(line)
                  /\ \A n \in DOMAIN line : line[n] = logged[Begins(k) + n]

\* flush takes m_szBuffer for a string: the byte behind the cached lines is the 0
\* that reset_buffer left there.
BufferTerminated == m_nBufferSize > 0 => Len(m_szBuffer) < m_nBufferSize

\* LogThread: every byte pushed is, once and in its place, in the queue, the buffer or
\* the file, whatever asyncAppendLine, flush_cache and the pieces of long lines do, and
\* m_szBuffer keeps its last byte for the 0 that ends it.
LinesKept == BytesInOrder /\ BufferTerminated

\* RollingVolumes and LogThread: what RollsSound and LinesKept say of the files on disk
\* and of the lines on their way there.
LogsSound == RollsSound /\ LinesKept

\* The last loop of LogThread::run processes what remains in the queue, so a closed
\* log holds every line.
CloseDrains == closing = "closed" => file = logged
=============================================================================
