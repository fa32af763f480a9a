----------------------------- MODULE AsyncLogger -----------------------------
(***************************************************************************)
(* rocket::Logger and rocket::AsyncLogger (rocket/common/log.{h,cpp}).     *)
(* Threads push messages into a vector, a repeated timer of the loop that  *)
(* called Logger::init hands what is there to a queue, and a thread of its *)
(* own takes batches off the queue and appends them to files.  There are   *)
(* two such ways side by side, for the framework's messages and for the    *)
(* application's, which syncLoop serves one after the other.               *)
(*                                                                         *)
(* Every guard is unlocked by hand and unlocks again at the end of its     *)
(* scope.  Where that lets two threads into one container, nothing is      *)
(* said any more of what the program does.                                 *)
(***************************************************************************)
EXTENDS Naturals, Sequences, FiniteSets, SequencesExt

CONSTANTS
  Thread,          \* the threads that log
  Loop,            \* the loop's thread, which runs syncLoop
  NoOwner,
  NoFile,
  m_type,          \* of the Logger: 0 prints and has no AsyncLogger
  m_set_level,
  m_max_file_size, \* in messages
  Earlier,         \* the sizes that earlier processes of the same day left of its files
  Logged,          \* bound: the channels that are logged to
  Stoppable,       \* the channels whose stop() somebody calls: nobody does
  MaxLogs,         \* bound: messages that are logged in all
  MaxDate          \* bound: how often the date changes

Channel == {"rpc", "app"}
File    == (0 .. MaxDate) \X (0 .. MaxLogs)

ASSUME ThreadAssumption ==
  /\ IsFiniteSet(Thread)
  /\ Loop \notin Thread /\ NoOwner \notin Thread \cup Channel \cup {Loop}
  /\ Channel \cap (Thread \cup {Loop}) = {}
ASSUME LevelAssumption == m_set_level \in 0 .. 3 /\ m_type \in 0 .. 1
ASSUME StopAssumption == Stoppable \subseteq Channel
ASSUME BoundAssumption ==
  /\ Logged \subseteq Channel
  /\ MaxLogs \in Nat /\ MaxDate \in Nat /\ m_max_file_size \in Nat
ASSUME FileAssumption == NoFile \notin File
ASSUME EarlierAssumption == Earlier \subseteq [Channel -> [0 .. MaxLogs -> Nat]]

VARIABLES
  at,           \* where a logging thread is
  to,           \* the channel it logs to
  m_buffer,     \* the Logger's m_buffer and m_app_buffer
  m_mutex,      \* who owns their mutexes
  pc,           \* where the loop's thread is in the constructor, syncLoop
  chan,         \* for which channel
  temp_vec,     \* syncLoop's locals
  queue,        \* the AsyncLoggers' m_buffer: batches
  async_mutex,  \* who owns their mutexes
  apc,          \* where the AsyncLoggers' threads are
  temp,         \* their locals
  cond,         \* m_condition is initialised
  m_stop_flag,
  m_date, m_no, m_file_handler,
  files,        \* the size of each file
  earlier,      \* its size when the process started
  written,      \* what was written, in order
  pushed,       \* what pushLog was called with, in order
  today

logVars   == <<at, to, m_buffer, m_mutex, pushed>>
syncVars  == <<pc, chan, temp_vec>>
asyncVars == <<queue, async_mutex, apc, temp, cond, m_stop_flag>>
fileVars  == <<m_date, m_no, m_file_handler, files, earlier, written>>
vars == <<logVars, syncVars, asyncVars, fileVars, today>>

At  == {"idle", "lock", "push", "return"}
Pc  == {"ctor", "sem_wait", "idle", "lock", "swap", "push_lock", "push", "signal",
        "push_return", "return"}
Apc == {"none", "start", "lock", "check", "wait", "stray", "write", "end", "exited"}

(* LogLevel, and the level at which each macro still logs: those for errors *)
(* compare with Debug.                                                      *)
Levels == {"Debug", "Info", "Error"}
LogLevel(level) == CASE level = "Debug" -> 1 [] level = "Info" -> 2 [] level = "Error" -> 3
Logs(level) == m_set_level <= LogLevel(IF level = "Error" THEN "Debug" ELSE level)

Init ==
  /\ at = [t \in Thread |-> "idle"] /\ to = [t \in Thread |-> "rpc"]
  /\ m_buffer = [c \in Channel |-> <<>>]
  /\ m_mutex = [c \in Channel |-> NoOwner]
  /\ pushed = [c \in Channel |-> <<>>]
  /\ pc = IF m_type = 0 THEN "idle" ELSE "ctor"
  /\ chan = "rpc"
  /\ temp_vec = <<>>
  /\ queue = [c \in Channel |-> <<>>]
  /\ async_mutex = [c \in Channel |-> NoOwner]
  /\ apc = [c \in Channel |-> "none"]
  /\ temp = [c \in Channel |-> <<>>]
  /\ cond = [c \in Channel |-> FALSE]
  /\ m_stop_flag = [c \in Channel |-> FALSE]
  /\ m_date = [c \in Channel |-> MaxDate + 1]
  /\ m_no = [c \in Channel |-> 0]
  /\ m_file_handler = [c \in Channel |-> NoFile]
  /\ \E sizes \in Earlier :
       earlier = [c \in Channel |-> [f \in File |-> IF f[1] = 0 THEN sizes[c][f[2]] ELSE 0]]
  /\ files = earlier
  /\ written = [c \in Channel |-> <<>>]
  /\ today = 0

(* Two threads between a lock and its unlock. *)
InBuffer(c) ==
  {t \in Thread : at[t] = "push" /\ to[t] = c} \cup (IF pc = "swap" /\ chan = c THEN {Loop} ELSE {})
InQueue(c) ==
  (IF pc = "push" /\ chan = c THEN {Loop} ELSE {}) \cup (IF apc[c] = "check" THEN {c} ELSE {})
Raced ==
  \E c \in Channel :
    \/ \E t, u \in InBuffer(c) : t # u
    \/ \E t, u \in InQueue(c) : t # u
-----------------------------------------------------------------------------
(* A thread logs: pushLog and pushAppLog, after InitGlobalLogger. *)
Messages == Len(pushed["rpc"]) + Len(pushed["app"])
UnderWay == Cardinality({t \in Thread : at[t] \in {"lock", "push"}})

Log(t, c) ==
  /\ pc \notin {"ctor", "sem_wait"}
  /\ c \in Logged
  /\ at[t] = "idle" /\ Messages + UnderWay < MaxLogs
  /\ \E level \in Levels : Logs(level)
  /\ at' = [at EXCEPT ![t] = "lock"]
  /\ to' = [to EXCEPT ![t] = c]
  /\ UNCHANGED <<m_buffer, m_mutex, pushed, syncVars, asyncVars, fileVars, today>>

PushLock(t, c) ==
  /\ at[t] = "lock" /\ to[t] = c
  /\ m_mutex[c] = NoOwner
  /\ m_mutex' = [m_mutex EXCEPT ![c] = t]
  /\ at' = [at EXCEPT ![t] = "push"]
  /\ UNCHANGED <<to, m_buffer, pushed, syncVars, asyncVars, fileVars, today>>

PushBack(t, c) ==
  /\ at[t] = "push" /\ to[t] = c
  /\ m_buffer' = [m_buffer EXCEPT ![c] = Append(@, Messages + 1)]
  /\ pushed' = [pushed EXCEPT ![c] = Append(@, Messages + 1)]
  /\ m_mutex' = [m_mutex EXCEPT ![c] = NoOwner]
  /\ at' = [at EXCEPT ![t] = "return"]
  /\ UNCHANGED <<to, syncVars, asyncVars, fileVars, today>>

(* The guard unlocks again. *)
PushReturn(t, c) ==
  /\ at[t] = "return" /\ to[t] = c
  /\ m_mutex' = [m_mutex EXCEPT ![c] = NoOwner]
  /\ at' = [at EXCEPT ![t] = "idle"]
  /\ UNCHANGED <<to, m_buffer, pushed, syncVars, asyncVars, fileVars, today>>
-----------------------------------------------------------------------------
(* The constructor of an AsyncLogger creates its thread, then initialises  *)
(* the condition, where that thread may wait already, and waits for it.    *)
Create ==
  /\ pc = "ctor" /\ apc[chan] = "none"
  /\ apc' = [apc EXCEPT ![chan] = "start"]
  /\ UNCHANGED <<logVars, syncVars, queue, async_mutex, temp, cond, m_stop_flag,
                 fileVars, today>>

CondInit ==
  /\ pc = "ctor" /\ apc[chan] # "none"
  /\ cond' = [cond EXCEPT ![chan] = TRUE]
  /\ apc' \in {apc} \cup
       (IF apc[chan] = "wait" THEN {[apc EXCEPT ![chan] = "stray"]} ELSE {})
  /\ pc' = "sem_wait"
  /\ UNCHANGED <<logVars, chan, temp_vec, queue, async_mutex, temp, m_stop_flag,
                 fileVars, today>>

SemWait ==
  /\ pc = "sem_wait" /\ apc[chan] # "start"
  /\ pc' = IF chan = "rpc" THEN "ctor" ELSE "idle"
  /\ chan' = IF chan = "rpc" THEN "app" ELSE "rpc"
  /\ UNCHANGED <<logVars, temp_vec, asyncVars, fileVars, today>>

(* The repeated timer calls syncLoop. *)
SyncLoop ==
  /\ pc = "idle" /\ m_type # 0
  /\ pc' = "lock" /\ chan' = "rpc"
  /\ UNCHANGED <<logVars, temp_vec, asyncVars, fileVars, today>>

SyncLock ==
  /\ pc = "lock"
  /\ m_mutex[chan] = NoOwner
  /\ m_mutex' = [m_mutex EXCEPT ![chan] = Loop]
  /\ pc' = "swap"
  /\ UNCHANGED <<at, to, m_buffer, pushed, chan, temp_vec, asyncVars, fileVars, today>>

(* The other channel, or the end of syncLoop. *)
SyncNext ==
  /\ pc' = IF chan = "rpc" THEN "lock" ELSE "return"
  /\ chan' = "app"

(* Mutant: the buffer is copied. *)
SyncCopy ==
  /\ pc = "swap"
  /\ temp_vec' = m_buffer[chan]
  /\ m_mutex' = [m_mutex EXCEPT ![chan] = NoOwner]
  /\ IF m_buffer[chan] = <<>> THEN SyncNext ELSE pc' = "push_lock" /\ UNCHANGED chan
  /\ UNCHANGED <<at, to, m_buffer, pushed, asyncVars, fileVars, today>>

(* Mutant: an empty batch is queued, too. *)
SyncSwapEmpty ==
  /\ pc = "swap"
  /\ temp_vec' = m_buffer[chan]
  /\ m_buffer' = [m_buffer EXCEPT ![chan] = <<>>]
  /\ m_mutex' = [m_mutex EXCEPT ![chan] = NoOwner]
  /\ pc' = "push_lock"
  /\ UNCHANGED <<at, to, pushed, chan, asyncVars, fileVars, today>>

SyncSwap ==
  /\ pc = "swap"
  /\ temp_vec' = m_buffer[chan]
  /\ m_buffer' = [m_buffer EXCEPT ![chan] = <<>>]
  /\ m_mutex' = [m_mutex EXCEPT ![chan] = NoOwner]
  /\ IF m_buffer[chan] = <<>> THEN SyncNext ELSE pc' = "push_lock" /\ UNCHANGED chan
  /\ UNCHANGED <<at, to, pushed, asyncVars, fileVars, today>>

(* pushLogBuffer: lock, push, unlock, signal, and unlock again. *)
PushLogBuffer ==
  /\ pc = "push_lock"
  /\ async_mutex[chan] = NoOwner
  /\ async_mutex' = [async_mutex EXCEPT ![chan] = Loop]
  /\ pc' = "push"
  /\ UNCHANGED <<logVars, chan, temp_vec, queue, apc, temp, cond, m_stop_flag,
                 fileVars, today>>

PushBatch ==
  /\ pc = "push"
  /\ queue' = [queue EXCEPT ![chan] = Append(@, temp_vec)]
  /\ temp_vec' = <<>>
  /\ async_mutex' = [async_mutex EXCEPT ![chan] = NoOwner]
  /\ pc' = "signal"
  /\ UNCHANGED <<logVars, chan, apc, temp, cond, m_stop_flag, fileVars, today>>

(* Mutant: nobody is signalled. *)
SignalNobody ==
  /\ pc = "signal"
  /\ pc' = "push_return"
  /\ UNCHANGED <<logVars, chan, temp_vec, asyncVars, fileVars, today>>

Signal ==
  /\ pc = "signal"
  /\ apc' = [apc EXCEPT ![chan] = IF @ = "wait" THEN "lock" ELSE @]
  /\ pc' = "push_return"
  /\ UNCHANGED <<logVars, chan, temp_vec, queue, async_mutex, temp, cond, m_stop_flag,
                 fileVars, today>>

PushLogBufferReturn ==
  /\ pc = "push_return"
  /\ async_mutex' = [async_mutex EXCEPT ![chan] = NoOwner]
  /\ SyncNext
  /\ UNCHANGED <<logVars, temp_vec, queue, apc, temp, cond, m_stop_flag, fileVars, today>>

(* Both of syncLoop's guards unlock again. *)
SyncReturn ==
  /\ pc = "return"
  /\ m_mutex' = [c \in Channel |-> NoOwner]
  /\ pc' = "idle" /\ chan' = "rpc"
  /\ UNCHANGED <<at, to, m_buffer, pushed, temp_vec, asyncVars, fileVars, today>>
-----------------------------------------------------------------------------
(* AsyncLogger::loop, for channel c. *)
SemPost(c) ==
  /\ apc[c] = "start"
  /\ apc' = [apc EXCEPT ![c] = "lock"]
  /\ UNCHANGED <<logVars, syncVars, queue, async_mutex, temp, cond, m_stop_flag,
                 fileVars, today>>

(* The guard's lock, and that of pthread_cond_wait when it returns. *)
Lock(c) ==
  /\ apc[c] = "lock"
  /\ async_mutex[c] = NoOwner
  /\ async_mutex' = [async_mutex EXCEPT ![c] = c]
  /\ apc' = [apc EXCEPT ![c] = "check"]
  /\ UNCHANGED <<logVars, syncVars, queue, temp, cond, m_stop_flag, fileVars, today>>

CondWait(c) ==
  /\ apc[c] = "check" /\ queue[c] = <<>>
  /\ async_mutex' = [async_mutex EXCEPT ![c] = NoOwner]
  /\ apc' = [apc EXCEPT ![c] = "wait"]
  /\ UNCHANGED <<logVars, syncVars, queue, temp, cond, m_stop_flag, fileVars, today>>

Take(c) ==
  /\ apc[c] = "check" /\ queue[c] # <<>>
  /\ temp' = [temp EXCEPT ![c] = Head(queue[c])]
  /\ queue' = [queue EXCEPT ![c] = Tail(@)]
  /\ async_mutex' = [async_mutex EXCEPT ![c] = NoOwner]
  /\ apc' = [apc EXCEPT ![c] = "write"]
  /\ UNCHANGED <<logVars, syncVars, cond, m_stop_flag, fileVars, today>>

(* The file for the batch.  A new date, and a new process, begin with      *)
(* number 0; a file that is too long is followed by m_no ++, which for 0   *)
(* is the file itself, and its size is not looked at.                      *)
Reopens(c) == today # m_date[c] \/ m_file_handler[c] = NoFile
No(c)      == IF today # m_date[c] THEN 0 ELSE m_no[c]
Opened(c)  == IF Reopens(c) THEN <<today, No(c)>> ELSE m_file_handler[c]

(* Mutant: the number stays. *)
RotateInPlace(c) ==
  /\ m_no' = [m_no EXCEPT ![c] = No(c)]
  /\ m_file_handler' = [m_file_handler EXCEPT ![c] = Opened(c)]

Rotate(c) ==
  IF files[c][Opened(c)] > m_max_file_size
  THEN /\ m_no' = [m_no EXCEPT ![c] = No(c) + 1]
       /\ m_file_handler' = [m_file_handler EXCEPT ![c] = <<today, No(c)>>]
  ELSE /\ m_no' = [m_no EXCEPT ![c] = No(c)]
       /\ m_file_handler' = [m_file_handler EXCEPT ![c] = Opened(c)]

Write(c) ==
  /\ apc[c] = "write"
  /\ Rotate(c)
  /\ m_date' = [m_date EXCEPT ![c] = today]
  /\ files' = [files EXCEPT ![c][m_file_handler'[c]] = @ + Len(temp[c])]
  /\ written' = [written EXCEPT ![c] = @ \o temp[c]]
  /\ temp' = [temp EXCEPT ![c] = <<>>]
  /\ apc' = [apc EXCEPT ![c] = "end"]
  /\ UNCHANGED <<logVars, syncVars, queue, async_mutex, cond, m_stop_flag, earlier, today>>

(* The end of the scope: the guard unlocks again. *)
End(c) ==
  /\ apc[c] = "end"
  /\ async_mutex' = [async_mutex EXCEPT ![c] = NoOwner]
  /\ apc' = [apc EXCEPT ![c] = IF m_stop_flag[c] THEN "exited" ELSE "lock"]
  /\ UNCHANGED <<logVars, syncVars, queue, temp, cond, m_stop_flag, fileVars, today>>

(* stop() signals nobody. *)
Stop(c) ==
  /\ c \in Stoppable /\ apc[c] # "none" /\ ~m_stop_flag[c]
  /\ m_stop_flag' = [m_stop_flag EXCEPT ![c] = TRUE]
  /\ UNCHANGED <<logVars, syncVars, queue, async_mutex, apc, temp, cond, fileVars, today>>

Midnight ==
  /\ today < MaxDate
  /\ today' = today + 1
  /\ UNCHANGED <<logVars, syncVars, asyncVars, fileVars>>

LogStep(t) ==
  \E c \in Channel : Log(t, c) \/ PushLock(t, c) \/ PushBack(t, c) \/ PushReturn(t, c)
LoopStep ==
  \/ Create \/ CondInit \/ SemWait
  \/ SyncLoop \/ SyncLock \/ SyncSwap \/ PushLogBuffer \/ PushBatch \/ Signal
  \/ PushLogBufferReturn \/ SyncReturn
AsyncStep(c) == SemPost(c) \/ Lock(c) \/ CondWait(c) \/ Take(c) \/ Write(c) \/ End(c)

Next ==
  /\ ~Raced
  /\ \/ \E t \in Thread : LogStep(t)
     \/ LoopStep
     \/ \E c \in Channel : AsyncStep(c) \/ Stop(c)
     \/ Midnight

Spec == Init /\ [][Next]_vars

(* The loop's timer is repeated, and the threads run. *)
Fairness ==
  /\ \A t \in Thread : WF_vars(~Raced /\ LogStep(t))
  /\ WF_vars(~Raced /\ LoopStep)
  /\ \A c \in Channel : WF_vars(~Raced /\ AsyncStep(c))

FairSpec == Spec /\ Fairness
-----------------------------------------------------------------------------
Message == 1 .. MaxLogs
Batch   == Seq(Message) \ {<<>>}

TypeOK ==
  /\ at \in [Thread -> At] /\ to \in [Thread -> Channel]
  /\ m_buffer \in [Channel -> Seq(Message)] /\ pushed \in [Channel -> Seq(Message)]
  /\ m_mutex \in [Channel -> Thread \cup {Loop, NoOwner}]
  /\ pc \in Pc /\ chan \in Channel /\ temp_vec \in Seq(Message)
  /\ queue \in [Channel -> Seq(Batch)]
  /\ async_mutex \in [Channel -> Channel \cup {Loop, NoOwner}]
  /\ apc \in [Channel -> Apc] /\ temp \in [Channel -> Seq(Message)]
  /\ cond \in [Channel -> BOOLEAN] /\ m_stop_flag \in [Channel -> BOOLEAN]
  /\ m_date \in [Channel -> 0 .. MaxDate + 1] /\ m_no \in [Channel -> Nat]
  /\ m_file_handler \in [Channel -> File \cup {NoFile}]
  /\ written \in [Channel -> Seq(Message)]
  /\ today \in 0 .. MaxDate

(* Whatever the threads do to each other, up to the first race in a        *)
(* container every message that was pushed is in one place, and in its     *)
(* order: in the file, in the writer's hands, queued, in the hands of      *)
(* syncLoop, or in the vector.                                             *)
NothingLost ==
  \A c \in Channel :
    pushed[c] = written[c] \o temp[c] \o FlattenSeq(queue[c])
                  \o (IF chan = c THEN temp_vec ELSE <<>>) \o m_buffer[c]

(* log.h:110, the largest size of a file: one that has outgrown it is      *)
(* written no more, but for one batch that comes with the step to its      *)
(* number.  That is the first file of a day, which follows itself, or one  *)
(* that an earlier process of the day left too long, which this process    *)
(* has not written yet.                                                    *)
OverlongOnce ==
  [][\A c \in Channel, f \in File :
       files'[c][f] # files[c][f] /\ files[c][f] > m_max_file_size
         => /\ m_no'[c] = f[2] + 1
            /\ (f[2] = 0 /\ m_no[c] = 0) \/ files[c][f] = earlier[c][f]]_vars

(* log.cpp:169, everything is written to the file: a message that pushLog  *)
(* has taken is written, unless two threads met in a container, stop() was *)
(* called, or the thread waited for a condition that was not initialised.  *)
Undone == Raced \/ \E c \in Channel : m_stop_flag[c] \/ apc[c] = "stray"

Owed(m) ==
  \E c \in Channel :
    /\ \E i \in DOMAIN pushed[c] : pushed[c][i] = m
    /\ \A i \in DOMAIN written[c] : written[c][i] # m

MessageWritten == \A m \in Message : Owed(m) ~> (~Owed(m) \/ Undone)
=============================================================================
