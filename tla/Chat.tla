-------------------------------- MODULE Chat --------------------------------
(***************************************************************************)
(* One chat session of internal/service/chat/chat.go: its row and messages *)
(* in MySQL, the Session objects that hold its history in memory, and the  *)
(* requests that talk in it at the same time.                              *)
(*                                                                         *)
(* A request asks one question, and the turn it makes is named after it.   *)
(* The text of a message, the chunks found for a question and the layout   *)
(* of the prompt are left out: a message is its turn and its role.         *)
(***************************************************************************)
EXTENDS Integers, Sequences, FiniteSets

CONSTANTS
  Requests,    \* calls of Chat with the session's id
  Origin,      \* names the object CreateSession makes; a restored one is
               \* named after the request that restores it
  None,        \* no object, no request
  Garbage,     \* what a read that races a write of History may return
  MaxHistory,  \* maxHistory
  MaxTime,     \* bound on the clock, in seconds
  MaxCrashes,  \* bound on the restarts of the server
  MaxFaults    \* bound on the calls that fail and the work that is dropped

ASSUME ChatAssumption ==
  /\ MaxHistory \in Nat \ {0} /\ {MaxTime, MaxCrashes, MaxFaults} \subseteq Nat
  /\ Origin \notin Requests /\ None \notin Requests \cup {Origin}

VARIABLES
  row,       \* the row of conversations: "none", "absent" (not created), "present"
  idKnown,   \* does the object of CreateSession have a ConversationID?
  messages,  \* the rows of messages, each with the second it was created in
  records,   \* the status of each request's row of qa_records
  current,   \* sessions[id]: the object in the map
  history,   \* History of each object
  writer,    \* the request that holds mu to write History
  pc,        \* where each request is, and the status it ended with
  obj,       \* the object getSession gave to each request
  copy,      \* the History a request has read: for its prompt, or to append to
  task,      \* what each request has handed to the worker pool
  now,       \* the clock, in the seconds DATETIME keeps
  crashes, faults,
  before,    \* history variable: the turns answered before a request started
  blank      \* history variable: the objects whose messages could not all be read

stored == <<row, idKnown, messages, records>>
memory == <<current, history, writer>>
request == <<pc, obj, copy, before>>
bounds == <<now, crashes, faults>>
vars == <<stored, memory, request, task, bounds, blank>>

Objects == Requests \cup {Origin}
Roles == {"user", "assistant"}
Messages == [turn : Requests, role : Roles]
Rows == [turn : Requests, role : Roles, at : 0..MaxTime]
Turn(r) == <<[turn |-> r, role |-> "user"], [turn |-> r, role |-> "assistant"]>>
Message(m) == [turn |-> m.turn, role |-> m.role]

HasID(o) == o = Origin => idKnown
InFlight == {"restore", "publish", "search", "stream", "append", "write", "trim"}
Answered == {r \in Requests : pc[r] = "success"}

Init ==
  /\ row = "none" /\ idKnown = FALSE
  /\ messages = {}
  /\ records = [r \in Requests |-> "none"]
  /\ current = None /\ writer = None
  /\ history = [o \in Objects |-> <<>>]
  /\ pc = [r \in Requests |-> "idle"]
  /\ obj = [r \in Requests |-> None]
  /\ copy = [r \in Requests |-> <<>>]
  /\ before = [r \in Requests |-> {}]
  /\ task = [r \in Requests |-> "none"]
  /\ now = 0 /\ crashes = 0 /\ faults = 0 /\ blank = {}

Goto(r, there) == pc' = [pc EXCEPT ![r] = there]

(* Something fails. *)
Fault == faults < MaxFaults /\ faults' = faults + 1

(* submitAsync: the pool takes the work or, when its queue is full, drops it. *)
Submit(r, work) ==
  \/ task' = [task EXCEPT ![r] = work] /\ UNCHANGED faults
  \/ Fault /\ UNCHANGED task

(* A request ends without an answer; only its record is left to be written. *)
Fail(r, status) ==
  /\ Goto(r, status)
  /\ obj' = [obj EXCEPT ![r] = None]
  /\ copy' = [copy EXCEPT ![r] = <<>>]
  /\ before' = [before EXCEPT ![r] = {}]
  /\ task' \in {[task EXCEPT ![r] = "record"], task}

(* A request has its answer, and hands its turn to the pool. *)
Answer(r) ==
  /\ Goto(r, "success")
  /\ Submit(r, IF HasID(obj[r]) THEN "user" ELSE "record")
-----------------------------------------------------------------------------
(* ConversationRepo.Create may fail, or store its row and fail to say so. *)
Create ==
  \/ row' = "present" /\ idKnown' = TRUE /\ UNCHANGED faults
  \/ row' \in {"absent", "present"} /\ idKnown' = FALSE /\ Fault

(* CreateSession makes a session also without a row.  The session's id is in
   nobody's hands until it returns. *)
CreateSession ==
  /\ row = "none"
  /\ Create
  /\ current' = Origin
  /\ UNCHANGED <<messages, records, history, writer, request, task, now, crashes, blank>>

(* Chat begins, and getSession looks into the map. *)
Lookup(r) ==
  /\ row # "none" /\ writer = None
  /\ pc[r] = "idle"
  /\ before' = [before EXCEPT ![r] = Answered]
  /\ IF current # None
     THEN obj' = [obj EXCEPT ![r] = current] /\ Goto(r, "search")
     ELSE Goto(r, "restore") /\ UNCHANGED obj
  /\ UNCHANGED <<stored, memory, copy, task, bounds, blank>>

(* ListMessages: the latest rows, at most `limit`, put in the order of their
   seconds; rows of one second come in any order. *)
Recent(limit) ==
  LET n == IF Cardinality(messages) > limit THEN limit ELSE Cardinality(messages)
  IN  {s \in [1..n -> messages] :
         /\ \A i, j \in 1..n : i < j => s[i] # s[j] /\ s[i].at <= s[j].at
         /\ \A m \in messages : (\A i \in 1..n : s[i] # m) => \A i \in 1..n : m.at <= s[i].at}

(* GetBySessionID fails, or there is no row. *)
NoSession(r) ==
  /\ Fail(r, "failed")
  /\ Fault \/ (row = "absent" /\ UNCHANGED faults)
  /\ UNCHANGED <<history, blank>>

(* An error of ListMessages is taken for an empty list, and a list that broke
   off, since nothing asks rows.Err, for a whole one. *)
LoadHistory(r) ==
  /\ \/ /\ \E s \in Recent(2 * MaxHistory) :
             history' = [history EXCEPT ![r] = [i \in DOMAIN s |-> Message(s[i])]]
        /\ UNCHANGED <<faults, blank>>
     \/ /\ \E n \in 0..(2 * MaxHistory - 1) : \E s \in Recent(n) :
             history' = [history EXCEPT ![r] = [i \in DOMAIN s |-> Message(s[i])]]
        /\ blank' = blank \cup {r}
        /\ Fault
  /\ Goto(r, "publish")
  /\ UNCHANGED <<obj, copy, before, task>>

(* getSession: a session that is not in the map, from its row and messages. *)
Restore(r) ==
  /\ pc[r] = "restore"
  /\ NoSession(r) \/ (row = "present" /\ LoadHistory(r))
  /\ UNCHANGED <<stored, current, writer, now, crashes>>

(* getSession: into the map, also over an object another request has put there. *)
PublishShadowed(r) ==
  /\ pc[r] = "publish" /\ writer = None
  /\ current' = r
  /\ Goto(r, "search")
  /\ UNCHANGED <<stored, history, writer, obj, copy, before, task, bounds, blank>>
Publish(r) ==
  /\ pc[r] = "publish" /\ writer = None
  /\ current' = r
  /\ obj' = [obj EXCEPT ![r] = r]
  /\ Goto(r, "search")
  /\ UNCHANGED <<stored, history, writer, copy, before, task, bounds, blank>>

(* buildMessages reads History without the lock: while another request writes
   it, the words of the slice may not belong together. *)
BuildMessages(r) ==
  {history[obj[r]]} \cup (IF writer # None /\ obj[writer] = obj[r] THEN {Garbage} ELSE {})

(* The search, and then the prompt. *)
SearchKeepsQuestion(r) ==
  /\ pc[r] = "search"
  /\ \/ /\ copy' = [copy EXCEPT ![r] = history[obj[r]]]
        /\ history' = [history EXCEPT ![obj[r]] = Append(@, Turn(r)[1])]
        /\ Goto(r, "stream")
        /\ UNCHANGED <<obj, before, task, faults>>
     \/ Fault /\ Fail(r, "failed") /\ UNCHANGED history
  /\ UNCHANGED <<stored, current, writer, now, crashes, blank>>
Search(r) ==
  /\ pc[r] = "search"
  /\ \/ /\ \E seen \in BuildMessages(r) : copy' = [copy EXCEPT ![r] = seen]
        /\ Goto(r, "stream")
        /\ UNCHANGED <<obj, before, task, faults>>
     \/ Fault /\ Fail(r, "failed")
  /\ UNCHANGED <<stored, memory, now, crashes, blank>>

(* StreamComplete; it fails before or after the first piece of the answer. *)
Stream(r) ==
  /\ pc[r] = "stream"
  /\ \/ /\ Goto(r, "append")
        /\ copy' = [copy EXCEPT ![r] = <<>>]
        /\ before' = [before EXCEPT ![r] = {}]
        /\ UNCHANGED <<obj, task, faults>>
     \/ \E status \in {"failed", "partial"} : Fault /\ Fail(r, status)
  /\ UNCHANGED <<stored, memory, now, crashes, blank>>

(* Under mu: append loads History, and stores it with the turn added... *)
LockUnguarded(r) ==
  /\ pc[r] = "append"
  /\ writer' = r
  /\ copy' = [copy EXCEPT ![r] = history[obj[r]]]
  /\ Goto(r, "write")
  /\ UNCHANGED <<stored, current, history, obj, before, task, bounds, blank>>
Lock(r) ==
  /\ pc[r] = "append" /\ writer = None
  /\ writer' = r
  /\ copy' = [copy EXCEPT ![r] = history[obj[r]]]
  /\ Goto(r, "write")
  /\ UNCHANGED <<stored, current, history, obj, before, task, bounds, blank>>

AppendApart(r) ==
  /\ pc[r] = "write"
  /\ LET asked == \E i \in 1..Len(history[obj[r]]) : history[obj[r]][i] = Turn(r)[1]
     IN  /\ history' = [history EXCEPT ![obj[r]] = Append(@, Turn(r)[IF asked THEN 2 ELSE 1])]
         /\ IF asked THEN Answer(r) ELSE UNCHANGED <<pc, task, faults>>
  /\ writer' = None
  /\ UNCHANGED <<stored, current, obj, copy, before, now, crashes, blank>>
AppendTurn(r) ==
  /\ pc[r] = "write"
  /\ history' = [history EXCEPT ![obj[r]] = copy[r] \o Turn(r)]
  /\ copy' = [copy EXCEPT ![r] = <<>>]
  /\ IF Len(copy[r]) + 2 > 2 * MaxHistory
     THEN Goto(r, "trim") /\ UNCHANGED <<writer, task, faults>>
     ELSE writer' = None /\ Answer(r)
  /\ UNCHANGED <<stored, current, obj, before, now, crashes, blank>>

(* ... and drops the two oldest messages when there are too many. *)
TrimOne(r) ==
  /\ pc[r] = "trim"
  /\ history' = [history EXCEPT ![obj[r]] = SubSeq(@, 2, Len(@))]
  /\ writer' = None
  /\ Answer(r)
  /\ UNCHANGED <<stored, current, obj, copy, before, now, crashes, blank>>
TrimKeepsLock(r) ==
  /\ pc[r] = "trim"
  /\ history' = [history EXCEPT ![obj[r]] = SubSeq(@, 3, Len(@))]
  /\ Answer(r)
  /\ UNCHANGED <<stored, current, writer, obj, copy, before, now, crashes, blank>>
Trim(r) ==
  /\ pc[r] = "trim"
  /\ history' = [history EXCEPT ![obj[r]] = SubSeq(@, 3, Len(@))]
  /\ writer' = None
  /\ Answer(r)
  /\ UNCHANGED <<stored, current, obj, copy, before, now, crashes, blank>>

Request(r) ==
  \/ Lookup(r) \/ Restore(r) \/ Publish(r) \/ Search(r) \/ Stream(r)
  \/ Lock(r) \/ AppendTurn(r) \/ Trim(r)
-----------------------------------------------------------------------------
CreateMessage(r, role) ==
  \/ /\ messages' = messages \cup {[turn |-> r, role |-> role, at |-> now]}
     /\ UNCHANGED faults
  \/ Fault /\ UNCHANGED messages

(* The work in the pool: persistMessages, whose errors are only logged, and
   then persistRecord. *)
PersistMessage(r, role, then) ==
  /\ task[r] = role
  /\ CreateMessage(r, role)
  /\ task' = [task EXCEPT ![r] = then]
  /\ UNCHANGED <<row, idKnown, records, memory, request, now, crashes, blank>>

PersistRecord(r) ==
  /\ task[r] = "record"
  /\ \/ records' = [records EXCEPT ![r] = pc[r]] /\ UNCHANGED faults
     \/ Fault /\ UNCHANGED records
  /\ task' = [task EXCEPT ![r] = "none"]
  /\ UNCHANGED <<row, idKnown, messages, memory, request, now, crashes, blank>>

Work(r) ==
  \/ PersistMessage(r, "user", "assistant")
  \/ PersistMessage(r, "assistant", "record")
  \/ PersistRecord(r)
-----------------------------------------------------------------------------
Tick ==
  /\ now < MaxTime
  /\ now' = now + 1
  /\ UNCHANGED <<stored, memory, request, task, crashes, faults, blank>>

(* The server dies and comes back with what MySQL holds: the map, the requests
   under way and the queue of the pool are gone. *)
Crash ==
  /\ row # "none" /\ crashes < MaxCrashes
  /\ crashes' = crashes + 1
  /\ current' = None /\ writer' = None
  /\ history' = [o \in Objects |-> <<>>]
  /\ pc' = [r \in Requests |-> IF pc[r] \in {"success", "past"} THEN "past"
                               ELSE IF pc[r] = "idle" THEN "idle" ELSE "dead"]
  /\ obj' = [r \in Requests |-> None]
  /\ copy' = [r \in Requests |-> <<>>]
  /\ before' = [r \in Requests |-> {}]
  /\ task' = [r \in Requests |-> "none"]
  /\ blank' = {}
  /\ UNCHANGED <<stored, now, faults>>

Next ==
  \/ CreateSession \/ Tick \/ Crash
  \/ \E r \in Requests : Request(r) \/ Work(r)

Spec == Init /\ [][Next]_vars
-----------------------------------------------------------------------------
(* Type invariant. *)
TypeOK ==
  /\ row \in {"none", "absent", "present"} /\ idKnown \in BOOLEAN
  /\ messages \subseteq Rows
  /\ records \in [Requests -> {"none", "success", "failed", "partial"}]
  /\ current \in Objects \cup {None} /\ writer \in Requests \cup {None}
  /\ history \in [Objects -> Seq(Messages)]
  /\ pc \in [Requests -> InFlight \cup {"idle", "success", "failed", "partial", "dead", "past"}]
  /\ obj \in [Requests -> Objects \cup {None}]
  /\ copy \in [Requests -> Seq(Messages) \cup {Garbage}]
  /\ before \in [Requests -> SUBSET Requests]
  /\ task \in [Requests -> {"none", "user", "assistant", "record"}]
  /\ now \in 0..MaxTime /\ crashes \in 0..MaxCrashes /\ faults \in 0..MaxFaults
  /\ blank \subseteq Requests
  /\ \A r \in Requests :
       pc[r] \in InFlight \ {"restore", "publish"} => obj[r] # None

(* mu is held by the request that writes a history, and by no other: nobody
   else writes meanwhile, and nobody keeps the lock. *)
WritersExclude == \A r \in Requests : (writer = r) <=> (pc[r] \in {"write", "trim"})

(* A history that nobody is writing holds at most maxHistory turns, and the one
   being written at most one turn more, also after a restore from MySQL. *)
HistoryBounded ==
  \A o \in Objects :
    Len(history[o]) <= 2 * MaxHistory + (IF writer # None /\ obj[writer] = o THEN 2 ELSE 0)

(* What a failed or interrupted request asked or was told is in no history and
   in no row of messages, where later prompts would take it for an answer. *)
OnlyAnsweredTurns ==
  \A r \in Requests : (pc[r] \in {"failed", "partial", "dead"} \/ records[r] \in {"failed", "partial"}) =>
    /\ \A m \in messages : m.turn # r
    /\ \A o \in Objects : \A i \in 1..Len(history[o]) : history[o][i].turn # r

(* The turns appended to a history stand in it whole, a question right before
   its answer and each once.  Only at its head may an answer stand alone: the
   trimming takes two messages, and a history restored from MySQL may begin
   with an answer or lack a message. *)
TurnsWhole ==
  \A o \in Objects :
    \A i, j \in 1..Len(history[o]) :
      LET m == history[o][i]
      IN  obj[m.turn] = o =>
            /\ (j # i => history[o][j] # m)
            /\ m.role = "assistant" /\ i > 1 => history[o][i - 1] = Turn(m.turn)[1]
            /\ m.role = "user" => i < Len(history[o]) /\ history[o][i + 1] = Turn(m.turn)[2]

(* A prompt holds every turn that was answered on the same object before the
   request started, and every message that MySQL kept from an earlier life of
   the server, but for those a full window has pushed out.  The exceptions are
   the code's own: a read that races a write, and messages that could not all
   be read at the restore. *)
Remembers ==
  \A r \in Requests : (pc[r] = "stream" /\ copy[r] # Garbage /\ obj[r] \notin blank) =>
    LET prompt == {copy[r][i] : i \in 1..Len(copy[r])}
        lived == {m \in Messages : m.turn \in before[r] /\ obj[m.turn] = obj[r]}
        kept == {Message(m) : m \in {n \in messages : pc[n.turn] = "past"}}
    IN  lived \cup kept \subseteq prompt \/ Len(copy[r]) >= 2 * MaxHistory - 1

(* The histories as the requests find them: what is being appended counts when
   it has been trimmed. *)
Trimming(o) == \E r \in Requests : pc[r] = "trim" /\ obj[r] = o
Settled(o) ==
  IF Trimming(o) THEN SubSeq(history[o], 1, Len(history[o]) - 2) ELSE history[o]

(* Appending and trimming under mu, the restores and the crashes implement the
   logs of TurnLog.tla: concurrent answers lose no turn and split none, and a
   restored history repeats nothing and tells nothing that was not answered. *)
Log == INSTANCE TurnLog WITH Turns <- Requests, Logs <- Objects, Window <- 2 * MaxHistory,
                             log <- [o \in Objects |-> Settled(o)],
                             answered <- {r \in Requests : pc[r] \in {"success", "past"}}
ImplementsLog == Log!LogSpec
=============================================================================
