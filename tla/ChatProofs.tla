----------------------------- MODULE ChatProofs -----------------------------
(***************************************************************************)
(* Proofs about a chat session, for any requests, any length of its        *)
(* history and any bounds on time, crashes and faults.                     *)
(***************************************************************************)
EXTENDS Chat, FiniteSetTheorems, SequenceTheorems, TLAPS

(* What ListMessages returns, as the history of a restored session. *)
LEMMA RestoredHistory ==
  ASSUME messages \subseteq Rows, IsFiniteSet(messages),
         NEW limit \in Nat, NEW s \in Recent(limit),
         NEW h, h = [i \in DOMAIN s |-> Message(s[i])]
  PROVE  /\ h \in Seq(Messages)
         /\ Len(h) \in Nat /\ Len(h) <= limit
         /\ \A i \in 1..Len(h) : \E m \in messages : h[i].turn = m.turn
<1> DEFINE n == IF Cardinality(messages) > limit THEN limit ELSE Cardinality(messages)
<1>1. n \in Nat /\ n <= limit
  BY FS_CardinalityType
<1>2. s \in [1..n -> messages]
  BY DEF Recent
<1> HIDE DEF n
<1>3. DOMAIN h = 1..n /\ \A i \in 1..n : h[i] = Message(s[i]) /\ s[i] \in messages
  BY <1>2
<1>4. \A m \in messages : Message(m) \in Messages /\ Message(m).turn = m.turn
  BY DEF Message, Messages, Rows
<1>5. h \in Seq(Messages)
  BY <1>1, <1>2, <1>3, <1>4
<1>6. Len(h) = n
  BY <1>1, <1>3, <1>5, LenProperties
<1> QED
  BY <1>1, <1>3, <1>4, <1>5, <1>6

(* What the trimming leaves. *)
LEMMA TrimmedHistory ==
  ASSUME NEW h \in Seq(Messages)
  PROVE  /\ SubSeq(h, 3, Len(h)) \in Seq(Messages)
         /\ Len(SubSeq(h, 3, Len(h))) = IF 3 <= Len(h) THEN Len(h) - 2 ELSE 0
         /\ \A i \in 1..Len(SubSeq(h, 3, Len(h))) :
              \E j \in 1..Len(h) : SubSeq(h, 3, Len(h))[i] = h[j]
<1>1. Len(h) \in Nat /\ \A i \in 3..Len(h) : h[i] \in Messages
  BY LenProperties, ElementOfSeq
<1>2. /\ SubSeq(h, 3, Len(h)) \in Seq(Messages)
      /\ Len(SubSeq(h, 3, Len(h))) = IF 3 <= Len(h) THEN Len(h) - 3 + 1 ELSE 0
      /\ \A i \in 1..(Len(h) - 3 + 1) : SubSeq(h, 3, Len(h))[i] = h[3 + i - 1]
  BY <1>1, SubSeqProperties
<1>3. ASSUME NEW i \in 1..Len(SubSeq(h, 3, Len(h)))
      PROVE  \E j \in 1..Len(h) : SubSeq(h, 3, Len(h))[i] = h[j]
  <2>1. i \in 1..(Len(h) - 3 + 1) /\ 3 + i - 1 \in 1..Len(h)
    BY <1>1, <1>2
  <2> QED
    BY <1>2, <2>1
<1> QED
  BY <1>1, <1>2, <1>3

(* A turn is a question and its answer. *)
LEMMA TurnProperties ==
  ASSUME NEW r \in Requests
  PROVE  /\ Turn(r) \in Seq(Messages) /\ Len(Turn(r)) = 2
         /\ \A i \in 1..2 : Turn(r)[i].turn = r
BY DEF Turn, Messages, Roles

(* What AppendTurn writes. *)
LEMMA AppendedHistory ==
  ASSUME NEW h \in Seq(Messages), NEW r \in Requests
  PROVE  /\ h \o Turn(r) \in Seq(Messages)
         /\ Len(h \o Turn(r)) = Len(h) + 2
         /\ \A i \in 1..Len(h \o Turn(r)) :
              (h \o Turn(r))[i].turn = r \/ \E j \in 1..Len(h) : (h \o Turn(r))[i] = h[j]
<1>1. /\ h \o Turn(r) \in Seq(Messages)
      /\ Len(h \o Turn(r)) = Len(h) + 2
      /\ \A i \in 1..(Len(h) + 2) :
           (h \o Turn(r))[i] = IF i <= Len(h) THEN h[i] ELSE Turn(r)[i - Len(h)]
  <2>1. Turn(r) \in Seq(Messages) /\ Len(Turn(r)) = 2
    BY TurnProperties
  <2>2. /\ h \o Turn(r) \in Seq(Messages)
        /\ Len(h \o Turn(r)) = Len(h) + Len(Turn(r))
        /\ \A i \in 1..(Len(h) + Len(Turn(r))) :
             (h \o Turn(r))[i] = IF i <= Len(h) THEN h[i] ELSE Turn(r)[i - Len(h)]
    BY <2>1, ConcatProperties
  <2> QED
    BY <2>1, <2>2
<1>2. Len(h) \in Nat
  BY LenProperties
<1>3. ASSUME NEW i \in 1..(Len(h) + 2)
      PROVE  (h \o Turn(r))[i].turn = r \/ \E j \in 1..Len(h) : (h \o Turn(r))[i] = h[j]
  <2>1. CASE i <= Len(h)
    BY <1>1, <1>2, <2>1
  <2>2. CASE ~(i <= Len(h))
    <3>1. i - Len(h) \in 1..2
      BY <1>2, <2>2
    <3> QED
      BY <1>1, <2>2, <3>1, TurnProperties
  <2> QED
    BY <2>1, <2>2
<1> QED
  BY <1>1, <1>3
-----------------------------------------------------------------------------
(* The inductive invariant.  The work in the pool is that of a request that has
   ended, and its messages those of an answer. *)
Tasks ==
  \A r \in Requests :
    /\ task[r] # "none" => pc[r] \in {"success", "failed", "partial"}
    /\ task[r] \in {"user", "assistant"} => pc[r] = "success"

(* The object a request restores is nobody else's before it is in the map. *)
Unshared ==
  \A o \in Requests : pc[o] \in {"idle", "restore", "publish"} =>
    current # o /\ \A r \in Requests : obj[r] # o

(* The history a request appends to is still the one it has read. *)
Copied == \A r \in Requests : pc[r] = "write" => copy[r] = history[obj[r]]

(* Only between the append and the trimming is a history too long. *)
Bounded ==
  \A o \in Objects : Len(history[o]) <= 2 * MaxHistory + (IF Trimming(o) THEN 2 ELSE 0)

(* A turn reaches a history, a message or a successful record by being answered. *)
Sound ==
  /\ \A o \in Objects : \A i \in 1..Len(history[o]) :
       pc[history[o][i].turn] \in {"trim", "success", "past"}
  /\ \A m \in messages : pc[m.turn] \in {"success", "past"}
  /\ \A r \in Requests : records[r] \in {"failed", "partial"} =>
       pc[r] \in {"failed", "partial", "dead"}

Inv ==
  /\ TypeOK /\ IsFiniteSet(messages)
  /\ Tasks /\ WritersExclude /\ Unshared /\ Copied /\ Bounded /\ Sound

(* The steps of a request: where it was, and where it may go. *)
LEMMA Moves ==
  ASSUME TypeOK, NEW r \in Requests, Request(r)
  PROVE  /\ pc' = [pc EXCEPT ![r] = pc'[r]]
         /\ \/ Lookup(r) /\ pc[r] = "idle" /\ pc'[r] \in {"search", "restore"}
            \/ Restore(r) /\ pc[r] = "restore" /\ pc'[r] \in {"publish", "failed"}
            \/ Publish(r) /\ pc[r] = "publish" /\ pc'[r] = "search"
            \/ Search(r) /\ pc[r] = "search" /\ pc'[r] \in {"stream", "failed"}
            \/ Stream(r) /\ pc[r] = "stream" /\ pc'[r] \in {"append", "failed", "partial"}
            \/ Lock(r) /\ pc[r] = "append" /\ pc'[r] = "write"
            \/ AppendTurn(r) /\ pc[r] = "write" /\ pc'[r] \in {"trim", "success"}
            \/ Trim(r) /\ pc[r] = "trim" /\ pc'[r] = "success"
<1>0. pc = [q \in Requests |-> pc[q]]
  BY DEF TypeOK
<1>1. ASSUME NEW there, Goto(r, there)
      PROVE  pc' = [pc EXCEPT ![r] = pc'[r]] /\ pc'[r] = there
  BY <1>0, <1>1 DEF Goto
<1>2. CASE Lookup(r)
  BY <1>1, <1>2 DEF Lookup
<1>3. CASE Restore(r)
  BY <1>1, <1>3 DEF Restore, NoSession, LoadHistory, Fail
<1>4. CASE Publish(r)
  BY <1>1, <1>4 DEF Publish
<1>5. CASE Search(r)
  BY <1>1, <1>5 DEF Search, Fail
<1>6. CASE Stream(r)
  BY <1>1, <1>6 DEF Stream, Fail
<1>7. CASE Lock(r)
  BY <1>1, <1>7 DEF Lock
<1>8. CASE AppendTurn(r)
  BY <1>1, <1>8 DEF AppendTurn, Answer
<1>9. CASE Trim(r)
  BY <1>1, <1>9 DEF Trim, Answer
<1> QED
  BY <1>2, <1>3, <1>4, <1>5, <1>6, <1>7, <1>8, <1>9 DEF Request

(* The lock. *)
LEMMA WritersStep ==
  ASSUME Inv, [Next]_vars
  PROVE  WritersExclude'
<1> USE DEF WritersExclude
<1>0. pc = [q \in Requests |-> pc[q]] /\ TypeOK /\ WritersExclude /\ None \notin Requests
  BY ChatAssumption DEF Inv, TypeOK
<1>1. ASSUME NEW r \in Requests, Request(r)
      PROVE  WritersExclude'
  <2>1. CASE pc[r] \notin {"append", "write", "trim"}
    <3>1. writer' = writer /\ pc'[r] \notin {"write", "trim"}
      BY <1>0, <1>1, <2>1, Moves DEF Lookup, Restore, Publish, Search, Stream, memory
    <3> QED
      BY <1>0, <1>1, <2>1, <3>1, Moves
  <2>2. CASE Lock(r)
    BY <1>0, <2>2 DEF Lock, Goto
  <2>3. CASE AppendTurn(r)
    BY <1>0, <2>3 DEF AppendTurn, Answer, Goto
  <2>4. CASE Trim(r)
    BY <1>0, <2>4 DEF Trim, Answer, Goto
  <2> QED
    BY <1>0, <1>1, <2>1, <2>2, <2>3, <2>4, Moves
<1>2. CASE Crash
  BY <1>0, <1>2 DEF Crash
<1>3. CASE CreateSession \/ Tick \/ (\E r \in Requests : Work(r)) \/ UNCHANGED vars
  <2>1. writer' = writer /\ pc' = pc
    BY <1>3 DEF CreateSession, Tick, Work, PersistMessage, PersistRecord, vars, memory, request
  <2> QED
    BY <1>0, <2>1
<1> QED
  BY <1>1, <1>2, <1>3 DEF Next

(* New objects. *)
LEMMA UnsharedStep ==
  ASSUME Inv, [Next]_vars
  PROVE  Unshared'
<1>0. /\ TypeOK /\ Unshared /\ None \notin Requests /\ Origin \notin Requests
      /\ pc = [q \in Requests |-> pc[q]] /\ obj \in [Requests -> Objects \cup {None}]
  BY ChatAssumption DEF Inv, TypeOK
<1>1. ASSUME NEW r \in Requests, Request(r)
      PROVE  Unshared'
  <2>1. CASE Lookup(r)
    <3>1. /\ current' = current /\ pc[r] = "idle"
          /\ \/ obj' = [obj EXCEPT ![r] = current] /\ pc' = [pc EXCEPT ![r] = "search"]
             \/ obj' = obj /\ pc' = [pc EXCEPT ![r] = "restore"]
      BY <2>1 DEF Lookup, Goto, memory
    <3> QED
      BY <1>0, <3>1 DEF Unshared
  <2>2. CASE Publish(r)
    BY <1>0, <2>2 DEF Unshared, Publish, Goto
  <2>3. CASE ~Lookup(r) /\ ~Publish(r)
    <3>1. /\ current' = current
          /\ obj' = obj \/ obj' = [obj EXCEPT ![r] = None]
      BY <1>0, <1>1, <2>3, Moves DEF Restore, NoSession, LoadHistory, Search, Stream, Lock,
                                     AppendTurn, Trim, Fail, memory
    <3>2. pc[r] = "restore" \/ pc'[r] \notin {"idle", "restore", "publish"}
      BY <1>0, <1>1, <2>3, Moves
    <3>3. pc' = [pc EXCEPT ![r] = pc'[r]]
      BY <1>0, <1>1, Moves
    <3> QED
      BY <1>0, <3>1, <3>2, <3>3 DEF Unshared
  <2> QED
    BY <2>1, <2>2, <2>3
<1>2. CASE Crash
  BY <1>0, <1>2 DEF Crash, Unshared
<1>3. CASE CreateSession
  BY <1>0, <1>3 DEF CreateSession, Unshared, request
<1>4. CASE Tick \/ (\E r \in Requests : Work(r)) \/ UNCHANGED vars
  <2>1. UNCHANGED <<current, pc, obj>>
    BY <1>4 DEF Tick, Work, PersistMessage, PersistRecord, vars, memory, request
  <2> QED
    BY <1>0, <2>1 DEF Unshared
<1> QED
  BY <1>1, <1>2, <1>3, <1>4 DEF Next

(* A history made of messages. *)
Loaded(h) ==
  /\ h \in Seq(Messages) /\ Len(h) \in Nat /\ Len(h) <= 2 * MaxHistory
  /\ \A i \in 1..Len(h) : \E m \in messages : h[i].turn = m.turn

(* What a restore loads are the messages of some rows, not too many. *)
LEMMA LoadHistoryStep ==
  ASSUME Inv, NEW r \in Requests, LoadHistory(r)
  PROVE  \E h : Loaded(h) /\ history' = [history EXCEPT ![r] = h]
<1>0. PICK n \in 0..(2 * MaxHistory) : \E s \in Recent(n) :
        history' = [history EXCEPT ![r] = [i \in DOMAIN s |-> Message(s[i])]]
  BY ChatAssumption DEF LoadHistory
<1>1. PICK s \in Recent(n) :
        history' = [history EXCEPT ![r] = [i \in DOMAIN s |-> Message(s[i])]]
  BY <1>0
<1>2. n \in Nat /\ n <= 2 * MaxHistory /\ 2 * MaxHistory \in Nat
  BY ChatAssumption
<1>3. messages \subseteq Rows /\ IsFiniteSet(messages)
  BY DEF Inv, TypeOK
<1> DEFINE h == [i \in DOMAIN s |-> Message(s[i])]
<1>4. /\ h \in Seq(Messages) /\ Len(h) \in Nat /\ Len(h) <= n
      /\ \A i \in 1..Len(h) : \E m \in messages : h[i].turn = m.turn
  BY <1>2, <1>3, RestoredHistory
<1>5. history' = [history EXCEPT ![r] = h]
  BY <1>1
<1> HIDE DEF h
<1>6. Loaded(h)
  BY <1>2, <1>4 DEF Loaded
<1> QED
  BY <1>5, <1>6

(* The three ways a request changes a history. *)
LEMMA HistoryMoves ==
  ASSUME Inv, NEW r \in Requests, Request(r)
  PROVE  \/ /\ pc[r] \notin {"write", "trim"}
            /\ history' = history
         \/ /\ pc[r] = "restore" /\ pc'[r] = "publish" /\ r \in Objects
            /\ \E h : Loaded(h) /\ history' = [history EXCEPT ![r] = h]
         \/ /\ pc[r] = "write" /\ obj[r] \in Objects /\ history[obj[r]] \in Seq(Messages)
            /\ history' = [history EXCEPT ![obj[r]] = history[obj[r]] \o Turn(r)]
            /\ IF Len(history[obj[r]]) + 2 > 2 * MaxHistory THEN pc'[r] = "trim"
                                                            ELSE pc'[r] = "success"
         \/ /\ pc[r] = "trim" /\ obj[r] \in Objects /\ history[obj[r]] \in Seq(Messages)
            /\ history' = [history EXCEPT ![obj[r]] =
                              SubSeq(history[obj[r]], 3, Len(history[obj[r]]))]
            /\ pc'[r] = "success"
<1>0. TypeOK /\ Copied
  BY DEF Inv
<1>1. pc[r] \in {"write", "trim"} => obj[r] \in Objects /\ history[obj[r]] \in Seq(Messages)
  BY <1>0 DEF TypeOK, InFlight
<1>2. CASE Restore(r)
  <2>1. CASE LoadHistory(r)
    <3>1. pc'[r] = "publish"
      BY <1>0, <2>1 DEF LoadHistory, Goto, TypeOK
    <3> QED
      BY <1>2, <2>1, <3>1, LoadHistoryStep DEF Restore, Objects
  <2>2. CASE NoSession(r)
    BY <1>2, <2>2 DEF Restore, NoSession
  <2> QED
    BY <1>2, <2>1, <2>2 DEF Restore
<1>3. CASE AppendTurn(r)
  <2>1. copy[r] = history[obj[r]]
    BY <1>0, <1>3 DEF AppendTurn, Copied
  <2>2. /\ pc[r] = "write"
        /\ history' = [history EXCEPT ![obj[r]] = copy[r] \o Turn(r)]
        /\ IF Len(copy[r]) + 2 > 2 * MaxHistory THEN pc'[r] = "trim" ELSE pc'[r] = "success"
    BY <1>0, <1>3 DEF AppendTurn, Answer, Goto, TypeOK
  <2> QED
    BY <1>1, <2>1, <2>2
<1>4. CASE Trim(r)
  <2>1. pc[r] = "trim" /\ pc'[r] = "success"
    BY <1>0, <1>4, Moves DEF Trim
  <2>2. history' = [history EXCEPT ![obj[r]] = SubSeq(history[obj[r]], 3, Len(history[obj[r]]))]
    BY <1>4 DEF Trim
  <2> QED
    BY <1>1, <2>1, <2>2
<1>5. CASE Lookup(r) \/ Publish(r) \/ Search(r) \/ Stream(r) \/ Lock(r)
  <2>1. history' = history
    BY <1>5 DEF Lookup, Publish, Search, Stream, Lock, memory
  <2>2. pc[r] \notin {"write", "trim"}
    BY <1>5 DEF Lookup, Publish, Search, Stream, Lock
  <2> QED
    BY <2>1, <2>2
<1> QED
  BY <1>2, <1>3, <1>4, <1>5 DEF Request

(* The steps that touch neither a request nor a history. *)
LEMMA QuietSteps ==
  ASSUME CreateSession \/ Tick \/ (\E r \in Requests : Work(r)) \/ UNCHANGED vars
  PROVE  UNCHANGED <<pc, obj, copy, before, history, writer>>
BY DEF CreateSession, Tick, Work, PersistMessage, PersistRecord, vars, memory, request

(* A request leaves what belongs to the others alone, and a writer its object. *)
LEMMA OthersKept ==
  ASSUME TypeOK, NEW r \in Requests, Request(r), NEW q \in Requests
  PROVE  /\ q # r => pc'[q] = pc[q] /\ obj'[q] = obj[q] /\ copy'[q] = copy[q]
         /\ pc[q] \in {"write", "trim"} => obj'[q] = obj[q]
<1>1. q # r => pc'[q] = pc[q]
  BY Moves DEF TypeOK
<1>2. q # r => obj'[q] = obj[q] /\ copy'[q] = copy[q]
  BY DEF Request, TypeOK, Lookup, Restore, NoSession, LoadHistory, Publish, Search, Stream, Lock,
         AppendTurn, Trim, Fail
<1>3. pc[r] \in {"write", "trim"} => obj'[r] = obj[r]
  <2>1. pc[r] \in {"write", "trim"} => AppendTurn(r) \/ Trim(r)
    BY Moves
  <2> QED
    BY <2>1 DEF AppendTurn, Trim
<1> QED
  BY <1>1, <1>2, <1>3

(* The history a request has read under the lock. *)
LEMMA CopiedStep ==
  ASSUME Inv, [Next]_vars
  PROVE  Copied'
<1>0. /\ TypeOK /\ Copied /\ WritersExclude /\ Unshared
      /\ pc = [q \in Requests |-> pc[q]]
  BY DEF Inv, TypeOK
<1>1. ASSUME NEW r \in Requests, Request(r),
             NEW q \in Requests, pc'[q] = "write"
      PROVE  copy'[q] = history'[obj'[q]]
  <2>1. CASE q = r
    <3>1. Lock(r)
      BY <1>0, <1>1, <2>1, Moves
    <3> QED
      BY <1>0, <2>1, <3>1 DEF Lock, TypeOK
  <2>2. CASE q # r
    <3>1. pc[q] = "write" /\ obj[q] \in Objects
      BY <1>0, <1>1, <2>2, OthersKept DEF TypeOK, InFlight
    <3>2. pc[r] \notin {"write", "trim"}
      BY <1>0, <2>2, <3>1 DEF WritersExclude
    <3>3. obj'[q] = obj[q] /\ copy'[q] = copy[q]
      BY <1>0, <1>1, <2>2, OthersKept
    <3>4. history'[obj[q]] = history[obj[q]]
      <4>1. CASE pc[r] = "restore"
        <5>1. obj[q] # r
          BY <1>0, <4>1 DEF Unshared
        <5> QED
          BY <1>0, <1>1, <3>1, <3>2, <4>1, <5>1, HistoryMoves DEF TypeOK
      <4>2. CASE pc[r] # "restore"
        BY <1>1, <3>2, <4>2, HistoryMoves
      <4> QED
        BY <4>1, <4>2
    <3> QED
      BY <1>0, <3>1, <3>3, <3>4 DEF Copied
  <2> QED
    BY <2>1, <2>2
<1>2. CASE Crash
  BY <1>0, <1>2 DEF Crash, Copied
<1>3. CASE CreateSession \/ Tick \/ (\E r \in Requests : Work(r)) \/ UNCHANGED vars
  BY <1>0, <1>3, QuietSteps DEF Copied
<1> QED
  BY <1>1, <1>2, <1>3 DEF Next, Copied

(* How long a history can get. *)
LEMMA BoundedStep ==
  ASSUME Inv, [Next]_vars
  PROVE  Bounded'
<1>0. /\ TypeOK /\ Bounded /\ WritersExclude
      /\ MaxHistory \in Nat \ {0} /\ history \in [Objects -> Seq(Messages)]
      /\ \A o \in Objects : Len(history[o]) \in Nat
  BY ChatAssumption, LenProperties DEF Inv, TypeOK
<1>1. ASSUME NEW r \in Requests, Request(r)
      PROVE  Bounded'
  <2>1. CASE pc[r] \notin {"write", "trim"}
    <3>1. ASSUME NEW o \in Objects, Trimming(o)
          PROVE  Trimming(o)'
      <4>1. PICK q \in Requests : pc[q] = "trim" /\ obj[q] = o
        BY <3>1 DEF Trimming
      <4>2. pc'[q] = "trim" /\ obj'[q] = o
        BY <1>0, <1>1, <2>1, <4>1, OthersKept
      <4> QED
        BY <4>2 DEF Trimming
    <3>2. ASSUME NEW o \in Objects
          PROVE  history'[o] = history[o] \/ Len(history'[o]) <= 2 * MaxHistory
      BY <1>0, <1>1, <2>1, HistoryMoves DEF Loaded
    <3>3. ASSUME NEW o \in Objects
          PROVE  Len(history'[o]) <= 2 * MaxHistory + (IF Trimming(o)' THEN 2 ELSE 0)
      <4>1. CASE history'[o] = history[o]
        BY <1>0, <3>1, <4>1 DEF Bounded
      <4>2. CASE Len(history'[o]) <= 2 * MaxHistory
        <5>1. history'[o] = history[o] \/ Len(history'[o]) \in Nat
          BY <1>0, <1>1, <2>1, HistoryMoves DEF Loaded
        <5> QED
          BY <1>0, <4>1, <4>2, <5>1
      <4> QED
        BY <3>2, <4>1, <4>2
    <3> QED
      BY <3>3 DEF Bounded
  <2>2. CASE pc[r] = "write"
    <3>1. ASSUME NEW o \in Objects
          PROVE  Len(history[o]) <= 2 * MaxHistory
      <4>1. \A q \in Requests : pc[q] # "trim"
        BY <1>0, <2>2 DEF WritersExclude
      <4> QED
        BY <1>0, <4>1 DEF Bounded, Trimming
    <3> DEFINE h == history[obj[r]] \o Turn(r)
    <3>2. /\ obj[r] \in Objects /\ history' = [history EXCEPT ![obj[r]] = h]
          /\ h \in Seq(Messages) /\ Len(h) = Len(history[obj[r]]) + 2
          /\ Len(h) > 2 * MaxHistory => pc'[r] = "trim" /\ obj'[r] = obj[r]
      BY <1>0, <1>1, <2>2, HistoryMoves, OthersKept, AppendedHistory
    <3> HIDE DEF h
    <3>3. Len(h) > 2 * MaxHistory => Trimming(obj[r])'
      BY <3>2 DEF Trimming
    <3>4. ASSUME NEW o \in Objects
          PROVE  Len(history'[o]) <= 2 * MaxHistory + (IF Trimming(o)' THEN 2 ELSE 0)
      <4>1. CASE o = obj[r]
        <5>1. history'[o] = h
          BY <1>0, <3>2, <4>1
        <5> QED
          BY <1>0, <3>1, <3>2, <3>3, <4>1, <5>1
      <4>2. CASE o # obj[r]
        <5>1. history'[o] = history[o]
          BY <1>0, <3>2, <4>2
        <5> QED
          BY <1>0, <3>1, <5>1
      <4> QED
        BY <4>1, <4>2
    <3> QED
      BY <3>4 DEF Bounded
  <2>3. CASE pc[r] = "trim"
    <3> DEFINE h == SubSeq(history[obj[r]], 3, Len(history[obj[r]]))
    <3>1. /\ obj[r] \in Objects /\ history' = [history EXCEPT ![obj[r]] = h]
          /\ Len(h) = IF 3 <= Len(history[obj[r]]) THEN Len(history[obj[r]]) - 2 ELSE 0
      BY <1>1, <2>3, HistoryMoves, TrimmedHistory
    <3> HIDE DEF h
    <3>2. ASSUME NEW o \in Objects
          PROVE  Len(history'[o]) <= 2 * MaxHistory /\ Len(history'[o]) \in Nat
      <4>1. CASE o = obj[r]
        <5>1. history'[o] = h
          BY <1>0, <3>1, <4>1
        <5>2. Len(history[o]) <= 2 * MaxHistory + 2
          BY <1>0 DEF Bounded
        <5> QED
          BY <1>0, <3>1, <4>1, <5>1, <5>2
      <4>2. CASE o # obj[r]
        <5>1. \A q \in Requests : pc[q] = "trim" => q = r
          BY <1>0, <2>3 DEF WritersExclude
        <5>2. ~Trimming(o)
          BY <4>2, <5>1 DEF Trimming
        <5>3. history'[o] = history[o]
          BY <1>0, <3>1, <4>2
        <5> QED
          BY <1>0, <5>2, <5>3 DEF Bounded
      <4> QED
        BY <4>1, <4>2
    <3> QED
      BY <1>0, <3>2 DEF Bounded
  <2> QED
    BY <2>1, <2>2, <2>3
<1>2. CASE Crash
  <2>1. \A o \in Objects : history'[o] = <<>>
    BY <1>2 DEF Crash
  <2> QED
    BY <1>0, <2>1 DEF Bounded
<1>3. CASE CreateSession \/ Tick \/ (\E r \in Requests : Work(r)) \/ UNCHANGED vars
  BY <1>0, <1>3, QuietSteps DEF Bounded, Trimming
<1> QED
  BY <1>1, <1>2, <1>3 DEF Next

(* Nothing but an answered turn reaches a history. *)
LEMMA SoundHistories ==
  ASSUME Inv, [Next]_vars
  PROVE  \A o \in Objects : \A i \in 1..Len(history'[o]) :
           pc'[history'[o][i].turn] \in {"trim", "success", "past"}
<1> DEFINE Good(q) == pc[q] \in {"trim", "success", "past"}
           Stays(q) == pc'[q] \in {"trim", "success", "past"}
<1>0. /\ TypeOK /\ Sound /\ history \in [Objects -> Seq(Messages)]
      /\ \A o \in Objects : \A i \in 1..Len(history[o]) :
           history[o][i].turn \in Requests /\ Good(history[o][i].turn)
      /\ \A m \in messages : m.turn \in Requests /\ Good(m.turn)
  <2>1. TypeOK /\ Sound /\ history \in [Objects -> Seq(Messages)] /\ messages \subseteq Rows
    BY DEF Inv, TypeOK
  <2>2. ASSUME NEW o \in Objects, NEW i \in 1..Len(history[o])
        PROVE  history[o][i].turn \in Requests
    <3>1. history[o][i] \in Messages
      BY <2>1, ElementOfSeq
    <3> QED
      BY <3>1 DEF Messages
  <2> QED
    BY <2>1, <2>2 DEF Sound, Rows
<1>1. ASSUME NEW r \in Requests, Request(r)
      PROVE  \A o \in Objects : \A i \in 1..Len(history'[o]) : Stays(history'[o][i].turn)
  <2>1. \A q \in Requests : Good(q) => Stays(q)
    BY <1>0, <1>1, Moves, OthersKept
  <2>2. ASSUME NEW h, NEW o \in Objects, history' = [history EXCEPT ![o] = h],
               \A i \in 1..Len(h) : Stays(h[i].turn)
        PROVE  \A p \in Objects : \A i \in 1..Len(history'[p]) : Stays(history'[p][i].turn)
    <3>1. \A p \in Objects : history'[p] = IF p = o THEN h ELSE history[p]
      BY <1>0, <2>2
    <3> QED
      BY <1>0, <2>1, <2>2, <3>1
  <2>3. CASE history' = history
    BY <1>0, <2>1, <2>3
  <2>4. CASE pc[r] = "restore" /\ history' # history
    <3>1. PICK h : Loaded(h) /\ history' = [history EXCEPT ![r] = h]
      BY <1>1, <2>4, HistoryMoves
    <3>2. \A i \in 1..Len(h) : Stays(h[i].turn)
      BY <1>0, <2>1, <3>1 DEF Loaded
    <3> QED
      BY <2>2, <3>1, <3>2 DEF Objects
  <2>5. CASE pc[r] = "write"
    <3> DEFINE h == history[obj[r]] \o Turn(r)
    <3>1. /\ obj[r] \in Objects /\ history[obj[r]] \in Seq(Messages) /\ Stays(r)
          /\ history' = [history EXCEPT ![obj[r]] = h]
      BY <1>1, <2>5, HistoryMoves
    <3>2. \A i \in 1..Len(h) : Stays(h[i].turn)
      <4>1. ASSUME NEW i \in 1..Len(h)
            PROVE  h[i].turn = r \/ \E j \in 1..Len(history[obj[r]]) : h[i] = history[obj[r]][j]
        BY <3>1, AppendedHistory
      <4> HIDE DEF h
      <4> QED
        BY <1>0, <2>1, <3>1, <4>1
    <3> HIDE DEF h
    <3> QED
      BY <2>2, <3>1, <3>2
  <2>6. CASE pc[r] = "trim"
    <3> DEFINE h == SubSeq(history[obj[r]], 3, Len(history[obj[r]]))
    <3>1. /\ obj[r] \in Objects /\ history[obj[r]] \in Seq(Messages)
          /\ history' = [history EXCEPT ![obj[r]] = h]
      BY <1>1, <2>6, HistoryMoves
    <3>2. \A i \in 1..Len(h) : Stays(h[i].turn)
      <4>1. ASSUME NEW i \in 1..Len(h)
            PROVE  \E j \in 1..Len(history[obj[r]]) : h[i] = history[obj[r]][j]
        BY <3>1, TrimmedHistory
      <4> HIDE DEF h
      <4> QED
        BY <1>0, <2>1, <3>1, <4>1
    <3> HIDE DEF h
    <3> QED
      BY <2>2, <3>1, <3>2
  <2> QED
    BY <1>1, <2>3, <2>4, <2>5, <2>6, HistoryMoves
<1>2. CASE Crash
  BY <1>2 DEF Crash
<1>3. CASE CreateSession \/ Tick \/ (\E r \in Requests : Work(r)) \/ UNCHANGED vars
  BY <1>0, <1>3, QuietSteps
<1> QED
  BY <1>1, <1>2, <1>3 DEF Next

(* The steps that leave MySQL's messages and records alone. *)
LEMMA StoredSteps ==
  ASSUME [Next]_vars, ~ \E r \in Requests : Work(r)
  PROVE  UNCHANGED <<messages, records>>
BY DEF Next, Request, CreateSession, Tick, Crash, vars, stored, Lookup, Restore, Publish, Search,
       Stream, Lock, AppendTurn, Trim

(* What a request has come to stays true of it. *)
LEMMA EndsKept ==
  ASSUME Inv, [Next]_vars, NEW q \in Requests
  PROVE  /\ pc[q] \in {"success", "past"} => pc'[q] \in {"success", "past"}
         /\ pc[q] \in {"failed", "partial", "dead"} => pc'[q] \in {"failed", "partial", "dead"}
<1>0. TypeOK
  BY DEF Inv
<1>1. ASSUME NEW r \in Requests, Request(r)
      PROVE  pc[q] \in {"success", "past", "failed", "partial", "dead"} => pc'[q] = pc[q]
  BY <1>0, <1>1, Moves, OthersKept
<1>2. CASE Crash
  BY <1>2 DEF Crash
<1>3. CASE CreateSession \/ Tick \/ (\E r \in Requests : Work(r)) \/ UNCHANGED vars
  BY <1>3, QuietSteps
<1> QED
  BY <1>1, <1>2, <1>3 DEF Next

(* Turns of failed requests stay out of the histories, rows and records. *)
LEMMA SoundStep ==
  ASSUME Inv, [Next]_vars
  PROVE  Sound'
<1>0. /\ TypeOK /\ Sound /\ Tasks
      /\ \A m \in messages : m.turn \in Requests
  BY DEF Inv, TypeOK, Rows
<1>1. CASE ~ \E r \in Requests : Work(r)
  <2>1. UNCHANGED <<messages, records>>
    BY <1>1, StoredSteps
  <2> QED
    BY <1>0, <2>1, SoundHistories, EndsKept DEF Sound
<1>2. ASSUME NEW r \in Requests, Work(r)
      PROVE  Sound'
  <2>0. pc' = pc
    BY <1>2, QuietSteps
  <2>1. ASSUME NEW role \in {"user", "assistant"}, NEW then, PersistMessage(r, role, then)
        PROVE  Sound'
    <3>1. pc[r] = "success" /\ records' = records
      BY <1>0, <2>1 DEF PersistMessage, Tasks
    <3>2. \A m \in messages' : m \in messages \/ m.turn = r
      BY <2>1 DEF PersistMessage, CreateMessage
    <3> QED
      BY <1>0, <2>0, <3>1, <3>2, SoundHistories DEF Sound
  <2>2. CASE PersistRecord(r)
    <3>1. messages' = messages /\ (records' = records \/ records' = [records EXCEPT ![r] = pc[r]])
      BY <2>2 DEF PersistRecord
    <3>2. \A q \in Requests : records'[q] = records[q] \/ records'[q] = pc[q]
      BY <1>0, <3>1 DEF TypeOK
    <3> QED
      BY <1>0, <2>0, <3>1, <3>2, SoundHistories DEF Sound
  <2> QED
    BY <1>2, <2>1, <2>2 DEF Work
<1> QED
  BY <1>1, <1>2

(* The work in the pool. *)
LEMMA TasksStep ==
  ASSUME Inv, [Next]_vars
  PROVE  Tasks'
<1>0. TypeOK /\ Tasks /\ task = [q \in Requests |-> task[q]]
  BY DEF Inv, TypeOK
<1>1. ASSUME NEW r \in Requests, Request(r)
      PROVE  Tasks'
  <2>1. CASE task' = task
    BY <1>0, <1>1, <2>1, EndsKept, Moves, OthersKept DEF Tasks
  <2>2. CASE /\ task' = [task EXCEPT ![r] = "record"]
             /\ pc'[r] \in {"success", "failed", "partial"}
    BY <1>0, <1>1, <2>2, OthersKept DEF Tasks
  <2>3. CASE /\ task' = [task EXCEPT ![r] = "user"] /\ pc'[r] = "success"
    BY <1>0, <1>1, <2>3, OthersKept DEF Tasks
  <2>4. CASE Fail(r, "failed") \/ Fail(r, "partial")
    <3>1. /\ pc'[r] \in {"failed", "partial"}
          /\ task' = task \/ task' = [task EXCEPT ![r] = "record"]
      BY <1>0, <2>4 DEF Fail, Goto, TypeOK
    <3> QED
      BY <2>1, <2>2, <3>1
  <2>5. CASE Answer(r)
    <3>1. pc'[r] = "success"
      BY <1>0, <2>5 DEF Answer, Goto, TypeOK
    <3>2. \/ task' = task
          \/ task' = [task EXCEPT ![r] = "record"] \/ task' = [task EXCEPT ![r] = "user"]
      BY <2>5 DEF Answer, Submit
    <3> QED
      BY <2>1, <2>2, <2>3, <3>1, <3>2
  <2>6. CASE Lookup(r) \/ Publish(r) \/ Lock(r)
    BY <2>1, <2>6 DEF Lookup, Publish, Lock
  <2>7. CASE Restore(r)
    BY <2>1, <2>4, <2>7 DEF Restore, NoSession, LoadHistory
  <2>8. CASE Search(r)
    BY <2>1, <2>4, <2>8 DEF Search
  <2>9. CASE Stream(r)
    BY <2>1, <2>4, <2>9 DEF Stream
  <2>10. CASE AppendTurn(r)
    BY <2>1, <2>5, <2>10 DEF AppendTurn
  <2>11. CASE Trim(r)
    BY <2>5, <2>11 DEF Trim
  <2> QED
    BY <1>1, <2>6, <2>7, <2>8, <2>9, <2>10, <2>11 DEF Request
<1>2. CASE Crash
  BY <1>0, <1>2 DEF Crash, Tasks
<1>3. ASSUME NEW r \in Requests, Work(r)
      PROVE  Tasks'
  <2>1. pc' = pc
    BY <1>3, QuietSteps
  <2>2. \/ task[r] = "user" /\ task' = [task EXCEPT ![r] = "assistant"]
        \/ task[r] = "assistant" /\ task' = [task EXCEPT ![r] = "record"]
        \/ task[r] = "record" /\ task' = [task EXCEPT ![r] = "none"]
    BY <1>3 DEF Work, PersistMessage, PersistRecord
  <2> QED
    BY <1>0, <2>1, <2>2 DEF Tasks
<1>4. CASE CreateSession \/ Tick \/ UNCHANGED vars
  BY <1>0, <1>4 DEF CreateSession, Tick, vars, request, Tasks
<1> QED
  BY <1>1, <1>2, <1>3, <1>4 DEF Next

(* The types of the histories. *)
LEMMA HistoryTypeStep ==
  ASSUME Inv, [Next]_vars
  PROVE  history' \in [Objects -> Seq(Messages)]
<1>0. TypeOK /\ history \in [Objects -> Seq(Messages)]
  BY DEF Inv, TypeOK
<1>1. ASSUME NEW o \in Objects, NEW h \in Seq(Messages), history' = [history EXCEPT ![o] = h]
      PROVE  history' \in [Objects -> Seq(Messages)]
  BY <1>0, <1>1
<1>2. ASSUME NEW r \in Requests, Request(r)
      PROVE  history' \in [Objects -> Seq(Messages)]
  <2>1. CASE history' = history
    BY <1>0, <2>1
  <2>2. CASE pc[r] = "restore" /\ history' # history
    BY <1>1, <1>2, <2>2, HistoryMoves DEF Loaded
  <2>3. CASE pc[r] = "write"
    BY <1>1, <1>2, <2>3, HistoryMoves, AppendedHistory
  <2>4. CASE pc[r] = "trim"
    BY <1>1, <1>2, <2>4, HistoryMoves, TrimmedHistory
  <2> QED
    BY <1>2, <2>1, <2>2, <2>3, <2>4, HistoryMoves
<1>3. CASE Crash
  <2>1. <<>> \in Seq(Messages)
    BY EmptySeq
  <2> QED
    BY <1>3, <2>1 DEF Crash
<1>4. CASE CreateSession \/ Tick \/ (\E r \in Requests : Work(r)) \/ UNCHANGED vars
  BY <1>0, <1>4, QuietSteps
<1> QED
  BY <1>2, <1>3, <1>4 DEF Next

(* The rows of messages. *)
LEMMA MessagesStep ==
  ASSUME Inv, [Next]_vars
  PROVE  messages' \subseteq Rows /\ IsFiniteSet(messages')
<1>0. messages \subseteq Rows /\ IsFiniteSet(messages) /\ now \in 0..MaxTime
  BY DEF Inv, TypeOK
<1>1. CASE ~ \E r \in Requests : Work(r)
  BY <1>0, <1>1, StoredSteps
<1>2. ASSUME NEW r \in Requests, Work(r)
      PROVE  messages' \subseteq Rows /\ IsFiniteSet(messages')
  <2>1. \/ messages' = messages
        \/ \E role \in Roles : messages' = messages \cup {[turn |-> r, role |-> role, at |-> now]}
    BY <1>2 DEF Work, PersistMessage, CreateMessage, PersistRecord, Roles
  <2>2. CASE messages' = messages
    BY <1>0, <2>2
  <2>3. ASSUME NEW role \in Roles,
               messages' = messages \cup {[turn |-> r, role |-> role, at |-> now]}
        PROVE  messages' \subseteq Rows /\ IsFiniteSet(messages')
    <3>1. [turn |-> r, role |-> role, at |-> now] \in Rows
      BY <1>0 DEF Rows
    <3>2. IsFiniteSet(messages')
      BY <1>0, <2>3, FS_AddElement
    <3> QED
      BY <1>0, <2>3, <3>1, <3>2
  <2> QED
    BY <2>1, <2>2, <2>3
<1> QED
  BY <1>1, <1>2

(* The types of what a request keeps. *)
LEMMA RequestTypeStep ==
  ASSUME Inv, NEW r \in Requests, Request(r)
  PROVE  /\ current' \in Objects \cup {None} /\ writer' \in Requests \cup {None}
         /\ obj' \in [Requests -> Objects \cup {None}]
         /\ copy' \in [Requests -> Seq(Messages) \cup {Garbage}]
         /\ before' \in [Requests -> SUBSET Requests]
         /\ task' \in [Requests -> {"none", "user", "assistant", "record"}]
         /\ faults' \in 0..MaxFaults
         /\ blank' \subseteq Requests
<1>0. /\ TypeOK /\ r \in Objects /\ <<>> \in Seq(Messages) /\ MaxFaults \in Nat
      /\ Answered \subseteq Requests
  BY EmptySeq, ChatAssumption DEF Inv, Objects, Answered
<1>1. ASSUME NEW status, Fail(r, status)
      PROVE  /\ obj' \in [Requests -> Objects \cup {None}]
             /\ copy' \in [Requests -> Seq(Messages) \cup {Garbage}]
             /\ before' \in [Requests -> SUBSET Requests]
             /\ task' \in [Requests -> {"none", "user", "assistant", "record"}]
  BY <1>0, <1>1 DEF Fail, TypeOK
<1>2. Fault => faults' \in 0..MaxFaults
  BY <1>0 DEF Fault, TypeOK
<1>3. ASSUME Answer(r)
      PROVE  /\ task' \in [Requests -> {"none", "user", "assistant", "record"}]
             /\ faults' \in 0..MaxFaults
  BY <1>0, <1>2, <1>3 DEF Answer, Submit, TypeOK
<1>4. CASE Lookup(r)
  BY <1>0, <1>4 DEF Lookup, stored, memory, bounds, TypeOK
<1>5. CASE Restore(r)
  <2>1. CASE NoSession(r)
    <3>1. Fail(r, "failed") /\ blank' = blank /\ faults' \in 0..MaxFaults
      BY <1>0, <1>2, <2>1 DEF NoSession, TypeOK
    <3> QED
      BY <1>0, <1>1, <1>5, <3>1 DEF Restore, TypeOK
  <2>2. CASE LoadHistory(r)
    <3>1. /\ UNCHANGED <<current, writer, obj, copy, before, task>>
          /\ blank' = blank \/ blank' = blank \cup {r}
          /\ faults' = faults \/ Fault
      BY <1>5, <2>2 DEF Restore, LoadHistory
    <3> QED
      BY <1>0, <1>2, <3>1 DEF TypeOK
  <2> QED
    BY <1>5, <2>1, <2>2 DEF Restore
<1>6. CASE Publish(r)
  BY <1>0, <1>6 DEF Publish, stored, bounds, TypeOK
<1>7. CASE Search(r)
  <2>1. CASE Fault /\ Fail(r, "failed")
    BY <1>0, <1>1, <1>2, <1>7, <2>1 DEF Search, memory, TypeOK
  <2>2. CASE \E seen \in BuildMessages(r) : copy' = [copy EXCEPT ![r] = seen]
    <3>1. BuildMessages(r) \subseteq Seq(Messages) \cup {Garbage}
      <4>1. obj[r] \in Objects
        BY <1>0, <1>7 DEF Search, TypeOK, InFlight
      <4> QED
        BY <1>0, <4>1 DEF BuildMessages, TypeOK
    <3>2. copy' \in [Requests -> Seq(Messages) \cup {Garbage}]
      BY <1>0, <2>2, <3>1 DEF TypeOK
    <3>3. CASE UNCHANGED <<obj, before, task, faults>>
      BY <1>0, <1>7, <3>2, <3>3 DEF Search, memory, TypeOK
    <3> QED
      BY <1>7, <2>1, <3>3 DEF Search
  <2> QED
    BY <1>7, <2>1, <2>2 DEF Search
<1>8. CASE Stream(r)
  <2>1. CASE Fault /\ \E status \in {"failed", "partial"} : Fail(r, status)
    BY <1>0, <1>1, <1>2, <1>8, <2>1 DEF Stream, memory, TypeOK
  <2>2. CASE /\ copy' = [copy EXCEPT ![r] = <<>>] /\ before' = [before EXCEPT ![r] = {}]
             /\ UNCHANGED <<obj, task, faults>>
    BY <1>0, <1>8, <2>2 DEF Stream, memory, TypeOK
  <2> QED
    BY <1>8, <2>1, <2>2 DEF Stream
<1>9. CASE Lock(r)
  <2>1. history[obj[r]] \in Seq(Messages)
    BY <1>0, <1>9 DEF Lock, TypeOK, InFlight
  <2> QED
    BY <1>0, <1>9, <2>1 DEF Lock, stored, bounds, TypeOK
<1>10. CASE AppendTurn(r)
  <2>1. CASE Answer(r)
    BY <1>0, <1>3, <1>10, <2>1 DEF AppendTurn, stored, TypeOK
  <2>2. CASE UNCHANGED <<writer, task, faults>>
    BY <1>0, <1>10, <2>2 DEF AppendTurn, stored, TypeOK
  <2> QED
    BY <1>10, <2>1, <2>2 DEF AppendTurn
<1>11. CASE Trim(r)
  BY <1>0, <1>3, <1>11 DEF Trim, stored, TypeOK
<1> QED
  BY <1>4, <1>5, <1>6, <1>7, <1>8, <1>9, <1>10, <1>11 DEF Request

(* Where the requests are, and the objects of those under way. *)
LEMMA PlaceStep ==
  ASSUME Inv, [Next]_vars
  PROVE  /\ pc' \in [Requests -> InFlight \cup
                       {"idle", "success", "failed", "partial", "dead", "past"}]
         /\ \A r \in Requests :
              pc'[r] \in InFlight \ {"restore", "publish"} => obj'[r] # None
<1> DEFINE Places == InFlight \cup {"idle", "success", "failed", "partial", "dead", "past"}
<1>0. /\ TypeOK /\ None \notin Objects /\ pc \in [Requests -> Places]
      /\ \A r \in Requests : pc[r] \in InFlight \ {"restore", "publish"} => obj[r] # None
  BY ChatAssumption DEF Inv, TypeOK, Objects
<1>1. ASSUME NEW r \in Requests, Request(r)
      PROVE  /\ pc' \in [Requests -> Places]
             /\ \A q \in Requests :
                  pc'[q] \in InFlight \ {"restore", "publish"} => obj'[q] # None
  <2>1. pc'[r] \in Places
    BY <1>0, <1>1, Moves DEF InFlight
  <2>2. pc' \in [Requests -> Places]
    BY <1>0, <1>1, <2>1, Moves
  <2>3. pc'[r] \in InFlight \ {"restore", "publish"} => obj'[r] # None
    <3>1. CASE Lookup(r) /\ pc'[r] = "search"
      BY <1>0, <3>1 DEF Lookup, Goto, TypeOK
    <3>2. CASE Publish(r)
      BY <1>0, <3>2 DEF Publish, Objects, TypeOK
    <3>3. CASE pc[r] \in {"search", "stream", "append", "write"}
      <4>1. obj'[r] = obj[r] \/ pc'[r] \notin InFlight
        BY <1>0, <1>1, <3>3, Moves DEF Search, Stream, Lock, AppendTurn, InFlight, Fail, Goto, TypeOK
      <4> QED
        BY <1>0, <3>3, <4>1 DEF InFlight
    <3> QED
      BY <1>0, <1>1, <3>1, <3>2, <3>3, Moves DEF InFlight
  <2> QED
    BY <1>0, <1>1, <2>2, <2>3, OthersKept
<1>2. CASE Crash
  BY <1>2 DEF Crash, InFlight
<1>3. CASE CreateSession \/ Tick \/ (\E r \in Requests : Work(r)) \/ UNCHANGED vars
  BY <1>0, <1>3, QuietSteps
<1> QED
  BY <1>1, <1>2, <1>3 DEF Next

(* What a request does not touch. *)
LEMMA RequestFrame ==
  ASSUME NEW r \in Requests, Request(r)
  PROVE  UNCHANGED <<row, idKnown, records, now, crashes>>
BY DEF Request, Lookup, Restore, Publish, Search, Stream, Lock, AppendTurn, Trim, stored, bounds

(* Every step keeps the types. *)
LEMMA TypeStep ==
  ASSUME Inv, [Next]_vars
  PROVE  TypeOK'
<1>0. /\ TypeOK /\ Tasks /\ {MaxTime, MaxCrashes, MaxFaults} \subseteq Nat
  BY ChatAssumption DEF Inv
<1>1. ASSUME NEW r \in Requests, Request(r)
      PROVE  TypeOK'
  <2>1. UNCHANGED <<row, idKnown, records, now, crashes>>
    BY <1>1, RequestFrame
  <2>2. /\ row' \in {"none", "absent", "present"} /\ idKnown' \in BOOLEAN
        /\ records' \in [Requests -> {"none", "success", "failed", "partial"}]
        /\ now' \in 0..MaxTime /\ crashes' \in 0..MaxCrashes
    BY <1>0, <2>1 DEF TypeOK
  <2> QED
    BY <1>1, <2>2, RequestTypeStep, PlaceStep, HistoryTypeStep, MessagesStep DEF TypeOK
<1>2. CASE ~ \E r \in Requests : Request(r)
  <2>1. Fault => faults' \in 0..MaxFaults
    BY <1>0 DEF Fault, TypeOK
  <2>2. /\ row' \in {"none", "absent", "present"} /\ idKnown' \in BOOLEAN
        /\ current' \in Objects \cup {None} /\ writer' \in Requests \cup {None}
        /\ now' \in 0..MaxTime /\ crashes' \in 0..MaxCrashes /\ faults' \in 0..MaxFaults
        /\ blank' \subseteq Requests
    <3>1. CASE CreateSession
      BY <1>0, <2>1, <3>1 DEF CreateSession, Create, Objects, TypeOK
    <3>2. CASE Tick
      BY <1>0, <3>2 DEF Tick, stored, memory, TypeOK
    <3>3. CASE Crash
      BY <1>0, <3>3 DEF Crash, stored, TypeOK
    <3>4. CASE \E r \in Requests : Work(r)
      BY <1>0, <2>1, <3>4 DEF Work, PersistMessage, CreateMessage, PersistRecord, memory, TypeOK
    <3>5. CASE UNCHANGED vars
      BY <1>0, <3>5 DEF vars, stored, memory, bounds, TypeOK
    <3> QED
      BY <1>2, <3>1, <3>2, <3>3, <3>4, <3>5 DEF Next
  <2>3. /\ obj' \in [Requests -> Objects \cup {None}]
        /\ copy' \in [Requests -> Seq(Messages) \cup {Garbage}]
        /\ before' \in [Requests -> SUBSET Requests]
    <3>1. CASE Crash
      <4>1. <<>> \in Seq(Messages)
        BY EmptySeq
      <4> QED
        BY <3>1, <4>1 DEF Crash
    <3>2. CASE CreateSession \/ Tick \/ (\E r \in Requests : Work(r)) \/ UNCHANGED vars
      BY <1>0, <3>2, QuietSteps DEF TypeOK
    <3> QED
      BY <1>2, <3>1, <3>2 DEF Next
  <2>4. task' \in [Requests -> {"none", "user", "assistant", "record"}]
    <3>1. CASE \E r \in Requests : Work(r)
      BY <1>0, <3>1 DEF Work, PersistMessage, PersistRecord, TypeOK
    <3>2. CASE CreateSession \/ Tick \/ Crash \/ UNCHANGED vars
      BY <1>0, <3>2 DEF CreateSession, Tick, Crash, vars, TypeOK
    <3> QED
      BY <1>2, <3>1, <3>2 DEF Next
  <2>5. records' \in [Requests -> {"none", "success", "failed", "partial"}]
    <3>1. CASE ~ \E r \in Requests : Work(r)
      BY <1>0, <3>1, StoredSteps DEF TypeOK
    <3>2. ASSUME NEW r \in Requests, Work(r)
          PROVE  records' \in [Requests -> {"none", "success", "failed", "partial"}]
      <4>1. \/ records' = records
            \/ /\ records' = [records EXCEPT ![r] = pc[r]]
               /\ pc[r] \in {"success", "failed", "partial"}
        BY <1>0, <3>2 DEF Work, PersistMessage, PersistRecord, Tasks
      <4> QED
        BY <1>0, <4>1 DEF TypeOK
    <3> QED
      BY <3>1, <3>2
  <2> QED
    BY <2>2, <2>3, <2>4, <2>5, PlaceStep, HistoryTypeStep, MessagesStep DEF TypeOK
<1> QED
  BY <1>1, <1>2
-----------------------------------------------------------------------------
(* A session that does not exist yet satisfies the invariant. *)
LEMMA InvInit ==
  ASSUME Init
  PROVE  Inv
<1>1. MaxHistory \in Nat \ {0} /\ {MaxTime, MaxCrashes, MaxFaults} \subseteq Nat
      /\ None \notin Objects /\ <<>> \in Seq(Messages) /\ IsFiniteSet(messages)
  BY ChatAssumption, EmptySeq, FS_EmptySet DEF Objects, Init
<1>2. TypeOK
  <2>1. history \in [Objects -> Seq(Messages)] /\ copy \in [Requests -> Seq(Messages) \cup {Garbage}]
    BY <1>1 DEF Init
  <2>2. /\ pc \in [Requests -> InFlight \cup
                      {"idle", "success", "failed", "partial", "dead", "past"}]
        /\ \A r \in Requests : pc[r] \in InFlight \ {"restore", "publish"} => obj[r] # None
    BY DEF Init, InFlight
  <2>3. now \in 0..MaxTime /\ crashes \in 0..MaxCrashes /\ faults \in 0..MaxFaults
    BY <1>1 DEF Init
  <2>4. /\ obj \in [Requests -> Objects \cup {None}]
        /\ before \in [Requests -> SUBSET Requests]
        /\ task \in [Requests -> {"none", "user", "assistant", "record"}]
        /\ records \in [Requests -> {"none", "success", "failed", "partial"}]
    BY DEF Init
  <2> QED
    BY <2>1, <2>2, <2>3, <2>4 DEF Init, TypeOK
<1>3. Tasks /\ WritersExclude /\ Unshared /\ Copied
  BY <1>1 DEF Init, Tasks, WritersExclude, Unshared, Copied, Objects
<1>4. Bounded /\ Sound
  BY <1>1 DEF Init, Bounded, Sound
<1> QED
  BY <1>1, <1>2, <1>3, <1>4 DEF Inv

(* The inductive invariant: types, locking, ownership of the objects, and what
   the histories and tables hold. *)
THEOREM ChatInvariant == Spec => []Inv
<1>1. Init => Inv
  BY InvInit
<1>2. Inv /\ [Next]_vars => Inv'
  <2> SUFFICES ASSUME Inv, [Next]_vars
               PROVE  Inv'
    OBVIOUS
  <2> QED
    BY TypeStep, MessagesStep, TasksStep, WritersStep, UnsharedStep, CopiedStep, BoundedStep,
       SoundStep DEF Inv
<1> QED
  BY <1>1, <1>2, PTL DEF Spec

(* The session keeps its types. *)
THEOREM ChatTypeCorrect == Spec => []TypeOK
<1>1. Inv => TypeOK
  BY DEF Inv
<1> QED
  BY <1>1, ChatInvariant, PTL

(* One request at a time writes a history, and lets the lock go. *)
THEOREM ChatWritersExclude == Spec => []WritersExclude
<1>1. Inv => WritersExclude
  BY DEF Inv
<1> QED
  BY <1>1, ChatInvariant, PTL

(* No more than maxHistory turns, whatever was restored and in whatever order
   the requests append and trim. *)
THEOREM ChatHistoryBounded == Spec => []HistoryBounded
<1>1. ASSUME Inv
      PROVE  HistoryBounded
  <2>0. MaxHistory \in Nat \ {0} /\ \A o \in Objects : Len(history[o]) \in Nat
    BY <1>1, ChatAssumption, LenProperties DEF Inv, TypeOK
  <2>1. ASSUME NEW o \in Objects, Trimming(o)
        PROVE  writer # None /\ obj[writer] = o
    BY <1>1, <2>1, ChatAssumption DEF Trimming, Inv, WritersExclude
  <2> QED
    BY <1>1, <2>0, <2>1 DEF Inv, Bounded, HistoryBounded
<1> QED
  BY <1>1, ChatInvariant, PTL

(* What was not answered is never remembered. *)
THEOREM ChatOnlyAnsweredTurns == Spec => []OnlyAnsweredTurns
<1>1. ASSUME Inv
      PROVE  OnlyAnsweredTurns
  BY <1>1 DEF Inv, Sound, OnlyAnsweredTurns
<1> QED
  BY <1>1, ChatInvariant, PTL
=============================================================================
