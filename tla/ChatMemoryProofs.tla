--------------------------- MODULE ChatMemoryProofs ---------------------------
(***************************************************************************)
(* Proofs about what a session remembers: the turns stand whole in its     *)
(* history, and a prompt holds the turns that were answered before it.     *)
(***************************************************************************)
EXTENDS ChatProofs, FunctionTheorems

(* What the trimming leaves, message by message. *)
LEMMA TrimmedMessages ==
  ASSUME NEW h \in Seq(Messages)
  PROVE  /\ Len(h) \in Nat
         /\ Len(SubSeq(h, 3, Len(h))) = IF 3 <= Len(h) THEN Len(h) - 2 ELSE 0
         /\ \A i \in 1..(Len(h) - 2) : SubSeq(h, 3, Len(h))[i] = h[i + 2]
<1>1. Len(h) \in Nat /\ \A i \in 3..Len(h) : h[i] \in Messages
  BY LenProperties, ElementOfSeq
<1>2. /\ Len(SubSeq(h, 3, Len(h))) = IF 3 <= Len(h) THEN Len(h) - 3 + 1 ELSE 0
      /\ \A i \in 1..(Len(h) - 3 + 1) : SubSeq(h, 3, Len(h))[i] = h[3 + i - 1]
  BY <1>1, SubSeqProperties
<1> QED
  BY <1>1, <1>2

(* What AppendTurn writes, message by message. *)
LEMMA AppendedMessages ==
  ASSUME NEW h \in Seq(Messages), NEW r \in Requests
  PROVE  /\ Len(h) \in Nat /\ Len(h \o Turn(r)) = Len(h) + 2
         /\ \A i \in 1..Len(h) : (h \o Turn(r))[i] = h[i]
         /\ (h \o Turn(r))[Len(h) + 1] = Turn(r)[1]
         /\ (h \o Turn(r))[Len(h) + 2] = Turn(r)[2]
<1>1. Turn(r) \in Seq(Messages) /\ Len(Turn(r)) = 2 /\ Len(h) \in Nat
  BY TurnProperties, LenProperties
<1>2. /\ Len(h \o Turn(r)) = Len(h) + Len(Turn(r))
      /\ \A i \in 1..(Len(h) + Len(Turn(r))) :
           (h \o Turn(r))[i] = IF i <= Len(h) THEN h[i] ELSE Turn(r)[i - Len(h)]
  BY <1>1, ConcatProperties
<1> QED
  BY <1>1, <1>2

(* The messages of a history are those of turns of requests. *)
LEMMA HistoryTurns ==
  ASSUME Inv, NEW o \in Objects, NEW i \in 1..Len(history[o])
  PROVE  /\ history[o] \in Seq(Messages) /\ history[o][i] \in Messages
         /\ history[o][i].turn \in Requests
         /\ pc[history[o][i].turn] \in {"trim", "success", "past"}
<1>1. history[o] \in Seq(Messages) /\ Sound
  BY DEF Inv, TypeOK
<1>2. history[o][i] \in Messages
  BY <1>1, ElementOfSeq
<1> QED
  BY <1>1, <1>2 DEF Messages, Sound

(* A request whose turn is in a history, or about to be, keeps its object. *)
LEMMA AnsweredKept ==
  ASSUME Inv, NEW r \in Requests, Request(r),
         NEW q \in Requests, pc[q] \in {"write", "trim", "success", "past"}
  PROVE  obj'[q] = obj[q]
<1>1. TypeOK
  BY DEF Inv
<1>2. q = r => pc[q] \in {"write", "trim"}
  BY <1>1, Moves
<1> QED
  BY <1>1, <1>2, OthersKept
-----------------------------------------------------------------------------
(* The turns made on object o, which is theirs in owner, stand whole in h. *)
WholeTurns(h, o, owner) ==
  \A i \in 1..Len(h) : owner[h[i].turn] = o =>
    /\ \A j \in 1..Len(h) : h[j] = h[i] => j = i
    /\ (h[i].role = "assistant" /\ i > 1) => h[i - 1] = Turn(h[i].turn)[1]
    /\ h[i].role = "user" => i < Len(h) /\ h[i + 1] = Turn(h[i].turn)[2]
Whole == \A o \in Objects : WholeTurns(history[o], o, obj)

(* The turn that is appended is whole, and none of it was there. *)
LEMMA WholeAppended ==
  ASSUME NEW h \in Seq(Messages), NEW r \in Requests, NEW o, NEW owner, WholeTurns(h, o, owner),
         \A i \in 1..Len(h) : h[i].turn # r
  PROVE  WholeTurns(h \o Turn(r), o, owner)
<1> DEFINE g == h \o Turn(r)
           n == Len(h)
<1>1. /\ n \in Nat /\ Len(g) = n + 2
      /\ \A i \in 1..n : g[i] = h[i]
      /\ g[n + 1] = Turn(r)[1] /\ g[n + 2] = Turn(r)[2]
  BY AppendedMessages
<1>2. /\ Turn(r)[1].turn = r /\ Turn(r)[1].role = "user"
      /\ Turn(r)[2].turn = r /\ Turn(r)[2].role = "assistant"
  BY DEF Turn
<1> HIDE DEF g
<1>3. ASSUME NEW i \in 1..n, owner[g[i].turn] = o
      PROVE  /\ \A j \in 1..Len(g) : g[j] = g[i] => j = i
             /\ (g[i].role = "assistant" /\ i > 1) => g[i - 1] = Turn(g[i].turn)[1]
             /\ g[i].role = "user" => i < Len(g) /\ g[i + 1] = Turn(g[i].turn)[2]
  <2>1. g[i] = h[i] /\ owner[h[i].turn] = o /\ h[i].turn # r
    BY <1>1, <1>3
  <2>2. ASSUME NEW j \in 1..Len(g), g[j] = g[i]
        PROVE  j = i
    <3>1. j # n + 1 /\ j # n + 2
      BY <1>1, <1>2, <2>1, <2>2
    <3>2. j \in 1..n
      BY <1>1, <3>1
    <3> QED
      BY <1>1, <2>1, <2>2, <3>2 DEF WholeTurns
  <2>3. ASSUME g[i].role = "assistant", i > 1
        PROVE  g[i - 1] = Turn(g[i].turn)[1]
    <3>1. i - 1 \in 1..n
      BY <1>1, <2>3
    <3> QED
      BY <1>1, <2>1, <2>3, <3>1 DEF WholeTurns
  <2>4. ASSUME g[i].role = "user"
        PROVE  i < Len(g) /\ g[i + 1] = Turn(g[i].turn)[2]
    <3>1. i < n /\ h[i + 1] = Turn(h[i].turn)[2]
      BY <2>1, <2>4 DEF WholeTurns
    <3>2. i + 1 \in 1..n
      BY <1>1, <3>1
    <3> QED
      BY <1>1, <2>1, <3>1, <3>2
  <2> QED
    BY <2>2, <2>3, <2>4
<1>4. ASSUME NEW i \in {n + 1, n + 2}
      PROVE  /\ \A j \in 1..Len(g) : g[j] = g[i] => j = i
             /\ (g[i].role = "assistant" /\ i > 1) => g[i - 1] = Turn(g[i].turn)[1]
             /\ g[i].role = "user" => i < Len(g) /\ g[i + 1] = Turn(g[i].turn)[2]
  <2>1. ASSUME NEW j \in 1..Len(g), g[j] = g[i]
        PROVE  j = i
    <3>1. j \notin 1..n
      BY <1>1, <1>2, <1>4, <2>1
    <3>2. j \in {n + 1, n + 2}
      BY <1>1, <3>1
    <3>3. "user" # "assistant"
      OBVIOUS
    <3> QED
      BY <1>1, <1>2, <1>4, <2>1, <3>2, <3>3
  <2>2. CASE i = n + 1
    <3>1. i < Len(g) /\ i + 1 = n + 2
      BY <1>1, <2>2
    <3>2. g[i].role = "user" /\ g[i].turn = r
      BY <1>1, <1>2, <2>2
    <3> QED
      BY <1>1, <2>1, <3>1, <3>2
  <2>3. CASE i = n + 2
    <3>1. i - 1 = n + 1
      BY <1>1, <2>3
    <3>2. g[i].role = "assistant" /\ g[i].turn = r
      BY <1>1, <1>2, <2>3
    <3> QED
      BY <1>1, <2>1, <3>1, <3>2
  <2> QED
    BY <1>4, <2>2, <2>3
<1>5. \A i \in 1..Len(g) : i \in 1..n \/ i \in {n + 1, n + 2}
  BY <1>1
<1>6. WholeTurns(g, o, owner)
  BY <1>3, <1>4, <1>5 DEF WholeTurns
<1> QED
  BY <1>6 DEF g

(* The trimming takes a question with its answer, or leaves the answer alone at
   the head. *)
LEMMA WholeTrimmed ==
  ASSUME NEW h \in Seq(Messages), NEW o, NEW owner, WholeTurns(h, o, owner)
  PROVE  WholeTurns(SubSeq(h, 3, Len(h)), o, owner)
<1> DEFINE g == SubSeq(h, 3, Len(h))
           n == Len(h)
<1>1. /\ n \in Nat /\ Len(g) = IF 3 <= n THEN n - 2 ELSE 0
      /\ \A i \in 1..(n - 2) : g[i] = h[i + 2]
  BY TrimmedMessages
<1> HIDE DEF g
<1>2. ASSUME NEW i \in 1..Len(g), owner[g[i].turn] = o
      PROVE  /\ \A j \in 1..Len(g) : g[j] = g[i] => j = i
             /\ (g[i].role = "assistant" /\ i > 1) => g[i - 1] = Turn(g[i].turn)[1]
             /\ g[i].role = "user" => i < Len(g) /\ g[i + 1] = Turn(g[i].turn)[2]
  <2>1. i \in 1..(n - 2) /\ i + 2 \in 1..n /\ Len(g) = n - 2
    BY <1>1
  <2>2. g[i] = h[i + 2] /\ owner[h[i + 2].turn] = o
    BY <1>1, <1>2, <2>1
  <2>3. ASSUME NEW j \in 1..Len(g), g[j] = g[i]
        PROVE  j = i
    <3>1. j + 2 \in 1..n /\ h[j + 2] = h[i + 2]
      BY <1>1, <2>1, <2>2, <2>3
    <3>2. j + 2 = i + 2
      BY <2>1, <2>2, <3>1 DEF WholeTurns
    <3> QED
      BY <3>2
  <2>4. ASSUME g[i].role = "assistant", i > 1
        PROVE  g[i - 1] = Turn(g[i].turn)[1]
    <3>1. i - 1 \in 1..(n - 2) /\ i + 2 > 1 /\ (i - 1) + 2 = (i + 2) - 1
      BY <1>1, <2>1, <2>4
    <3>2. h[(i + 2) - 1] = Turn(h[i + 2].turn)[1]
      BY <2>1, <2>2, <2>4, <3>1 DEF WholeTurns
    <3> QED
      BY <1>1, <2>2, <3>1, <3>2
  <2>5. ASSUME g[i].role = "user"
        PROVE  i < Len(g) /\ g[i + 1] = Turn(g[i].turn)[2]
    <3>1. i + 2 < n /\ h[(i + 2) + 1] = Turn(h[i + 2].turn)[2]
      BY <2>1, <2>2, <2>5 DEF WholeTurns
    <3>2. i < Len(g) /\ i + 1 \in 1..(n - 2) /\ (i + 1) + 2 = (i + 2) + 1
      BY <1>1, <2>1, <3>1
    <3> QED
      BY <1>1, <2>2, <3>1, <3>2
  <2> QED
    BY <2>3, <2>4, <2>5
<1>3. WholeTurns(g, o, owner)
  BY <1>2 DEF WholeTurns
<1> QED
  BY <1>3 DEF g

(* What is restored is of other objects. *)
LEMMA WholeRestored ==
  ASSUME Inv, NEW r \in Requests, Request(r), pc[r] = "restore", pc'[r] = "publish",
         NEW h, Loaded(h)
  PROVE  WholeTurns(h, r, obj')
<1>1. ASSUME NEW i \in 1..Len(h)
      PROVE  obj'[h[i].turn] # r
  <2>1. PICK m \in messages : h[i].turn = m.turn
    BY DEF Loaded
  <2>2. m.turn \in Requests /\ pc[m.turn] \in {"success", "past"}
    BY DEF Inv, Sound, TypeOK, Rows
  <2>3. obj'[m.turn] = obj[m.turn] /\ obj[m.turn] # r
    BY <2>2, AnsweredKept DEF Inv, Unshared
  <2> QED
    BY <2>1, <2>3
<1> QED
  BY <1>1 DEF WholeTurns

(* Every step leaves the turns whole. *)
LEMMA WholeStep ==
  ASSUME Inv, Whole, [Next]_vars
  PROVE  Whole'
<1>0. /\ TypeOK /\ history \in [Objects -> Seq(Messages)]
      /\ \A o \in Objects : WholeTurns(history[o], o, obj)
  BY DEF Inv, TypeOK, Whole
<1>1. ASSUME NEW r \in Requests, Request(r)
      PROVE  Whole'
  <2>1. ASSUME NEW o \in Objects
        PROVE  WholeTurns(history[o], o, obj')
    <3>1. \A i \in 1..Len(history[o]) : obj'[history[o][i].turn] = obj[history[o][i].turn]
      BY <1>1, AnsweredKept, HistoryTurns
    <3> QED
      BY <1>0, <3>1 DEF WholeTurns
  <2>2. ASSUME NEW h, NEW p \in Objects, history' = [history EXCEPT ![p] = h],
               WholeTurns(h, p, obj')
        PROVE  Whole'
    <3>1. \A o \in Objects : history'[o] = IF o = p THEN h ELSE history[o]
      BY <1>0, <2>2
    <3>2. \A o \in Objects : WholeTurns(history'[o], o, obj')
      BY <2>1, <2>2, <3>1
    <3> QED
      BY <3>2 DEF Whole, WholeTurns, Turn
  <2>3. CASE history' = history
    BY <2>1, <2>3 DEF Whole, WholeTurns, Turn
  <2>4. CASE pc[r] = "restore" /\ history' # history
    <3>1. PICK h : Loaded(h) /\ history' = [history EXCEPT ![r] = h]
      BY <1>1, <2>4, HistoryMoves
    <3>2. pc'[r] = "publish"
      BY <1>1, <2>4, HistoryMoves
    <3>3. WholeTurns(h, r, obj')
      BY <1>1, <2>4, <3>1, <3>2, WholeRestored
    <3> QED
      BY <2>2, <3>1, <3>3 DEF Objects
  <2>5. CASE pc[r] = "write"
    <3> DEFINE o == obj[r]
               h == history[o]
    <3>1. /\ o \in Objects /\ h \in Seq(Messages)
          /\ history' = [history EXCEPT ![o] = h \o Turn(r)]
      BY <1>1, <2>5, HistoryMoves
    <3>2. \A i \in 1..Len(h) : h[i].turn # r
      BY <2>5, <3>1, HistoryTurns
    <3>3. WholeTurns(h, o, obj')
      BY <2>1, <3>1
    <3> HIDE DEF o, h
    <3>4. WholeTurns(h \o Turn(r), o, obj')
      BY <3>1, <3>2, <3>3, WholeAppended
    <3> QED
      BY <2>2, <3>1, <3>4
  <2>6. CASE pc[r] = "trim"
    <3> DEFINE o == obj[r]
               h == history[o]
    <3>1. /\ o \in Objects /\ h \in Seq(Messages)
          /\ history' = [history EXCEPT ![o] = SubSeq(h, 3, Len(h))]
      BY <1>1, <2>6, HistoryMoves
    <3>2. WholeTurns(h, o, obj')
      BY <2>1, <3>1
    <3> HIDE DEF o, h
    <3>3. WholeTurns(SubSeq(h, 3, Len(h)), o, obj')
      BY <3>1, <3>2, WholeTrimmed
    <3> QED
      BY <2>2, <3>1, <3>3
  <2> QED
    BY <1>1, <2>3, <2>4, <2>5, <2>6, HistoryMoves
<1>2. CASE Crash
  <2>1. \A o \in Objects : history'[o] = <<>>
    BY <1>2 DEF Crash
  <2> QED
    BY <2>1 DEF Whole, WholeTurns
<1>3. CASE CreateSession \/ Tick \/ (\E r \in Requests : Work(r)) \/ UNCHANGED vars
  <2>1. history' = history /\ obj' = obj
    BY <1>3, QuietSteps
  <2>2. \A o \in Objects : WholeTurns(history'[o], o, obj')
    BY <1>0, <2>1
  <2> QED
    BY <2>2 DEF Whole, WholeTurns, Turn
<1> QED
  BY <1>1, <1>2, <1>3 DEF Next

(* Whatever requests talk in a session at the same time, the turns they append
   stand in its history whole, each once. *)
THEOREM ChatTurnsWhole == Spec => []TurnsWhole
<1>1. Init => Whole
  BY DEF Init, Whole, WholeTurns
<1>2. Inv /\ Whole /\ [Next]_vars => Whole'
  BY WholeStep
<1>3. Whole => TurnsWhole
  BY DEF Whole, WholeTurns, TurnsWhole
<1> QED
  BY <1>1, <1>2, <1>3, ChatInvariant, PTL DEF Spec
-----------------------------------------------------------------------------
(* What an object should remember: the turns answered on it, and the messages
   that are left from an earlier life of the server. *)
Due(o) == {m \in Messages : pc[m.turn] \in {"trim", "success"} /\ obj[m.turn] = o}
Kept == {Message(m) : m \in {n \in messages : pc[n.turn] = "past"}}
Held(h) == {h[i] : i \in 1..Len(h)}

(* A history holds what it is due, or a full window. *)
Complete(h, due) == due \subseteq Held(h) \/ Len(h) >= 2 * MaxHistory - 1

(* The objects a request has, may find in the map, or is about to put there. *)
Live(o) ==
  current = o \/ (\E q \in Requests : obj[q] = o) \/ (o \in Requests /\ pc[o] = "publish")

Memory ==
  \A o \in Objects : (Live(o) /\ o \notin blank) => Complete(history[o], Due(o) \cup Kept)

(* Nothing has happened before the session is created; the trimming starts from
   a history that is too long; the turns a request has seen answered stay so. *)
Untouched == row = "none" => messages = {} /\ \A r \in Requests : pc[r] = "idle"
LongTrim == \A r \in Requests : pc[r] = "trim" => Len(history[obj[r]]) > 2 * MaxHistory
Earlier == \A r \in Requests : before[r] \subseteq Answered

(* What a request knows of the past, in the words of Remembers. *)
Seen(r) == {m \in Messages : m.turn \in before[r] /\ obj[m.turn] = obj[r]}
Remembering ==
  \A r \in Requests : (pc[r] = "stream" /\ copy[r] # Garbage /\ obj[r] \notin blank) =>
    Complete(copy[r], Seen(r) \cup Kept)

Recall == Memory /\ Untouched /\ LongTrim /\ Earlier /\ Remembering

(* A list of all the messages, each once, has every one of them. *)
LEMMA ListsAll ==
  ASSUME NEW S, IsFiniteSet(S), NEW s \in [1..Cardinality(S) -> S],
         \A i, j \in 1..Cardinality(S) : i < j => s[i] # s[j]
  PROVE  \A m \in S : \E i \in 1..Cardinality(S) : s[i] = m
<1> DEFINE n == Cardinality(S)
<1>1. n \in Nat
  BY FS_CardinalityType
<1>2. IsFiniteSet(1..n) /\ Cardinality(1..n) = n
  <2>1. 1 \in Int /\ n \in Int /\ (IF 1 > n THEN 0 ELSE n - 1 + 1) = n
    BY <1>1
  <2> QED
    BY <2>1, FS_Interval
<1>3. \A i, j \in 1..n : s[i] = s[j] => i = j
  <2> SUFFICES ASSUME NEW i \in 1..n, NEW j \in 1..n, s[i] = s[j]
               PROVE  i = j
    OBVIOUS
  <2>1. i < j \/ j < i \/ i = j
    BY <1>1
  <2>2. ~(i < j) /\ ~(j < i)
    OBVIOUS
  <2> QED
    BY <2>1, <2>2
<1>4. s \in Injection(1..n, S)
  BY <1>3, Fun_IsInj
<1>5. s \in Surjection(1..n, S)
  BY <1>2, <1>4, FS_Injection
<1> QED
  BY <1>5 DEF Surjection

(* A restore that reads all it asks for brings back every message, or fills the
   window. *)
LEMMA RestoreCompletes ==
  ASSUME Inv, NEW r \in Requests, LoadHistory(r), r \notin blank'
  PROVE  /\ history' = [history EXCEPT ![r] = history'[r]]
         /\ Complete(history'[r], Kept)
<1>0. /\ messages \subseteq Rows /\ IsFiniteSet(messages) /\ MaxHistory \in Nat \ {0}
      /\ r \in Objects /\ history \in [Objects -> Seq(Messages)]
  BY ChatAssumption DEF Inv, TypeOK, Objects
<1>1. PICK s \in Recent(2 * MaxHistory) :
        history' = [history EXCEPT ![r] = [i \in DOMAIN s |-> Message(s[i])]]
  BY DEF LoadHistory
<1> DEFINE limit == 2 * MaxHistory
           n == IF Cardinality(messages) > limit THEN limit ELSE Cardinality(messages)
           h == [i \in DOMAIN s |-> Message(s[i])]
<1>2. n \in Nat /\ limit \in Nat /\ Cardinality(messages) \in Nat
  BY <1>0, FS_CardinalityType
<1>3. s \in [1..n -> messages] /\ \A i, j \in 1..n : i < j => s[i] # s[j]
  BY <1>1 DEF Recent
<1>4. history' = [history EXCEPT ![r] = h] /\ history'[r] = h
  BY <1>0, <1>1
<1>5. h \in Seq(Messages) /\ Len(h) \in Nat
  BY <1>0, <1>1, <1>2, RestoredHistory
<1>6. DOMAIN h = 1..n /\ \A i \in 1..n : h[i] = Message(s[i])
  BY <1>3
<1> HIDE DEF h, n
<1>7. Len(h) = n
  BY <1>2, <1>5, <1>6, LenProperties
<1>8. CASE Cardinality(messages) > limit
  BY <1>0, <1>2, <1>4, <1>7, <1>8 DEF Complete, n
<1>9. CASE ~(Cardinality(messages) > limit)
  <2>1. n = Cardinality(messages)
    BY <1>9 DEF n
  <2>2. \A m \in messages : \E i \in 1..n : s[i] = m
    BY <1>0, <1>3, <2>1, ListsAll
  <2>3. Kept \subseteq Held(h)
    BY <1>6, <1>7, <2>2 DEF Kept, Held
  <2> QED
    BY <1>4, <2>3 DEF Complete
<1> QED
  BY <1>4, <1>8, <1>9

(* The messages left from an earlier life change with a crash only. *)
LEMMA KeptSame ==
  ASSUME Inv, [Next]_vars, ~Crash
  PROVE  Kept' = Kept
<1>0. TypeOK /\ Tasks /\ \A m \in messages : m.turn \in Requests
  BY DEF Inv, TypeOK, Rows
<1>1. ASSUME NEW q \in Requests
      PROVE  pc'[q] = "past" <=> pc[q] = "past"
  <2>1. ASSUME NEW r \in Requests, Request(r)
        PROVE  pc'[q] = "past" <=> pc[q] = "past"
    BY <1>0, <2>1, Moves, OthersKept
  <2>2. CASE CreateSession \/ Tick \/ (\E r \in Requests : Work(r)) \/ UNCHANGED vars
    BY <2>2, QuietSteps
  <2> QED
    BY <2>1, <2>2 DEF Next
<1>2. {n \in messages' : pc'[n.turn] = "past"} = {n \in messages : pc[n.turn] = "past"}
  <2>1. CASE ~ \E r \in Requests : Work(r)
    <3>1. messages' = messages
      BY <2>1, StoredSteps
    <3> QED
      BY <1>0, <1>1, <3>1
  <2>2. ASSUME NEW r \in Requests, Work(r)
        PROVE  {n \in messages' : pc'[n.turn] = "past"} = {n \in messages : pc[n.turn] = "past"}
    <3>1. pc' = pc
      BY <2>2, QuietSteps
    <3>2. \/ messages' = messages
          \/ /\ pc[r] = "success"
             /\ \E role \in Roles : messages' = messages \cup {[turn |-> r, role |-> role, at |-> now]}
      BY <1>0, <2>2 DEF Work, PersistMessage, CreateMessage, PersistRecord, Roles, Tasks
    <3> QED
      BY <3>1, <3>2
  <2> QED
    BY <2>1, <2>2
<1> QED
  BY <1>2 DEF Kept, Message

(* Nothing happens in a session before it is created. *)
LEMMA UntouchedStep ==
  ASSUME Inv, Untouched, [Next]_vars
  PROVE  Untouched'
<1>0. TypeOK /\ Tasks
  BY DEF Inv
<1>1. ASSUME row' = "none"
      PROVE  row = "none" /\ ~CreateSession /\ ~Crash /\ ~ \E r \in Requests : Request(r)
  <2>1. ~CreateSession
    BY <1>1 DEF CreateSession, Create
  <2>2. row = "none"
    BY <1>1, <2>1, RequestFrame DEF Next, Tick, Crash, Work, PersistMessage, PersistRecord, vars, stored
  <2>3. ~Crash
    BY <2>2 DEF Crash
  <2>4. ASSUME NEW r \in Requests, Request(r)
        PROVE  FALSE
    <3>1. pc[r] = "idle"
      BY <2>2 DEF Untouched
    <3>2. Lookup(r)
      BY <1>0, <2>4, <3>1, Moves
    <3> QED
      BY <2>2, <3>2 DEF Lookup
  <2> QED
    BY <2>1, <2>2, <2>3, <2>4
<1>2. ASSUME row' = "none"
      PROVE  messages' = {} /\ \A r \in Requests : pc'[r] = "idle"
  <2>1. messages = {} /\ \A r \in Requests : pc[r] = "idle" /\ task[r] = "none"
    BY <1>0, <1>1, <1>2 DEF Untouched, Tasks
  <2>2. ~ \E r \in Requests : Work(r)
    BY <2>1 DEF Work, PersistMessage, PersistRecord
  <2>3. Tick \/ UNCHANGED vars
    BY <1>1, <1>2, <2>2 DEF Next
  <2> QED
    BY <2>1, <2>3 DEF Tick, vars, stored, request
<1> QED
  BY <1>2 DEF Untouched

(* Only a history that is too long is trimmed. *)
LEMMA LongTrimStep ==
  ASSUME Inv, LongTrim, [Next]_vars
  PROVE  LongTrim'
<1>0. /\ TypeOK /\ Unshared /\ WritersExclude
      /\ history \in [Objects -> Seq(Messages)]
  BY DEF Inv, TypeOK
<1>1. ASSUME NEW r \in Requests, Request(r), NEW q \in Requests, pc'[q] = "trim"
      PROVE  Len(history'[obj'[q]]) > 2 * MaxHistory
  <2>1. CASE q = r
    <3>1. pc[r] = "write" /\ obj'[r] = obj[r]
      BY <1>0, <1>1, <2>1, Moves, OthersKept
    <3>2. /\ obj[r] \in Objects /\ history[obj[r]] \in Seq(Messages)
          /\ history' = [history EXCEPT ![obj[r]] = history[obj[r]] \o Turn(r)]
          /\ Len(history[obj[r]]) + 2 > 2 * MaxHistory
      BY <1>1, <2>1, <3>1, HistoryMoves
    <3>3. history'[obj[r]] = history[obj[r]] \o Turn(r)
      BY <1>0, <3>2
    <3>4. Len(history[obj[r]] \o Turn(r)) = Len(history[obj[r]]) + 2
      BY <3>2, AppendedMessages
    <3> QED
      BY <2>1, <3>1, <3>2, <3>3, <3>4
  <2>2. CASE q # r
    <3>1. pc[q] = "trim" /\ obj'[q] = obj[q] /\ obj[q] \in Objects
      BY <1>0, <1>1, <2>2, OthersKept DEF TypeOK, InFlight
    <3>2. pc[r] \notin {"write", "trim"}
      BY <1>0, <2>2, <3>1 DEF WritersExclude
    <3>3. history'[obj[q]] = history[obj[q]]
      <4>1. CASE pc[r] = "restore"
        <5>1. obj[q] # r
          BY <1>0, <4>1 DEF Unshared
        <5> QED
          BY <1>0, <1>1, <3>1, <3>2, <4>1, <5>1, HistoryMoves
      <4>2. CASE pc[r] # "restore"
        BY <1>1, <3>2, <4>2, HistoryMoves
      <4> QED
        BY <4>1, <4>2
    <3> QED
      BY <3>1, <3>3 DEF LongTrim
  <2> QED
    BY <2>1, <2>2
<1>2. CASE Crash
  BY <1>0, <1>2 DEF Crash, LongTrim
<1>3. CASE CreateSession \/ Tick \/ (\E r \in Requests : Work(r)) \/ UNCHANGED vars
  BY <1>3, QuietSteps DEF LongTrim
<1> QED
  BY <1>1, <1>2, <1>3 DEF Next, LongTrim

(* What a request has seen answered is not taken back. *)
LEMMA EarlierStep ==
  ASSUME Inv, Earlier, [Next]_vars
  PROVE  Earlier'
<1>0. TypeOK /\ before \in [Requests -> SUBSET Requests]
  BY DEF Inv, TypeOK
<1>1. ASSUME NEW r \in Requests, Request(r)
      PROVE  Earlier'
  <2>1. Answered \subseteq Answered'
    BY <1>0, <1>1, Moves, OthersKept DEF Answered
  <2>2. \A q \in Requests : before'[q] \in {before[q], {}, Answered}
    BY <1>0, <1>1 DEF Request, Lookup, Restore, NoSession, LoadHistory, Publish, Search, Stream,
                      Lock, AppendTurn, Trim, Fail
  <2> QED
    BY <2>1, <2>2 DEF Earlier
<1>2. CASE Crash
  BY <1>2 DEF Crash, Earlier
<1>3. CASE CreateSession \/ Tick \/ (\E r \in Requests : Work(r)) \/ UNCHANGED vars
  BY <1>3, QuietSteps DEF Earlier, Answered
<1> QED
  BY <1>1, <1>2, <1>3 DEF Next

(* A request makes at most its own turn due, when it has appended it. *)
LEMMA DueStep ==
  ASSUME Inv, NEW r \in Requests, Request(r), NEW o \in Objects
  PROVE  /\ Due(o)' \subseteq Due(o) \cup {m \in Messages : m.turn = r}
         /\ (pc[r] # "write" \/ obj[r] # o) => Due(o)' \subseteq Due(o)
<1>0. TypeOK
  BY DEF Inv
<1>1. ASSUME NEW m \in Messages, pc'[m.turn] \in {"trim", "success"}, obj'[m.turn] = o
      PROVE  \/ pc[m.turn] \in {"trim", "success"} /\ obj[m.turn] = o
             \/ m.turn = r /\ pc[r] = "write" /\ obj[r] = o
  <2>1. m.turn \in Requests
    BY DEF Messages
  <2>2. CASE m.turn # r
    BY <1>0, <1>1, <2>1, <2>2, OthersKept
  <2>3. CASE m.turn = r
    <3>1. pc[r] \in {"write", "trim"}
      BY <1>0, <1>1, <2>3, Moves
    <3>2. obj'[r] = obj[r]
      BY <1>0, <3>1, OthersKept
    <3> QED
      BY <1>1, <2>3, <3>1, <3>2
  <2> QED
    BY <2>2, <2>3
<1> QED
  BY <1>1 DEF Due

(* A request makes an object live only by restoring it. *)
LEMMA LiveStep ==
  ASSUME Inv, NEW r \in Requests, Request(r), NEW o \in Objects, Live(o)'
  PROVE  Live(o) \/ (o = r /\ LoadHistory(r))
<1>0. TypeOK /\ None \notin Objects
  BY ChatAssumption DEF Inv, Objects
<1>1. CASE current' = o
  <2>1. current' = current \/ Publish(r)
    BY DEF Request, Lookup, Restore, Search, Stream, Lock, AppendTurn, Trim, memory
  <2>2. CASE Publish(r)
    BY <1>1, <2>2 DEF Publish, Live
  <2> QED
    BY <1>1, <2>1, <2>2 DEF Live
<1>2. ASSUME NEW q \in Requests, obj'[q] = o
      PROVE  Live(o)
  <2>1. \/ obj' = obj \/ obj' = [obj EXCEPT ![r] = None] \/ obj' = [obj EXCEPT ![r] = current]
        \/ Publish(r) /\ obj' = [obj EXCEPT ![r] = r]
    BY DEF Request, Lookup, Restore, NoSession, LoadHistory, Publish, Search, Stream, Lock,
           AppendTurn, Trim, Fail
  <2>2. obj'[q] \in {obj[q], None, current} \/ (obj'[q] = r /\ pc[r] = "publish")
    BY <1>0, <2>1 DEF TypeOK, Publish
  <2> QED
    BY <1>0, <1>2, <2>2 DEF Live
<1>3. CASE o \in Requests /\ pc'[o] = "publish"
  <2>1. CASE o # r
    BY <1>0, <1>3, <2>1, OthersKept DEF Live
  <2>2. CASE o = r
    <3>1. Restore(r)
      BY <1>0, <1>3, <2>2, Moves
    <3>2. ~NoSession(r)
      BY <1>0, <1>3, <2>2 DEF NoSession, Fail, Goto, TypeOK
    <3> QED
      BY <2>2, <3>1, <3>2 DEF Restore
  <2> QED
    BY <2>1, <2>2
<1> QED
  BY <1>1, <1>2, <1>3 DEF Live

(* What a request adds to its object, or has to drop from it. *)
LEMMA CompleteStep ==
  ASSUME Inv, LongTrim, NEW r \in Requests, Request(r), NEW o \in Objects,
         ~(o = r /\ LoadHistory(r)), Complete(history[o], Due(o) \cup Kept)
  PROVE  Complete(history'[o], Due(o)' \cup Kept)
<1>0. /\ TypeOK /\ MaxHistory \in Nat \ {0} /\ history \in [Objects -> Seq(Messages)]
      /\ Len(history[o]) \in Nat
  BY ChatAssumption, LenProperties DEF Inv, TypeOK
<1>1. CASE history'[o] = history[o] /\ (pc[r] # "write" \/ obj[r] # o)
  BY <1>1, DueStep DEF Complete
<1>2. CASE pc[r] = "write" /\ obj[r] = o
  <2> DEFINE h == history[o]
             g == h \o Turn(r)
  <2>1. h \in Seq(Messages) /\ history'[o] = g
    BY <1>0, <1>2, HistoryMoves
  <2>2. /\ Len(h) \in Nat /\ Len(g) = Len(h) + 2
        /\ \A i \in 1..Len(h) : g[i] = h[i]
        /\ g[Len(h) + 1] = Turn(r)[1] /\ g[Len(h) + 2] = Turn(r)[2]
    BY <2>1, AppendedMessages
  <2>3. Complete(h, Due(o) \cup Kept)
    OBVIOUS
  <2> HIDE DEF h, g
  <2>4. Held(h) \subseteq Held(g)
    BY <2>2 DEF Held
  <2>5. ASSUME NEW m \in Messages, m.turn = r
        PROVE  m \in Held(g)
    <3>1. m = Turn(r)[1] \/ m = Turn(r)[2]
      BY <2>5 DEF Messages, Roles, Turn
    <3>2. Len(h) + 1 \in 1..Len(g) /\ Len(h) + 2 \in 1..Len(g)
      BY <2>2
    <3> QED
      BY <2>2, <3>1, <3>2 DEF Held
  <2>6. Due(o)' \subseteq Due(o) \cup {m \in Messages : m.turn = r}
    BY DueStep
  <2>7. CASE Due(o) \cup Kept \subseteq Held(h)
    BY <2>1, <2>4, <2>5, <2>6, <2>7 DEF Complete
  <2>8. CASE Len(h) >= 2 * MaxHistory - 1
    BY <1>0, <2>1, <2>2, <2>8 DEF Complete
  <2> QED
    BY <2>3, <2>7, <2>8 DEF Complete
<1>3. CASE pc[r] = "trim" /\ obj[r] = o
  <2> DEFINE h == history[o]
             g == SubSeq(h, 3, Len(h))
  <2>1. h \in Seq(Messages) /\ history'[o] = g /\ Len(h) > 2 * MaxHistory
    BY <1>0, <1>3, HistoryMoves DEF LongTrim
  <2>2. Len(h) \in Nat /\ Len(g) = IF 3 <= Len(h) THEN Len(h) - 2 ELSE 0
    BY <2>1, TrimmedMessages
  <2> HIDE DEF h, g
  <2>3. Len(g) >= 2 * MaxHistory - 1
    BY <1>0, <2>1, <2>2
  <2> QED
    BY <2>1, <2>3 DEF Complete
<1>4. CASE pc[r] \notin {"write", "trim"} \/ obj[r] # o
  <2>1. pc[r] = "restore" /\ history' # history => LoadHistory(r)
    <3>1. ASSUME pc[r] = "restore", history' # history
          PROVE  LoadHistory(r)
      <4>1. Restore(r)
        BY <1>0, <3>1, Moves
      <4> QED
        BY <3>1, <4>1 DEF Restore, NoSession
    <3> QED
      BY <3>1
  <2>2. history'[o] = history[o]
    BY <1>0, <1>4, <2>1, HistoryMoves
  <2> QED
    BY <1>1, <1>4, <2>2
<1> QED
  BY <1>2, <1>3, <1>4

(* Every step keeps the memory of the objects. *)
LEMMA MemoryStep ==
  ASSUME Inv, Memory, Untouched, LongTrim, [Next]_vars
  PROVE  Memory'
<1>0. TypeOK /\ Unshared /\ None \notin Objects
  BY ChatAssumption DEF Inv, Objects
<1>1. ASSUME NEW r \in Requests, Request(r),
             NEW o \in Objects, Live(o)', o \notin blank'
      PROVE  Complete(history'[o], Due(o)' \cup Kept')
  <2>1. Kept' = Kept
    <3>1. ~Crash
      BY <1>0, <1>1, RequestFrame DEF Crash, TypeOK, bounds
    <3> QED
      BY <1>1, <3>1, KeptSame DEF Next
  <2>2. blank \subseteq blank'
    BY <1>1 DEF Request, Lookup, Restore, NoSession, LoadHistory, Publish, Search, Stream, Lock,
                AppendTurn, Trim
  <2>3. CASE o = r /\ LoadHistory(r)
    <3>1. pc[r] = "restore"
      BY <1>0, <1>1, <2>3, Moves DEF LoadHistory, Goto, TypeOK
    <3>2. Due(r)' \subseteq Due(r)
      BY <1>1, <2>3, <3>1, DueStep
    <3>3. Due(r) = {}
      BY <1>0, <3>1 DEF Due, Unshared, Messages
    <3>4. Complete(history'[r], Kept)
      BY <1>1, <2>3, RestoreCompletes
    <3> QED
      BY <2>1, <2>3, <3>2, <3>3, <3>4 DEF Complete
  <2>4. CASE ~(o = r /\ LoadHistory(r))
    <3>1. Live(o)
      BY <1>1, <2>4, LiveStep
    <3>2. Complete(history[o], Due(o) \cup Kept)
      BY <1>1, <2>2, <3>1 DEF Memory
    <3>3. Complete(history'[o], Due(o)' \cup Kept)
      BY <1>1, <2>4, <3>2, CompleteStep
    <3> QED
      BY <2>1, <3>3
  <2> QED
    BY <2>3, <2>4
<1>2. CASE Crash
  BY <1>0, <1>2 DEF Crash, Memory, Live
<1>3. ASSUME CreateSession, NEW o \in Objects, Live(o)', o \notin blank'
      PROVE  Complete(history'[o], Due(o)' \cup Kept')
  <2>1. /\ row = "none" /\ current' = Origin
        /\ UNCHANGED <<messages, history, pc, obj, blank>>
    BY <1>3 DEF CreateSession, request
  <2>2. Due(o)' = Due(o) /\ Kept' = Kept
    BY <2>1 DEF Due, Kept, Message
  <2>3. Due(o) \cup Kept = {}
    BY <2>1 DEF Untouched, Due, Kept, Messages
  <2> QED
    BY <2>2, <2>3 DEF Complete
<1>4. CASE Tick \/ (\E r \in Requests : Work(r)) \/ UNCHANGED vars
  <2>1. UNCHANGED <<current, blank, history, pc, obj>>
    BY <1>4 DEF Tick, Work, PersistMessage, PersistRecord, vars, memory, request
  <2>2. Kept' = Kept
    <3>1. crashes' = crashes /\ crashes \in Int
      BY <1>0, <1>4 DEF Tick, Work, PersistMessage, PersistRecord, vars, bounds, TypeOK
    <3>2. ~Crash
      BY <3>1 DEF Crash
    <3> QED
      BY <3>2, KeptSame
  <2> QED
    BY <2>1, <2>2 DEF Memory, Live, Due
<1> QED
  BY <1>1, <1>2, <1>3, <1>4 DEF Next, Memory

(* Every step keeps what the requests know. *)
LEMMA RememberingStep ==
  ASSUME Inv, Recall, [Next]_vars
  PROVE  Remembering'
<1>0. /\ TypeOK /\ None \notin Objects
      /\ Memory /\ Earlier /\ Remembering
      /\ pc \in [Requests -> InFlight \cup {"idle", "success", "failed", "partial", "dead", "past"}]
  BY ChatAssumption DEF Inv, Recall, Objects, TypeOK
<1>1. ASSUME NEW r \in Requests, Request(r),
             NEW q \in Requests, pc'[q] = "stream", copy'[q] # Garbage, obj'[q] \notin blank'
      PROVE  Complete(copy'[q], Seen(q)' \cup Kept')
  <2>1. Kept' = Kept
    <3>1. ~Crash
      BY <1>0, <1>1, RequestFrame DEF Crash, TypeOK, bounds
    <3> QED
      BY <1>1, <3>1, KeptSame DEF Next
  <2>2. blank \subseteq blank'
    BY <1>1 DEF Request, Lookup, Restore, NoSession, LoadHistory, Publish, Search, Stream, Lock,
                AppendTurn, Trim
  <2>3. \A p \in before[q] : p \in Requests /\ pc[p] = "success" /\ obj'[p] = obj[p]
    BY <1>0, <1>1, AnsweredKept DEF Earlier, Answered
  <2>4. CASE q = r
    <3>1. Search(r) /\ pc[r] = "search"
      BY <1>0, <1>1, <2>4, Moves
    <3>2. ~Fail(r, "failed")
      BY <1>0, <1>1, <2>4 DEF Fail, Goto, TypeOK
    <3>3. UNCHANGED <<obj, before, history>> /\ copy'[r] = history[obj[r]]
      BY <1>0, <1>1, <2>4, <3>1, <3>2 DEF Search, BuildMessages, memory, TypeOK
    <3>4. obj[r] \in Objects /\ Live(obj[r])
      BY <1>0, <3>1 DEF TypeOK, InFlight, Live
    <3>5. Complete(history[obj[r]], Due(obj[r]) \cup Kept)
      BY <1>0, <1>1, <2>2, <2>4, <3>3, <3>4 DEF Memory
    <3>6. Seen(r)' \subseteq Due(obj[r])
      BY <2>3, <2>4, <3>3 DEF Seen, Due
    <3> QED
      BY <2>1, <2>4, <3>3, <3>5, <3>6 DEF Complete
  <2>5. CASE q # r
    <3>1. pc[q] = "stream" /\ obj'[q] = obj[q] /\ copy'[q] = copy[q]
      BY <1>0, <1>1, <2>5, OthersKept
    <3>2. before'[q] = before[q]
      BY <1>0, <1>1, <2>5 DEF Request, Lookup, Restore, NoSession, LoadHistory, Publish, Search,
                              Stream, Lock, AppendTurn, Trim, Fail, TypeOK
    <3>3. Complete(copy[q], Seen(q) \cup Kept)
      BY <1>0, <1>1, <2>2, <3>1 DEF Remembering
    <3>4. Seen(q)' = Seen(q)
      BY <2>3, <3>1, <3>2 DEF Seen
    <3> QED
      BY <2>1, <3>1, <3>3, <3>4
  <2> QED
    BY <2>4, <2>5
<1>2. CASE Crash
  BY <1>0, <1>2 DEF Crash, Remembering
<1>3. CASE CreateSession \/ Tick \/ (\E r \in Requests : Work(r)) \/ UNCHANGED vars
  <2>1. UNCHANGED <<pc, obj, copy, before, blank, crashes>>
    BY <1>3 DEF CreateSession, Tick, Work, PersistMessage, PersistRecord, vars, memory, request, bounds
  <2>2. Kept' = Kept
    <3>1. crashes' = crashes /\ crashes \in Int
      BY <1>0, <2>1 DEF TypeOK
    <3>2. ~Crash
      BY <3>1 DEF Crash
    <3> QED
      BY <3>2, KeptSame
  <2>3. \A q \in Requests : Seen(q)' = Seen(q)
    BY <2>1 DEF Seen
  <2> QED
    BY <1>0, <2>1, <2>2, <2>3 DEF Remembering
<1> QED
  BY <1>1, <1>2, <1>3 DEF Next, Remembering

(* A prompt holds the turns answered before the request on its object, and what
   MySQL had kept from an earlier life of the server, but for what a full window
   has pushed out. *)
THEOREM ChatRemembers == Spec => []Remembers
<1>1. Init => Recall
  <2> SUFFICES ASSUME Init PROVE Recall
    OBVIOUS
  <2>1. Memory
    BY ChatAssumption DEF Init, Memory, Live, Objects
  <2> QED
    BY <2>1 DEF Init, Recall, Untouched, LongTrim, Earlier, Remembering
<1>2. Inv /\ Recall /\ [Next]_vars => Recall'
  <2> SUFFICES ASSUME Inv, Recall, [Next]_vars
               PROVE  Recall'
    OBVIOUS
  <2> QED
    BY MemoryStep, UntouchedStep, LongTrimStep, EarlierStep, RememberingStep DEF Recall
<1>3. Recall => Remembers
  BY DEF Recall, Remembering, Remembers, Complete, Seen, Kept, Held
<1> QED
  BY <1>1, <1>2, <1>3, ChatInvariant, PTL DEF Spec
-----------------------------------------------------------------------------
(* That the session implements the logs of TurnLog needs three more facts.  Of
   every turn MySQL has a question and an answer at most, since the work in the
   pool writes each once. *)
Once ==
  /\ \A m, n \in messages : m.turn = n.turn /\ m.role = n.role => m = n
  /\ \A r \in Requests : task[r] = "user" => \A m \in messages : m.turn # r
  /\ \A r \in Requests : task[r] = "assistant" =>
       \A m \in messages : m.turn = r => m.role # "assistant"

(* What is trimmed ends with the turn that was appended, and what a restore
   fills was empty. *)
Ending ==
  \A r \in Requests : pc[r] = "trim" =>
    \E h \in Seq(Messages) : history[obj[r]] = h \o Turn(r)
Unfilled == \A r \in Requests : pc[r] \in {"idle", "restore"} => history[r] = <<>>

Mapped == LongTrim /\ Once /\ Ending /\ Unfilled

(* What was there before a turn was appended. *)
LEMMA BeforeTurn ==
  ASSUME NEW h \in Seq(Messages), NEW r \in Requests
  PROVE  SubSeq(h \o Turn(r), 1, Len(h \o Turn(r)) - 2) = h
<1> DEFINE g == h \o Turn(r)
<1>1. /\ g \in Seq(Messages) /\ Len(h) \in Nat /\ Len(g) = Len(h) + 2
      /\ \A i \in 1..Len(h) : g[i] = h[i]
  BY AppendedHistory, AppendedMessages
<1> HIDE DEF g
<1>2. Len(g) - 2 = Len(h) /\ \A i \in 1..Len(h) : g[i] \in Messages
  BY <1>1, ElementOfSeq
<1>3. /\ SubSeq(g, 1, Len(h)) \in Seq(Messages)
      /\ Len(SubSeq(g, 1, Len(h))) = Len(h)
      /\ \A i \in 1..Len(h) : SubSeq(g, 1, Len(h))[i] = g[i]
  <2>1. /\ SubSeq(g, 1, Len(h)) \in Seq(Messages)
        /\ Len(SubSeq(g, 1, Len(h))) = IF 1 <= Len(h) THEN Len(h) - 1 + 1 ELSE 0
        /\ \A i \in 1..(Len(h) - 1 + 1) : SubSeq(g, 1, Len(h))[i] = g[1 + i - 1]
    BY <1>1, <1>2, SubSeqProperties
  <2> QED
    BY <1>1, <2>1
<1>4. SubSeq(g, 1, Len(h)) = h
  BY <1>1, <1>3, SeqEqual
<1> QED
  BY <1>2, <1>4 DEF g

(* Each row of messages is written once. *)
LEMMA OnceStep ==
  ASSUME Inv, Once, [Next]_vars
  PROVE  Once'
<1>0. TypeOK /\ Tasks /\ Sound /\ task = [q \in Requests |-> task[q]]
  BY DEF Inv, TypeOK
<1>1. ASSUME NEW r \in Requests, Request(r)
      PROVE  Once'
  <2>1. messages' = messages
    BY <1>1 DEF Request, Lookup, Restore, Publish, Search, Stream, Lock, AppendTurn, Trim, stored
  <2>2. \/ \A q \in Requests : task'[q] = "none" \/ task'[q] = "record" \/ task'[q] = task[q]
        \/ (AppendTurn(r) \/ Trim(r)) /\ Answer(r)
    BY <1>0, <1>1 DEF Request, Lookup, Restore, NoSession, LoadHistory, Publish, Search, Stream,
                      Lock, AppendTurn, Trim, Fail
  <2>3. CASE (AppendTurn(r) \/ Trim(r)) /\ Answer(r)
    <3>1. \A m \in messages : m.turn # r
      BY <1>0, <2>3 DEF AppendTurn, Trim, Sound
    <3>2. \A q \in Requests : q = r \/ task'[q] = task[q]
      BY <1>0, <2>3 DEF Answer, Submit
    <3> QED
      BY <2>1, <3>1, <3>2 DEF Once
  <2> QED
    BY <2>1, <2>2, <2>3 DEF Once
<1>2. ASSUME NEW r \in Requests, PersistMessage(r, "user", "assistant")
      PROVE  Once'
  <2>1. task[r] = "user" /\ task' = [task EXCEPT ![r] = "assistant"]
    BY <1>2 DEF PersistMessage
  <2>2. \/ messages' = messages
        \/ messages' = messages \cup {[turn |-> r, role |-> "user", at |-> now]}
    BY <1>2 DEF PersistMessage, CreateMessage
  <2>3. \A q \in Requests : task'[q] = IF q = r THEN "assistant" ELSE task[q]
    BY <1>0, <2>1
  <2>4. \A m \in messages : m.turn # r
    BY <2>1 DEF Once
  <2> QED
    BY <2>2, <2>3, <2>4 DEF Once
<1>3. ASSUME NEW r \in Requests, PersistMessage(r, "assistant", "record")
      PROVE  Once'
  <2>1. task[r] = "assistant" /\ task' = [task EXCEPT ![r] = "record"]
    BY <1>3 DEF PersistMessage
  <2>2. \/ messages' = messages
        \/ messages' = messages \cup {[turn |-> r, role |-> "assistant", at |-> now]}
    BY <1>3 DEF PersistMessage, CreateMessage
  <2>3. \A q \in Requests : task'[q] = IF q = r THEN "record" ELSE task[q]
    BY <1>0, <2>1
  <2>4. \A m \in messages : m.turn = r => m.role # "assistant"
    BY <2>1 DEF Once
  <2> QED
    BY <2>2, <2>3, <2>4 DEF Once
<1>4. ASSUME NEW r \in Requests, PersistRecord(r)
      PROVE  Once'
  <2>1. messages' = messages /\ \A q \in Requests : task'[q] = task[q] \/ task'[q] = "none"
    BY <1>0, <1>4 DEF PersistRecord
  <2> QED
    BY <2>1 DEF Once
<1>5. CASE Crash
  <2>1. messages' = messages /\ \A q \in Requests : task'[q] = "none"
    BY <1>5 DEF Crash, stored
  <2> QED
    BY <2>1 DEF Once
<1>6. CASE CreateSession \/ Tick \/ UNCHANGED vars
  <2>1. messages' = messages /\ task' = task
    BY <1>6 DEF CreateSession, Tick, vars, stored
  <2> QED
    BY <2>1 DEF Once
<1> QED
  BY <1>1, <1>2, <1>3, <1>4, <1>5, <1>6 DEF Next, Work

(* A step of a request leaves the history of another's writer alone. *)
LEMMA WrittenAlone ==
  ASSUME Inv, NEW r \in Requests, Request(r),
         NEW q \in Requests, q # r, pc[q] = "trim"
  PROVE  /\ obj'[q] = obj[q] /\ obj[q] \in Objects
         /\ pc[r] \notin {"write", "trim"}
         /\ history'[obj[q]] = history[obj[q]]
<1>0. TypeOK /\ Unshared /\ WritersExclude /\ history \in [Objects -> Seq(Messages)]
  BY DEF Inv, TypeOK
<1>1. obj'[q] = obj[q] /\ obj[q] \in Objects
  BY <1>0, OthersKept DEF TypeOK, InFlight
<1>2. pc[r] \notin {"write", "trim"}
  BY <1>0 DEF WritersExclude
<1>3. CASE pc[r] = "restore"
  <2>1. obj[q] # r
    BY <1>0, <1>3 DEF Unshared
  <2> QED
    BY <1>0, <1>1, <1>2, <1>3, <2>1, HistoryMoves
<1>4. CASE pc[r] # "restore"
  BY <1>1, <1>2, <1>4, HistoryMoves
<1> QED
  BY <1>3, <1>4, <1>1, <1>2

(* What is trimmed ends with the turn of the request that trims it. *)
LEMMA EndingStep ==
  ASSUME Inv, Ending, [Next]_vars
  PROVE  Ending'
<1>0. TypeOK /\ history \in [Objects -> Seq(Messages)]
  BY DEF Inv, TypeOK
<1>1. ASSUME NEW r \in Requests, Request(r), NEW q \in Requests, pc'[q] = "trim"
      PROVE  \E h \in Seq(Messages) : history'[obj'[q]] = h \o Turn(q)
  <2>1. CASE q = r
    <3>1. pc[r] = "write" /\ obj'[r] = obj[r]
      BY <1>0, <1>1, <2>1, Moves, OthersKept
    <3>2. /\ obj[r] \in Objects /\ history[obj[r]] \in Seq(Messages)
          /\ history' = [history EXCEPT ![obj[r]] = history[obj[r]] \o Turn(r)]
      BY <1>1, <3>1, HistoryMoves
    <3> QED
      BY <1>0, <2>1, <3>1, <3>2
  <2>2. CASE q # r
    <3>1. pc[q] = "trim"
      BY <1>0, <1>1, <2>2, OthersKept
    <3> QED
      BY <1>1, <2>2, <3>1, WrittenAlone DEF Ending
  <2> QED
    BY <2>1, <2>2
<1>2. CASE Crash
  BY <1>0, <1>2 DEF Crash, Ending
<1>3. CASE CreateSession \/ Tick \/ (\E r \in Requests : Work(r)) \/ UNCHANGED vars
  BY <1>3, QuietSteps DEF Ending, Turn
<1> QED
  BY <1>1, <1>2, <1>3 DEF Next, Ending, Turn

(* A history that a restore may fill is empty. *)
LEMMA UnfilledStep ==
  ASSUME Inv, Unfilled, [Next]_vars
  PROVE  Unfilled'
<1>0. TypeOK /\ Unshared /\ history \in [Objects -> Seq(Messages)]
  BY DEF Inv, TypeOK
<1>1. ASSUME NEW r \in Requests, Request(r),
             NEW q \in Requests, pc'[q] \in {"idle", "restore"}
      PROVE  history'[q] = <<>>
  <2>1. pc[q] \in {"idle", "restore"} /\ q \in Objects
    BY <1>0, <1>1, Moves, OthersKept DEF Objects
  <2>2. history[q] = <<>> /\ obj[r] # q
    BY <1>0, <2>1 DEF Unfilled, Unshared
  <2>3. pc[r] = "restore" /\ pc'[r] = "publish" => q # r
    BY <1>1
  <2> QED
    BY <1>0, <1>1, <2>1, <2>2, <2>3, HistoryMoves
<1>2. CASE Crash
  BY <1>0, <1>2 DEF Crash, Unfilled, Objects
<1>3. CASE CreateSession \/ Tick \/ (\E r \in Requests : Work(r)) \/ UNCHANGED vars
  BY <1>3, QuietSteps DEF Unfilled
<1> QED
  BY <1>1, <1>2, <1>3 DEF Next, Unfilled

(* A restore fills a history with messages of answered turns, none twice. *)
LEMMA RestoreFills ==
  ASSUME Inv, Once, NEW r \in Requests, LoadHistory(r)
  PROVE  \E h : /\ history' = [history EXCEPT ![r] = h]
                /\ h \in Seq([turn : {q \in Requests : pc[q] \in {"success", "past"}},
                               role : Roles])
                /\ Len(h) \in Nat /\ Len(h) <= 2 * MaxHistory
                /\ \A i, j \in 1..Len(h) : i # j => h[i] # h[j]
<1>0. /\ messages \subseteq Rows /\ IsFiniteSet(messages) /\ Sound
      /\ 2 * MaxHistory \in Nat
  BY ChatAssumption DEF Inv, TypeOK
<1>1. PICK limit \in 0..(2 * MaxHistory) : \E s \in Recent(limit) :
        history' = [history EXCEPT ![r] = [i \in DOMAIN s |-> Message(s[i])]]
  BY <1>0 DEF LoadHistory
<1>2. PICK s \in Recent(limit) :
        history' = [history EXCEPT ![r] = [i \in DOMAIN s |-> Message(s[i])]]
  BY <1>1
<1> DEFINE n == IF Cardinality(messages) > limit THEN limit ELSE Cardinality(messages)
           h == [i \in DOMAIN s |-> Message(s[i])]
           Told == [turn : {q \in Requests : pc[q] \in {"success", "past"}}, role : Roles]
<1>3. limit \in Nat /\ n \in Nat /\ limit <= 2 * MaxHistory
  BY <1>0, FS_CardinalityType
<1>4. s \in [1..n -> messages] /\ \A i, j \in 1..n : i < j => s[i] # s[j]
  BY DEF Recent
<1>5. h \in Seq(Messages) /\ Len(h) \in Nat /\ Len(h) <= limit
  BY <1>0, <1>3, RestoredHistory
<1>6. DOMAIN h = 1..n /\ \A i \in 1..n : h[i] = Message(s[i])
  BY <1>4
<1>7. history' = [history EXCEPT ![r] = h]
  BY <1>2
<1> HIDE DEF h, n
<1>8. Len(h) = n
  BY <1>3, <1>5, <1>6, LenProperties
<1>9. \A m \in messages : Message(m) \in Told
  BY <1>0 DEF Message, Rows, Sound
<1> HIDE DEF Told
<1>10. h \in Seq(Told)
  <2>1. h = [i \in 1..n |-> h[i]]
    BY <1>5, <1>8, LenProperties
  <2>2. \A i \in 1..n : h[i] \in Told
    BY <1>4, <1>6, <1>9
  <2> QED
    BY <1>3, <2>1, <2>2
<1>11. ASSUME NEW i \in 1..n, NEW j \in 1..n, i # j
       PROVE  h[i] # h[j]
  <2>1. s[i] # s[j]
    <3>1. i < j \/ j < i
      BY <1>3, <1>11
    <3> QED
      BY <1>4, <3>1
  <2>2. s[i] \in messages /\ s[j] \in messages
    BY <1>4
  <2>3. s[i].turn # s[j].turn \/ s[i].role # s[j].role
    BY <2>1, <2>2 DEF Once
  <2> QED
    BY <1>6, <2>3 DEF Message
<1>12. Len(h) <= 2 * MaxHistory
  BY <1>0, <1>3, <1>5
<1> QED
  BY <1>5, <1>7, <1>8, <1>10, <1>11, <1>12 DEF Told

(* Every step of the session is a step of the logs, or none. *)
LEMMA LogStep ==
  ASSUME Inv, Mapped, [Next]_vars
  PROVE  [Log!LogNext]_(Log!logVars)
<1> DEFINE told == {r \in Requests : pc[r] \in {"success", "past"}}
           logs == [o \in Objects |-> Settled(o)]
<1>0. /\ TypeOK /\ WritersExclude /\ Unshared
      /\ LongTrim /\ Once /\ Ending /\ Unfilled
      /\ history \in [Objects -> Seq(Messages)]
  BY DEF Inv, TypeOK, Mapped
<1>1. ASSUME NEW r \in Requests, Request(r)
      PROVE  Log!LogNext \/ UNCHANGED <<logs, told>>
  <2>1. \A q \in Requests \ {r} : pc'[q] = pc[q] /\ obj'[q] = obj[q]
    BY <1>0, <1>1, OthersKept
  <2>2. ASSUME NEW o \in Objects, history'[o] = history[o],
               pc[r] = "trim" => obj[r] # o,
               pc'[r] = "trim" => obj'[r] # o
        PROVE  Settled(o)' = Settled(o)
    <3>1. Trimming(o)' <=> Trimming(o)
      BY <2>1, <2>2 DEF Trimming
    <3> QED
      BY <2>2, <3>1 DEF Settled
  <2>3. CASE pc[r] \notin {"write", "trim"} /\ history' = history
    <3>1. pc'[r] # "trim" /\ (pc'[r] \in {"success", "past"} <=> pc[r] \in {"success", "past"})
      BY <1>0, <1>1, <2>3, Moves
    <3>2. told' = told
      BY <2>1, <3>1
    <3>3. \A o \in Objects : Settled(o)' = Settled(o)
      BY <2>2, <2>3, <3>1
    <3> QED
      BY <3>2, <3>3
  <2>4. CASE pc[r] = "restore" /\ history' # history
    <3>1. LoadHistory(r)
      <4>1. Restore(r)
        BY <1>0, <1>1, <2>4, Moves
      <4> QED
        BY <2>4, <4>1 DEF Restore, NoSession
    <3>2. PICK h : /\ history' = [history EXCEPT ![r] = h]
                   /\ h \in Seq([turn : told, role : Roles])
                   /\ Len(h) \in Nat /\ Len(h) <= 2 * MaxHistory
                   /\ \A i, j \in 1..Len(h) : i # j => h[i] # h[j]
      BY <1>0, <3>1, RestoreFills
    <3>3. pc'[r] = "publish" /\ r \in Objects
      BY <1>1, <2>4, HistoryMoves
    <3>4. told' = told
      BY <2>1, <2>4, <3>3
    <3>5. \A q \in Requests : obj[q] # r /\ obj'[q] # r
      BY <1>0, <2>4, <3>1 DEF Unshared, LoadHistory
    <3>6. Settled(r) = <<>>
      <4>1. ~Trimming(r)
        BY <3>5 DEF Trimming
      <4>2. history[r] = <<>>
        BY <1>0, <2>4 DEF Unfilled
      <4> QED
        BY <4>1, <4>2 DEF Settled
    <3>7. Settled(r)' = h
      <4>1. ~Trimming(r)'
        BY <3>5 DEF Trimming
      <4>2. history'[r] = h
        BY <1>0, <3>2, <3>3
      <4> QED
        BY <4>1, <4>2 DEF Settled
    <3>8. \A o \in Objects \ {r} : Settled(o)' = Settled(o)
      <4>1. \A o \in Objects \ {r} : history'[o] = history[o]
        BY <1>0, <3>2
      <4> QED
        BY <2>2, <2>4, <3>3, <4>1
    <3>9. Log!Fill(r)
      BY <3>2, <3>3, <3>4, <3>6, <3>7, <3>8 DEF Log!Fill, Log!Recorded, Roles
    <3> QED
      BY <3>3, <3>9 DEF Log!LogNext
  <2>5. CASE pc[r] \in {"write", "trim"}
    <3>1. PICK o \in Objects : /\ obj[r] = o /\ obj'[r] = o
                               /\ history[o] \in Seq(Messages) /\ Len(history[o]) \in Nat
      <4>1. obj[r] \in Objects /\ obj'[r] = obj[r]
        BY <1>0, <1>1, <2>5, OthersKept DEF TypeOK, InFlight
      <4> QED
        BY <1>0, <4>1, LenProperties
    <3>2. \A q \in Requests \ {r} : pc[q] # "trim"
      BY <1>0, <2>5 DEF WritersExclude
    <3>3. \A p \in Objects \ {o} : Settled(p)' = Settled(p)
      <4>1. \A p \in Objects \ {o} : history'[p] = history[p]
        BY <1>0, <1>1, <2>5, <3>1, HistoryMoves
      <4> QED
        BY <2>2, <3>1, <4>1
    <3>4. ASSUME pc'[r] = "success", Settled(o)' = Log!Newest(Settled(o) \o Turn(r))
          PROVE  Log!LogNext
      <4>1. told' = told \cup {r} /\ r \notin told
        BY <2>1, <2>5, <3>4
      <4>2. Log!Add(o, r)
        BY <3>1, <3>3, <3>4, <4>1 DEF Log!Add, Log!Pair, Turn
      <4> QED
        BY <3>1, <4>2 DEF Log!LogNext
    <3>5. CASE pc[r] = "write"
      <4>1. Settled(o) = history[o]
        BY <3>1, <3>2, <3>5 DEF Settled, Trimming
      <4>2. /\ history'[o] = history[o] \o Turn(r)
            /\ IF Len(history[o]) + 2 > 2 * MaxHistory THEN pc'[r] = "trim" ELSE pc'[r] = "success"
        BY <1>0, <1>1, <3>1, <3>5, HistoryMoves
      <4>3. CASE pc'[r] = "trim"
        <5>1. Trimming(o)'
          BY <3>1, <4>3 DEF Trimming
        <5>2. Settled(o)' = SubSeq(history'[o], 1, Len(history'[o]) - 2)
          BY <5>1 DEF Settled
        <5>3. Settled(o)' = history[o]
          BY <3>1, <4>2, <5>2, BeforeTurn
        <5>4. told' = told
          BY <2>1, <3>5, <4>3
        <5> QED
          BY <3>3, <4>1, <5>3, <5>4
      <4>4. CASE pc'[r] = "success"
        <5>1. ~Trimming(o)'
          BY <2>1, <3>2, <4>4 DEF Trimming
        <5>2. Settled(o)' = history[o] \o Turn(r)
          BY <4>2, <5>1 DEF Settled
        <5>3. ~(Len(history[o] \o Turn(r)) > 2 * MaxHistory)
          BY <3>1, <4>2, <4>4, AppendedMessages
        <5> QED
          BY <3>4, <4>1, <4>4, <5>2, <5>3 DEF Log!Newest
      <4> QED
        BY <4>2, <4>3, <4>4
    <3>6. CASE pc[r] = "trim"
      <4>1. PICK h \in Seq(Messages) : history[o] = h \o Turn(r)
        BY <1>0, <3>1, <3>6 DEF Ending
      <4>2. Settled(o) = h
        <5>1. Trimming(o)
          BY <3>1, <3>6 DEF Trimming
        <5> QED
          BY <4>1, <5>1, BeforeTurn DEF Settled
      <4>3. /\ history'[o] = SubSeq(history[o], 3, Len(history[o]))
            /\ pc'[r] = "success" /\ Len(history[o]) > 2 * MaxHistory
        BY <1>0, <1>1, <3>1, <3>6, HistoryMoves DEF LongTrim
      <4>4. ~Trimming(o)'
        BY <2>1, <3>2, <4>3 DEF Trimming
      <4>5. Settled(o)' = SubSeq(h \o Turn(r), 3, Len(h \o Turn(r)))
        BY <4>1, <4>3, <4>4 DEF Settled
      <4> QED
        BY <3>4, <4>1, <4>2, <4>3, <4>5 DEF Log!Newest
    <3> QED
      BY <2>5, <3>5, <3>6
  <2> QED
    BY <1>1, <2>3, <2>4, <2>5, HistoryMoves
<1>2. CASE Crash
  <2>1. \A o \in Objects : Settled(o)' = <<>>
    <3>1. \A o \in Objects : history'[o] = <<>> /\ ~Trimming(o)'
      BY <1>2 DEF Crash, Trimming
    <3> QED
      BY <3>1 DEF Settled
  <2>2. told' = told
    BY <1>2 DEF Crash
  <2>3. Log!Restart
    BY <2>1, <2>2 DEF Log!Restart
  <2> QED
    BY <2>3 DEF Log!LogNext
<1>3. CASE CreateSession \/ Tick \/ (\E r \in Requests : Work(r)) \/ UNCHANGED vars
  <2>1. UNCHANGED <<pc, obj, history>>
    BY <1>3, QuietSteps
  <2> QED
    BY <2>1 DEF Settled, Trimming, Log!logVars
<1> QED
  BY <1>1, <1>2, <1>3 DEF Next, Log!logVars

(* ImplementsLog: with mu held to append and to trim, and restores under way,
   a session is the logs of TurnLog: concurrent answers lose no turn and split
   none, and what is restored was answered and is told once. *)
THEOREM ChatImplementsLog == Spec => ImplementsLog
<1>1. Init => Log!LogInit
  BY DEF Init, Log!LogInit, Settled, Trimming
<1>2. Init => Mapped
  BY DEF Init, Mapped, LongTrim, Once, Ending, Unfilled, Objects
<1>3. Inv /\ Mapped /\ [Next]_vars => Mapped'
  <2> SUFFICES ASSUME Inv, Mapped, [Next]_vars
               PROVE  Mapped'
    OBVIOUS
  <2> QED
    BY LongTrimStep, OnceStep, EndingStep, UnfilledStep DEF Mapped
<1>4. Inv /\ Mapped /\ [Next]_vars => [Log!LogNext]_(Log!logVars)
  BY LogStep
<1> QED
  BY <1>1, <1>2, <1>3, <1>4, ChatInvariant, PTL DEF Spec, ImplementsLog, Log!LogSpec
=============================================================================
