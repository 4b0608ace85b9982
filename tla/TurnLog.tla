------------------------------ MODULE TurnLog ------------------------------
(***************************************************************************)
(* What the histories of a chat session promise to the requests that talk  *)
(* in it, with no lock, no copies and no trimming after the fact: a turn   *)
(* is added once, whole, and at the end of one log, which then lets its    *)
(* two oldest messages go if it has too many; a log that is empty may be   *)
(* filled with messages of turns that are answered, each once; a restart   *)
(* empties the logs and takes no answer back.                              *)
(***************************************************************************)
EXTENDS Integers, Sequences

CONSTANTS
  Turns,    \* what is asked and answered
  Logs,
  Window    \* messages a log may hold

VARIABLES
  log,      \* the messages of each log
  answered  \* the turns that have been answered

logVars == <<log, answered>>

Pair(t) == <<[turn |-> t, role |-> "user"], [turn |-> t, role |-> "assistant"]>>
Recorded == [turn : answered, role : {"user", "assistant"}]

Newest(s) == IF Len(s) > Window THEN SubSeq(s, 3, Len(s)) ELSE s

LogInit == log = [l \in Logs |-> <<>>] /\ answered = {}

Add(l, t) ==
  /\ t \notin answered
  /\ log' = [log EXCEPT ![l] = Newest(@ \o Pair(t))]
  /\ answered' = answered \cup {t}

Fill(l) ==
  /\ log[l] = <<>>
  /\ log' = [log EXCEPT ![l] = log'[l]]
  /\ log'[l] \in Seq(Recorded) /\ Len(log'[l]) <= Window
  /\ \A i, j \in 1..Len(log'[l]) : i # j => log'[l][i] # log'[l][j]
  /\ UNCHANGED answered

Restart ==
  /\ log' = [l \in Logs |-> <<>>]
  /\ UNCHANGED answered

LogNext ==
  \/ Restart
  \/ \E l \in Logs : Fill(l) \/ \E t \in Turns : Add(l, t)

LogSpec == LogInit /\ [][LogNext]_logVars
=============================================================================
