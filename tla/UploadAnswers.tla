--------------------------- MODULE UploadAnswers ---------------------------
(***************************************************************************)
(* What an upload promises, without handlers, documents or a database: it  *)
(* is sent once and has one job; the job stores one transfer at most, and  *)
(* ends with the one answer the client gets, or with none; nothing is      *)
(* stored once the job is over, and what is stored is only ever released.  *)
(* A crash ends every job and forgets every answer.                        *)
(***************************************************************************)
CONSTANT Upload

VARIABLES
    sent,       \* the uploads that have been sent
    running,    \* the uploads whose job runs
    stored,     \* what is stored of an upload: none, encrypted, quarantined
    answer      \* what the client is told when it asks

answerVars == <<sent, running, stored, answer>>

AnswersInit ==
    /\ sent = {} /\ running = {}
    /\ stored = [u \in Upload |-> "none"]
    /\ answer = [u \in Upload |-> "processing"]

Submit(u) ==
    /\ u \notin sent
    /\ sent' = sent \cup {u} /\ running' = running \cup {u}
    /\ answer' = [answer EXCEPT ![u] = "processing"]
    /\ UNCHANGED stored

Store(u, s) ==
    /\ u \in running /\ stored[u] = "none"
    /\ stored' = [stored EXCEPT ![u] = s]
    /\ UNCHANGED <<sent, running, answer>>

\* An upload that is completed is stored, and not in quarantine; one that is
\* quarantined may have been released since.  An error is always an answer.
Justified(u, a) ==
    \/ a = "error"
    \/ a = "completed" /\ stored[u] = "encrypted"
    \/ a = "quarantined" /\ stored[u] # "none"

Finish(u, a) ==
    /\ u \in running /\ Justified(u, a)
    /\ answer' = [answer EXCEPT ![u] = a] /\ running' = running \ {u}
    /\ UNCHANGED <<sent, stored>>

\* The job ends and the client is told nothing, now or later.
Abandon(u) ==
    /\ u \in running
    /\ running' = running \ {u}
    /\ UNCHANGED <<sent, stored, answer>>

Release(u) ==
    /\ stored[u] = "quarantined"
    /\ stored' = [stored EXCEPT ![u] = "encrypted"]
    /\ UNCHANGED <<sent, running, answer>>

Crash ==
    /\ running' = {} /\ answer' = [u \in Upload |-> "processing"]
    /\ UNCHANGED <<sent, stored>>

AnswersNext ==
    \/ \E u \in Upload :
          \/ Submit(u) \/ Abandon(u) \/ Release(u)
          \/ \E s \in {"encrypted", "quarantined"} : Store(u, s)
          \/ \E a \in {"completed", "quarantined", "error"} : Finish(u, a)
    \/ Crash

AnswersSpec == AnswersInit /\ [][AnswersNext]_answerVars
=============================================================================
