---------------------------- MODULE RequestReply ----------------------------
(***************************************************************************)
(* What MmtlsClientShort::request promises its caller, with no records,    *)
(* keys, tickets or connections: a question is handled at most once, what  *)
(* the caller gets is the answer to the question it asked in that call and *)
(* only once it was handled, and every question is answered or given up.   *)
(***************************************************************************)
EXTENDS Naturals

CONSTANTS Callers, Questions

VARIABLES
  asked,     \* questions sent
  handled,   \* questions the service has produced an answer to
  question,  \* the question each caller is waiting on, 0 if none
  answer     \* the question whose answer each caller holds, 0 if none

vars == <<asked, handled, question, answer>>

Init ==
  /\ asked = {}
  /\ handled = {}
  /\ question = [k \in Callers |-> 0]
  /\ answer = [k \in Callers |-> 0]

Ask(k, q) ==
  /\ question[k] = 0
  /\ q \notin asked
  /\ asked' = asked \cup {q}
  /\ question' = [question EXCEPT ![k] = q]
  /\ UNCHANGED <<handled, answer>>

Handle(q) ==
  /\ q \in asked \ handled
  /\ handled' = handled \cup {q}
  /\ UNCHANGED <<asked, question, answer>>

Answer(k) ==
  /\ question[k] \in handled
  /\ answer' = [answer EXCEPT ![k] = question[k]]
  /\ question' = [question EXCEPT ![k] = 0]
  /\ UNCHANGED <<asked, handled>>

GiveUp(k) ==
  /\ question[k] # 0
  /\ question' = [question EXCEPT ![k] = 0]
  /\ answer' = [answer EXCEPT ![k] = 0]
  /\ UNCHANGED <<asked, handled>>

\* The caller is done with the answer it holds.
Forget(k) ==
  /\ answer' = [answer EXCEPT ![k] = 0]
  /\ UNCHANGED <<asked, handled, question>>

Next ==
  \/ \E k \in Callers :
       (\E q \in Questions : Ask(k, q)) \/ Answer(k) \/ GiveUp(k) \/ Forget(k)
  \/ \E q \in Questions : Handle(q)

Spec ==
  /\ Init
  /\ [][Next]_vars
  /\ \A k \in Callers : WF_vars(Answer(k) \/ GiveUp(k))
=============================================================================
