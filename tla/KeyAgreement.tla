---------------------------- MODULE KeyAgreement ----------------------------
(***************************************************************************)
(* What the long link promises its two ends, with no records, transcripts  *)
(* or keys: a client adopts the key of a connection only after the         *)
(* server's task there has offered it, and no key is adopted twice; a task *)
(* serves only a client that has adopted its key, and answers it once; and *)
(* noop() succeeds once per key, on an answer of the task that has it.     *)
(***************************************************************************)
CONSTANTS Callers, Links

VARIABLES
  phase,    \* what the task of each connection has come to
  offered,  \* connections whose key was offered
  spent,    \* connections whose key a client has adopted
  held,     \* the connections whose key each client holds: one or none
  heard,    \* clients that had the answer to a noop under the key they hold
  alive     \* clients whose latest call was a noop that succeeded

vars == <<phase, offered, spent, held, heard, alive>>

Init ==
  /\ phase = [c \in Links |-> "opening"]
  /\ offered = {}
  /\ spent = {}
  /\ held = [k \in Callers |-> {}]
  /\ heard = [k \in Callers |-> FALSE]
  /\ alive = [k \in Callers |-> FALSE]

Reach(c, from, to) ==
  /\ phase[c] = from
  /\ phase' = [phase EXCEPT ![c] = to]
  /\ UNCHANGED <<spent, held, heard, alive>>

Offer(c) == Reach(c, "opening", "offered") /\ offered' = offered \cup {c}
Accept(c) == c \in spent /\ Reach(c, "offered", "serving") /\ UNCHANGED offered
Reply(c) == Reach(c, "serving", "answered") /\ UNCHANGED offered

\* Tasks that have not answered end, one of them or all those of a process.
End(C) ==
  /\ phase' = [c \in Links |->
                 IF c \in C /\ phase[c] # "answered" THEN "ended" ELSE phase[c]]
  /\ UNCHANGED <<offered, spent, held, heard, alive>>

Adopt(k, c) ==
  /\ held[k] = {}
  /\ c \in offered \ spent
  /\ spent' = spent \cup {c}
  /\ held' = [held EXCEPT ![k] = {c}]
  /\ alive' = [alive EXCEPT ![k] = FALSE]
  /\ UNCHANGED <<phase, offered, heard>>

Hear(k) ==
  /\ ~ heard[k]
  /\ \E c \in held[k] : phase[c] = "answered"
  /\ heard' = [heard EXCEPT ![k] = TRUE]
  /\ alive' = [alive EXCEPT ![k] = TRUE]
  /\ UNCHANGED <<phase, offered, spent, held>>

\* A later call ends otherwise; the key stays.
Call(k) ==
  /\ alive' = [alive EXCEPT ![k] = FALSE]
  /\ UNCHANGED <<phase, offered, spent, held, heard>>

\* A client that dies loses its key for good.
Forget(k) ==
  /\ held' = [held EXCEPT ![k] = {}]
  /\ heard' = [heard EXCEPT ![k] = FALSE]
  /\ alive' = [alive EXCEPT ![k] = FALSE]
  /\ UNCHANGED <<phase, offered, spent>>

Next ==
  \/ \E c \in Links : Offer(c) \/ Accept(c) \/ Reply(c)
  \/ \E C \in SUBSET Links : End(C)
  \/ \E k \in Callers :
       (\E c \in Links : Adopt(k, c)) \/ Hear(k) \/ Call(k) \/ Forget(k)

Spec == Init /\ [][Next]_vars
=============================================================================
