---------------------------- MODULE HandoffQueue ----------------------------
(***************************************************************************)
(* What WorkQueue promises its callers, without threads that block or are  *)
(* woken: every socket that is put in is handed to exactly one consumer,   *)
(* in the order of arrival, or is discarded because the queue was shut.    *)
(* (include/workQueue.hpp, ADR-002: "every enqueued fd is processed by     *)
(* exactly one worker".)                                                   *)
(***************************************************************************)
EXTENDS Sequences

CONSTANTS Sockets, Consumers, Nobody

VARIABLES pending,    \* sockets put and not yet handed over
          shut,       \* the queue accepts no more
          handedTo,   \* the consumer each socket was handed to
          discarded   \* sockets closed by the queue itself

vars == <<pending, shut, handedTo, discarded>>

InPending == {pending[i] : i \in DOMAIN pending}

Init ==
  /\ pending = <<>>
  /\ shut = FALSE
  /\ handedTo = [s \in Sockets |-> Nobody]
  /\ discarded = {}

Fresh(s) == s \notin InPending \cup discarded /\ handedTo[s] = Nobody

Put(s) ==
  /\ Fresh(s)
  /\ IF shut
     THEN discarded' = discarded \cup {s} /\ UNCHANGED pending
     ELSE pending' = Append(pending, s) /\ UNCHANGED discarded
  /\ UNCHANGED <<shut, handedTo>>

HandOver(c) ==
  /\ pending # <<>>
  /\ handedTo' = [handedTo EXCEPT ![Head(pending)] = c]
  /\ pending' = Tail(pending)
  /\ UNCHANGED <<shut, discarded>>

Shut ==
  /\ ~shut
  /\ shut' = TRUE
  /\ discarded' = discarded \cup InPending
  /\ pending' = <<>>
  /\ UNCHANGED handedTo

Next ==
  \/ \E s \in Sockets : Put(s)
  \/ \E c \in Consumers : HandOver(c)
  \/ Shut

\* A pending socket does not stay pending for ever.
Spec == Init /\ [][Next]_vars /\ WF_vars(\E c \in Consumers : HandOver(c))
=============================================================================
