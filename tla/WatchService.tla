---------------------------- MODULE WatchService ----------------------------
(***************************************************************************)
(* What a caller of the hooked ReadDirectoryChangesW may rely on, without  *)
(* slots, threads or events: every request the hook accepts is answered    *)
(* exactly once, with the result the kernel reported for that very call,   *)
(* and with a notification buffer that has been through the filter.        *)
(* OverlapEmu implements this specification.                               *)
(***************************************************************************)
CONSTANTS Requests,   \* the caller's requests: an OVERLAPPED, a buffer and a directory handle
          Outcomes,   \* what the kernel may report: a status and a byte count
          NoOutcome   \* no report yet

VARIABLES phase,      \* how far each request is
          result,     \* what the kernel reported for the call that is outstanding
          seen        \* what the caller reads once its request is delivered

vars == <<phase, result, seen>>

Nothing == [outcome |-> NoOutcome, buffer |-> "none"]

(* A byte count of zero tells the caller not to look at the buffer.        *)
Answer(o) == [outcome |-> o, buffer |-> IF o.high # 0 THEN "filtered" ELSE "none"]

Init ==
  /\ phase  = [r \in Requests |-> "idle"]
  /\ result = [r \in Requests |-> NoOutcome]
  /\ seen   = [r \in Requests |-> Nothing]

Issue(r) ==
  /\ phase[r] = "idle"
  /\ phase' = [phase EXCEPT ![r] = "issued"]
  /\ UNCHANGED <<result, seen>>

(* The system call fails and the caller is told so when the hook returns.  *)
Refuse(r) ==
  /\ phase[r] = "issued"
  /\ phase' = [phase EXCEPT ![r] = "idle"]
  /\ UNCHANGED <<result, seen>>

Complete(r, o) ==
  /\ phase[r] = "issued"
  /\ phase'  = [phase EXCEPT ![r] = "completed"]
  /\ result' = [result EXCEPT ![r] = o]
  /\ UNCHANGED seen

Deliver(r) ==
  /\ phase[r] = "completed"
  /\ phase' = [phase EXCEPT ![r] = "delivered"]
  /\ seen'  = [seen EXCEPT ![r] = Answer(result[r])]
  /\ UNCHANGED result

Consume(r) ==
  /\ phase[r] = "delivered"
  /\ phase'  = [phase EXCEPT ![r] = "idle"]
  /\ result' = [result EXCEPT ![r] = NoOutcome]
  /\ seen'   = [seen EXCEPT ![r] = Nothing]

Next ==
  \E r \in Requests :
    \/ Issue(r)
    \/ Refuse(r)
    \/ \E o \in Outcomes : Complete(r, o)
    \/ Deliver(r)
    \/ Consume(r)

Spec == Init /\ [][Next]_vars

=============================================================================
