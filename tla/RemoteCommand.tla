--------------------------- MODULE RemoteCommand ---------------------------
(***************************************************************************)
(* What the backend promises about a command it has a restaurant's local   *)
(* agent carry out on a device of the restaurant: a payment terminal, a    *)
(* fiscal device, a printer.  The caller gets an answer, or is told after  *)
(* a while that there was none.  Giving up does not stop the device.       *)
(***************************************************************************)
CONSTANT Commands

VARIABLES
  outcome,  \* what the caller of each command has been told
  done      \* the commands a device has carried out

vars == <<outcome, done>>

Init ==
  /\ outcome = [c \in Commands |-> "none"]
  /\ done = {}

Call(c) ==
  /\ outcome[c] = "none"
  /\ outcome' = [outcome EXCEPT ![c] = "waiting"]
  /\ UNCHANGED done

\* The device does it: for a caller that waits or for one that has given up.
Do(c) ==
  /\ outcome[c] # "none"
  /\ done' = done \union {c}
  /\ UNCHANGED outcome

Succeed(c) ==
  /\ outcome[c] = "waiting"
  /\ c \in done
  /\ outcome' = [outcome EXCEPT ![c] = "succeeded"]
  /\ UNCHANGED done

Fail(c) ==
  /\ outcome[c] = "waiting"
  /\ outcome' = [outcome EXCEPT ![c] = "failed"]
  /\ UNCHANGED done

GiveUp(c) ==
  /\ outcome[c] = "waiting"
  /\ outcome' = [outcome EXCEPT ![c] = "timed_out"]
  /\ UNCHANGED done

Next == \E c \in Commands : Call(c) \/ Do(c) \/ Succeed(c) \/ Fail(c) \/ GiveUp(c)

Spec == Init /\ [][Next]_vars
=============================================================================
