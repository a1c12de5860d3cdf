----------------------------- MODULE ControlCall -----------------------------
(***************************************************************************)
(* What one call of MosquittoAdapter.command (admin-api/app/broker.py)     *)
(* promises the handler that makes it: "ok" is returned only after the     *)
(* broker has applied the command, "refused" (the broker's own error) only *)
(* after the broker has refused it.  Every other BrokerError is "unknown": *)
(* the command may have been applied, may still be applied after the call  *)
(* has ended, and may be executed more than once, up to MaxExecutions.     *)
(***************************************************************************)
EXTENDS Integers

CONSTANTS Calls,          \* one element per call of command()
          MaxExecutions   \* how often the broker may execute one call

VARIABLES phase,          \* the call as its caller sees it
          effects,        \* executions that the broker applied
          refusals        \* executions that the broker refused

vars == <<phase, effects, refusals>>

Phases == {"idle", "open", "ok", "refused", "unknown"}

TypeOK ==
    /\ phase \in [Calls -> Phases]
    /\ effects \in [Calls -> 0 .. MaxExecutions]
    /\ refusals \in [Calls -> 0 .. MaxExecutions]

Init ==
    /\ phase = [c \in Calls |-> "idle"]
    /\ effects = [c \in Calls |-> 0]
    /\ refusals = [c \in Calls |-> 0]

Open(c) ==
    /\ phase[c] = "idle"
    /\ phase' = [phase EXCEPT ![c] = "open"]
    /\ UNCHANGED <<effects, refusals>>

\* The broker may execute what was sent while the call is open and after it.
MayExecute(c) ==
    /\ phase[c] # "idle"
    /\ effects[c] + refusals[c] < MaxExecutions

Apply(c) ==
    /\ MayExecute(c)
    /\ effects' = [effects EXCEPT ![c] = @ + 1]
    /\ UNCHANGED <<phase, refusals>>

Refuse(c) ==
    /\ MayExecute(c)
    /\ refusals' = [refusals EXCEPT ![c] = @ + 1]
    /\ UNCHANGED <<phase, effects>>

\* The results a call may end with, given what the broker did with it.
MayAnswer(c, answer) ==
    /\ answer = "ok" => effects[c] > 0
    /\ answer = "refused" => refusals[c] > 0

Answers == {"ok", "refused", "unknown"}

Answer(c, answer) ==
    /\ phase[c] = "open"
    /\ MayAnswer(c, answer)
    /\ phase' = [phase EXCEPT ![c] = answer]
    /\ UNCHANGED <<effects, refusals>>

Next == \E c \in Calls :
    \/ Open(c)
    \/ Apply(c)
    \/ Refuse(c)
    \/ \E answer \in Answers : Answer(c, answer)

Spec == Init /\ [][Next]_vars

==============================================================================
