-------------------------- MODULE ExtensionService --------------------------
(***************************************************************************)
(* What the extension promises whoever posts actions to it, in whichever   *)
(* language it is written (docs/extension-contract.md, section 5): each    *)
(* request takes effect at one moment between its arrival and its answer,  *)
(* all of it or nothing, and a state read sees no effect half done.  A     *)
(* restart forgets the state and every request under way.                  *)
(***************************************************************************)
EXTENDS Naturals

CONSTANTS
    Requests,    \* every request ever posted
    Commands,    \* commands that change the state
    Op,          \* [Requests -> Commands \cup {"STATE", ...}]
    Text,        \* [Requests -> texts]: what a command leaves behind
    Refused,     \* requests whose handler answers with an error
    NoText       \* before any command

VARIABLES
    table,       \* the commands with a handler
    phase,       \* [Requests -> {"new", "called", "handled", "answered", "lost"}]
    result,      \* [Requests -> results]
    count,       \* [Commands -> Nat]
    last         \* [Commands -> texts]

service == <<table, phase, result, count, last>>

NoResult == [status |-> "none"]
Unsupported == [status |-> "unsupported"]
Error == [status |-> "error"]
Numbered(n) == [status |-> "ok", number |-> n]
Snapshot(c, l) == [status |-> "state", count |-> c, last |-> l]

Fresh ==
    /\ count = [c \in Commands |-> 0]
    /\ last = [c \in Commands |-> NoText]

Init ==
    /\ table \subseteq Commands
    /\ phase = [r \in Requests |-> "new"]
    /\ result = [r \in Requests |-> NoResult]
    /\ Fresh

Call(r) ==
    /\ phase[r] = "new"
    /\ phase' = [phase EXCEPT ![r] = "called"]
    /\ UNCHANGED <<table, result, count, last>>

Finish(r, answer) ==
    /\ phase[r] = "called"
    /\ phase' = [phase EXCEPT ![r] = "handled"]
    /\ result' = [result EXCEPT ![r] = answer]
    /\ UNCHANGED table

Apply(r) ==
    /\ Op[r] \in table /\ r \notin Refused
    /\ Finish(r, Numbered(count[Op[r]] + 1))
    /\ count' = [count EXCEPT ![Op[r]] = @ + 1]
    /\ last' = [last EXCEPT ![Op[r]] = Text[r]]

Decline(r) ==
    /\ \/ Op[r] \notin table \cup {"STATE"} /\ Finish(r, Unsupported)
       \/ Op[r] \in table /\ r \in Refused /\ Finish(r, Error)
    /\ UNCHANGED <<count, last>>

Read(r) ==
    /\ Op[r] = "STATE"
    /\ Finish(r, Snapshot(count, last))
    /\ UNCHANGED <<count, last>>

Answer(r) ==
    /\ phase[r] = "handled"
    /\ phase' = [phase EXCEPT ![r] = "answered"]
    /\ UNCHANGED <<table, result, count, last>>

\* The handler failed before it had any effect, and there is no answer.
Fail(r) ==
    /\ phase[r] = "called"
    /\ phase' = [phase EXCEPT ![r] = "lost"]
    /\ UNCHANGED <<table, result, count, last>>

Restart ==
    /\ phase' = [r \in Requests |->
                    IF phase[r] \in {"called", "handled"} THEN "lost" ELSE phase[r]]
    /\ Fresh'
    /\ UNCHANGED <<table, result>>

Next ==
    \/ \E r \in Requests :
         Call(r) \/ Apply(r) \/ Decline(r) \/ Read(r) \/ Answer(r) \/ Fail(r)
    \/ Restart

Spec == Init /\ [][Next]_service
==============================================================================
