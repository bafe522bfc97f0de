---------------------------- MODULE IdealStreams ----------------------------
(***************************************************************************)
(* What an escrow of payroll streams promises, with no signatures, clocks, *)
(* callbacks or contract storage: every stream has a pot of its own, money *)
(* enters the pot, leaves it to the recipient while the stream is open,    *)
(* and when the stream closes the pot is split between recipient and       *)
(* employer with nothing left over.  A closed stream never moves again.    *)
(* StreamVault is shown to implement this specification.                   *)
(***************************************************************************)
EXTENDS Naturals

CONSTANT StreamIds

VARIABLES
    phase,        \* [StreamIds -> {"absent", "open", "closed"}]
    pot,          \* money held for the stream
    toRecipient,  \* money its recipient has received from it
    toEmployer    \* money its employer has received back from it

ideal == <<phase, pot, toRecipient, toEmployer>>

Init ==
    /\ phase = [id \in StreamIds |-> "absent"]
    /\ pot = [id \in StreamIds |-> 0]
    /\ toRecipient = [id \in StreamIds |-> 0]
    /\ toEmployer = [id \in StreamIds |-> 0]

\* Streams may be opened in any transaction, other business going on.
Opened(id) == phase[id] = "absent" /\ phase'[id] = "open"
PhasesKept(ids) == \A id \in ids : phase'[id] = phase[id] \/ Opened(id)

MoneyKept(ids) ==
    \A id \in ids : /\ pot'[id] = pot[id]
                    /\ toRecipient'[id] = toRecipient[id]
                    /\ toEmployer'[id] = toEmployer[id]

Open ==
    /\ PhasesKept(StreamIds)
    /\ MoneyKept(StreamIds)

Deposit(id) ==
    /\ phase[id] = "open"
    /\ pot'[id] > pot[id]
    /\ toRecipient'[id] = toRecipient[id]
    /\ toEmployer'[id] = toEmployer[id]
    /\ phase'[id] = "open"

Pay(id) ==
    /\ phase[id] = "open"
    /\ pot'[id] < pot[id]
    /\ toRecipient'[id] + pot'[id] = toRecipient[id] + pot[id]
    /\ toEmployer'[id] = toEmployer[id]
    /\ phase'[id] = "open"

Close(id) ==
    /\ phase[id] = "open"
    /\ phase'[id] = "closed"
    /\ pot'[id] = 0
    /\ toRecipient'[id] >= toRecipient[id]
    /\ toEmployer'[id] >= toEmployer[id]
    /\ toRecipient'[id] + toEmployer'[id] = toRecipient[id] + toEmployer[id] + pot[id]

Next ==
    \/ Open
    \/ \E id \in StreamIds :
         /\ Deposit(id) \/ Pay(id) \/ Close(id)
         /\ PhasesKept(StreamIds \ {id})
         /\ MoneyKept(StreamIds \ {id})

Spec == Init /\ [][Next]_ideal
==============================================================================
