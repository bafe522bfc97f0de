-------------------------- MODULE ExtensionServers --------------------------
(***************************************************************************)
(* The extension's HTTP server, which the repository has three times over: *)
(*                                                                         *)
(*   go          go/internal/extension: a goroutine per request; an        *)
(*               RWMutex held around the writes only;                      *)
(*   python      python/base/server.py: a thread per request; a lock held  *)
(*               around the whole handler;                                 *)
(*   typescript  typescript/src/base/server.ts: one thread; handlers are   *)
(*               chained on a promise, each started when the one before    *)
(*               has settled.                                              *)
(*                                                                         *)
(* The image that is deployed holds one of them.  Handlers are split where *)
(* another thread may come in: between two accesses to the shared state in *)
(* Go and Python, at an await in TypeScript.  Requests that are no valid   *)
(* action are answered before any of this and are left out.                *)
(***************************************************************************)
EXTENDS Naturals, Sequences

CONSTANTS
    Requests,    \* requests
    Posted,      \* [Servers -> SUBSET Requests]: those a server may be sent
    Op,          \* [Requests -> Commands \cup {"STATE", "OTHER"}]
    Text,        \* [Requests -> texts]: the greeting a request leaves behind
    Refused,     \* requests whose handler answers with status 0
    Throws,      \* pairs <<server, request>>: the handler throws
    NoText,      \* the empty string
    Nobody       \* no request

Servers == {"go", "python", "typescript"}
Greetings == {"SAY_HELLO", "SAY_GOODBYE"}
Commands == Greetings \cup {"AUTH"}

ASSUME ServersAssumption ==
    /\ Op \in [Requests -> Commands \cup {"STATE", "OTHER"}]
    /\ Throws \subseteq Servers \X Requests
    /\ Posted \in [Servers -> SUBSET Requests]
    /\ Nobody \notin Requests

VARIABLES
    server,      \* which of the three is deployed
    pc,          \* [Requests -> where its handling is]
    result,      \* [Requests -> what has been put into its answer]
    count,       \* greetingCount, farewellCount and authCount
    last,        \* lastGreeting and lastFarewell
    holder,      \* go: the writer inside mu; python: the holder of _lock
    readers,     \* go: the readers inside mu
    chain,       \* typescript: the requests chained on queue, in order
    doomed       \* typescript: a rejection nobody handles is ending the process

data == <<count, last>>
locks == <<holder, readers>>
process == <<chain, doomed>>
vars == <<server, pc, result, data, locks, process>>

NoResult == [status |-> "none"]
Unsupported == [status |-> "unsupported"]
Error == [status |-> "error"]
Numbered(n) == [status |-> "ok", number |-> n]
Snapshot(c, l) == [status |-> "state", count |-> c, last |-> l]

\* register(): the stream handlers exist in TypeScript only.
Table == IF server = "typescript" THEN Commands ELSE Greetings

NoCounts == [c \in Commands |-> 0]
NoTexts == [c \in Commands |-> NoText]

Init ==
    /\ server \in Servers
    /\ pc = [r \in Requests |-> "new"]
    /\ result = [r \in Requests |-> NoResult]
    /\ count = NoCounts
    /\ last = NoTexts
    /\ holder = Nobody
    /\ readers = {}
    /\ chain = <<>>
    /\ doomed = FALSE

Goto(r, from, to) ==
    /\ pc[r] = from
    /\ pc' = [pc EXCEPT ![r] = to]

------------------------------------------------------------------------------
(* All servers *)

Call(r) ==
    /\ ~doomed
    /\ r \in Posted[server]
    /\ Goto(r, "new", "called")
    /\ UNCHANGED <<server, result, data, locks, process>>

\* No handler is registered for the pair: 501, no lock, no queue.
Reject(r) ==
    /\ ~doomed
    /\ Op[r] \notin Table \cup {"STATE"}
    /\ Goto(r, "called", "handled")
    /\ result' = [result EXCEPT ![r] = Unsupported]
    /\ UNCHANGED <<server, data, locks, process>>

Answer(r) ==
    /\ Goto(r, "handled", "answered")
    /\ UNCHANGED <<server, result, data, locks, process>>

\* The accesses to the shared state that Go and Python handlers make.
Count(r) ==
    /\ Goto(r, "locked", "counted")
    /\ count' = [count EXCEPT ![Op[r]] = @ + 1]
    /\ UNCHANGED <<server, result, last, locks, process>>

SetLast(r, from) ==
    /\ Goto(r, from, "set")
    /\ last' = [last EXCEPT ![Op[r]] = Text[r]]
    /\ UNCHANGED <<server, result, count, locks, process>>

ReadGreeting(r) ==
    /\ Goto(r, "reading", "halfread")
    /\ result' = [result EXCEPT ![r] =
                    Snapshot([NoCounts EXCEPT !["SAY_HELLO"] = count["SAY_HELLO"]],
                             [NoTexts EXCEPT !["SAY_HELLO"] = last["SAY_HELLO"]])]
    /\ UNCHANGED <<server, data, locks, process>>

WithFarewell(snapshot) ==
    Snapshot([snapshot.count EXCEPT !["SAY_GOODBYE"] = count["SAY_GOODBYE"]],
             [snapshot.last EXCEPT !["SAY_GOODBYE"] = last["SAY_GOODBYE"]])

------------------------------------------------------------------------------
(* Go: the request is decoded and validated before the lock is taken. *)

GoRefuse(r) ==
    /\ Op[r] \in Table /\ r \in Refused
    /\ Goto(r, "called", "handled")
    /\ result' = [result EXCEPT ![r] = Error]
    /\ UNCHANGED <<server, data, locks, process>>

\* mu.Lock waits for readers; a slip that looks at the other writers only.
WriterFree == holder = Nobody
MuFree == holder = Nobody /\ readers = {}

GoLock(r) ==
    /\ Op[r] \in Table /\ r \notin Refused
    /\ MuFree
    /\ Goto(r, "called", "locked")
    /\ holder' = r
    /\ UNCHANGED <<server, result, data, readers, process>>

GoNumber(r) ==
    /\ Goto(r, "counted", "numbered")
    /\ result' = [result EXCEPT ![r] = Numbered(count[Op[r]])]
    /\ UNCHANGED <<server, data, locks, process>>

GoUnlock(r) ==
    /\ Goto(r, "set", "handled")
    /\ holder' = Nobody
    /\ UNCHANGED <<server, result, data, readers, process>>

GoRLock(r) ==
    /\ Op[r] = "STATE"
    /\ holder = Nobody
    /\ Goto(r, "called", "reading")
    /\ readers' = readers \cup {r}
    /\ UNCHANGED <<server, result, data, holder, process>>

GoReadFarewell(r) ==
    /\ Goto(r, "halfread", "read")
    /\ result' = [result EXCEPT ![r] = WithFarewell(@)]
    /\ UNCHANGED <<server, data, locks, process>>

GoRUnlock(r) ==
    /\ Goto(r, "read", "handled")
    /\ readers' = readers \ {r}
    /\ UNCHANGED <<server, result, data, holder, process>>

GoStep(r) ==
    \/ GoRefuse(r)
    \/ GoLock(r) \/ Count(r) \/ GoNumber(r) \/ SetLast(r, "numbered") \/ GoUnlock(r)
    \/ GoRLock(r) \/ ReadGreeting(r) \/ GoReadFarewell(r) \/ GoRUnlock(r)

------------------------------------------------------------------------------
(* Python: the lock is taken first; leaving the with statement, by whatever *)
(* way, gives it back.                                                      *)

PyLock(r) ==
    /\ Op[r] \in Table \cup {"STATE"}
    /\ holder = Nobody
    /\ Goto(r, "called", IF Op[r] = "STATE" THEN "reading" ELSE "locked")
    /\ holder' = r
    /\ UNCHANGED <<server, result, data, readers, process>>

\* The lock after a handler that did not succeed; a slip that forgets it.
StillHeld == holder
GivenBack == Nobody

PyRefuse(r) ==
    /\ r \in Refused
    /\ Goto(r, "locked", "handled")
    /\ result' = [result EXCEPT ![r] = Error]
    /\ holder' = GivenBack
    /\ UNCHANGED <<server, data, readers, process>>

\* The exception leaves do_POST: the connection is closed without an answer.
PyThrow(r) ==
    /\ <<server, r>> \in Throws
    /\ Goto(r, "locked", "lost")
    /\ holder' = GivenBack
    /\ UNCHANGED <<server, result, data, readers, process>>

PySucceeds(r) == r \notin Refused /\ <<server, r>> \notin Throws

\* The number in the response is read again after the text is set.
PyReturn(r) ==
    /\ Goto(r, "set", "handled")
    /\ result' = [result EXCEPT ![r] = Numbered(count[Op[r]])]
    /\ holder' = Nobody
    /\ UNCHANGED <<server, data, readers, process>>

PyReadFarewell(r) ==
    /\ Goto(r, "halfread", "handled")
    /\ result' = [result EXCEPT ![r] = WithFarewell(@)]
    /\ holder' = Nobody
    /\ UNCHANGED <<server, data, readers, process>>

PyStep(r) ==
    \/ PyLock(r)
    \/ PyRefuse(r) \/ PyThrow(r)
    \/ PySucceeds(r) /\ Count(r)
    \/ SetLast(r, "counted") \/ PyReturn(r)
    \/ ReadGreeting(r) \/ PyReadFarewell(r)

------------------------------------------------------------------------------
(* TypeScript *)

\* serialize: the handler is chained behind whatever was chained before it.
TsEnqueue(r) ==
    /\ ~doomed
    /\ Op[r] \in Table \cup {"STATE"}
    /\ Goto(r, "called", "queued")
    /\ chain' = Append(chain, r)
    /\ UNCHANGED <<server, result, data, locks, doomed>>

\* A link starts when the one before it has settled, resolved or rejected; a
\* slip that starts it at once.
Unchained(r) == TRUE
PreviousSettled(r) ==
    \A i \in DOMAIN chain :
        chain[i] = r => \A j \in 1..(i - 1) : pc[chain[j]] \notin {"queued", "awaiting"}

Effect(r) ==
    IF r \in Refused
    THEN /\ result' = [result EXCEPT ![r] = Error]
         /\ UNCHANGED data
    ELSE /\ result' = [result EXCEPT ![r] = Numbered(count[Op[r]] + 1)]
         /\ count' = [count EXCEPT ![Op[r]] = @ + 1]
         /\ last' = [last EXCEPT ![Op[r]] = Text[r]]

\* The greeting handlers and reportState run without an await.
TsGreet(r) ==
    /\ PreviousSettled(r)
    /\ Op[r] \in Greetings
    /\ Goto(r, "queued", "handled")
    /\ Effect(r)
    /\ UNCHANGED <<server, locks, process>>

TsReport(r) ==
    /\ PreviousSettled(r)
    /\ Op[r] = "STATE"
    /\ Goto(r, "queued", "handled")
    /\ result' = [result EXCEPT ![r] = Snapshot(count, last)]
    /\ UNCHANGED <<server, data, locks, process>>

\* authorize awaits, and touches the state after its last await.
TsBegin(r) ==
    /\ PreviousSettled(r)
    /\ Op[r] = "AUTH"
    /\ Goto(r, "queued", "awaiting")
    /\ UNCHANGED <<server, result, data, locks, process>>

TsResume(r) ==
    /\ <<server, r>> \notin Throws
    /\ Goto(r, "awaiting", "handled")
    /\ Effect(r)
    /\ UNCHANGED <<server, locks, process>>

\* The handler rejects.  The chain goes on, but serve rejects too and nobody
\* looks at its promise: Node ends the process when the callbacks that are
\* due have run.
TsThrow(r) ==
    /\ <<server, r>> \in Throws
    /\ Goto(r, "awaiting", "lost")
    /\ doomed' = TRUE
    /\ UNCHANGED <<server, result, data, locks, chain>>

\* The container exits with the process and the orchestrator starts it again.
TsDie ==
    /\ doomed
    /\ pc' = [r \in Requests |->
                IF pc[r] \in {"called", "queued", "awaiting", "handled"} THEN "lost" ELSE pc[r]]
    /\ count' = NoCounts
    /\ last' = NoTexts
    /\ chain' = <<>>
    /\ doomed' = FALSE
    /\ UNCHANGED <<server, result, locks>>

TsStep(r) ==
    \/ TsEnqueue(r)
    \/ TsGreet(r) \/ TsReport(r)
    \/ TsBegin(r) \/ TsResume(r) \/ TsThrow(r)

------------------------------------------------------------------------------

Step(r) ==
    \/ Reject(r)
    \/ Answer(r)
    \/ server = "go" /\ GoStep(r)
    \/ server = "python" /\ PyStep(r)
    \/ server = "typescript" /\ TsStep(r)

Next ==
    \/ \E r \in Requests : Call(r) \/ Step(r)
    \/ TsDie

Spec == Init /\ [][Next]_vars

\* Threads, goroutines and the event loop keep running; locks are handed on.
\* Nobody is obliged to post a request.
FairSpec ==
    /\ Spec
    /\ \A r \in Requests : WF_vars(Step(r))
    /\ WF_vars(TsDie)

------------------------------------------------------------------------------
(* Properties *)

ServersTypeOK ==
    /\ server \in Servers
    /\ pc \in [Requests -> {"new", "called", "queued", "awaiting", "locked", "counted",
                            "numbered", "set", "reading", "halfread", "read",
                            "handled", "answered", "lost"}]
    /\ count \in [Commands -> Nat]
    /\ holder \in Requests \cup {Nobody}
    /\ readers \subseteq Requests
    /\ chain \in Seq(Requests)
    /\ doomed \in BOOLEAN
    /\ holder # Nobody => readers = {}

\* Every server implements ExtensionService: each request takes effect at one
\* moment between its arrival and its answer, and no answer shows an effect
\* half done.  For Go and Python the moment is the write of the text, so the
\* counter of a writer that has not got there yet does not count.
Phase(r) ==
    IF pc[r] \in {"queued", "awaiting", "locked", "counted", "numbered", "reading", "halfread"}
    THEN "called"
    ELSE IF pc[r] \in {"set", "read"} THEN "handled" ELSE pc[r]

Service == INSTANCE ExtensionService WITH
    table <- Table,
    phase <- [r \in Requests |-> Phase(r)],
    result <- [r \in Requests |->
                 IF Phase(r) \in {"new", "called"} THEN NoResult
                 ELSE IF pc[r] = "set" THEN Numbered(count[Op[r]]) ELSE result[r]],
    count <- [c \in Commands |->
                IF holder # Nobody /\ pc[holder] \in {"counted", "numbered"} /\ Op[holder] = c
                THEN count[c] - 1 ELSE count[c]]

ImplementsService == Service!Spec

\* The TypeScript server numbers greetings in the order in which it took them
\* in, whatever was refused, awaited or rejected in between.
NumberedInOrder ==
    \A i, j \in DOMAIN chain :
        LET first == chain[i]
            later == chain[j]
        IN  /\ i < j
            /\ Op[first] = Op[later]
            /\ result[first].status = "ok" /\ result[later].status = "ok"
            => result[first].number < result[later].number

\* A request that has arrived is answered in the end, unless its handler threw
\* or the process ended: no lock is kept, no link of the chain is skipped.
EveryoneAnswered ==
    \A r \in Requests : pc[r] = "called" ~> pc[r] \in {"answered", "lost"}

\* "One failing handler cannot wedge the server" (server.ts), "a rejected
\* handler must not block subsequent requests" (server.test.ts): a request
\* goes without an answer only if its own handler threw.
FailureIsolated ==
    \A r \in Requests : pc[r] = "lost" => <<server, r>> \in Throws
==============================================================================
