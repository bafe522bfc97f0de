--------------------------- MODULE ExtensionProofs ---------------------------
(***************************************************************************)
(* Proofs about the extension's three servers, for every set of requests,  *)
(* every choice of those that are refused or whose handler throws, and any *)
(* number of them under way at once.                                       *)
(*                                                                         *)
(* The invariant says who is inside the lock, as the program counters show *)
(* it, and what the lock is for: nobody writes while somebody reads, so    *)
(* half a snapshot is still half of what the state is now, and the number  *)
(* a writer took is still the counter.  Of the TypeScript chain it says    *)
(* that a link has started only if those before it have settled.           *)
(***************************************************************************)
EXTENDS ExtensionServers, TLAPS

Writing == {"locked", "counted", "numbered", "set"}
Reading == {"reading", "halfread", "read"}
Waiting == {"queued", "awaiting"}

Texts == {NoText} \cup {Text[r] : r \in Requests}

Results ==
    {NoResult, Unsupported, Error}
    \cup [status : {"ok"}, number : Nat]
    \cup [status : {"state"}, count : [Commands -> Nat], last : [Commands -> Texts]]

StateOK ==
    /\ ServersTypeOK
    /\ result \in [Requests -> Results]
    /\ last \in [Commands -> Texts]
    /\ server # "typescript" => chain = <<>> /\ ~doomed /\ count["AUTH"] = 0 /\ last["AUTH"] = NoText

\* Who is inside the lock.
LockOK(r) ==
    /\ pc[r] \in Waiting => server = "typescript"
    /\ pc[r] \in Writing \cup Reading => server # "typescript"
    /\ pc[r] \in {"numbered", "read"} => server = "go"
    /\ holder = r <=> pc[r] \in Writing \/ (server = "python" /\ pc[r] \in Reading)
    /\ r \in readers <=> server = "go" /\ pc[r] \in Reading

\* Which requests get where.
RouteOK(r) ==
    /\ pc[r] \in Writing => Op[r] \in Greetings
    /\ pc[r] \in {"counted", "numbered", "set"} => r \notin Refused
    /\ server = "go" /\ pc[r] = "locked" => r \notin Refused
    /\ pc[r] \in Reading => Op[r] = "STATE"
    /\ pc[r] = "awaiting" => Op[r] = "AUTH"

HalfSnapshot ==
    Snapshot([NoCounts EXCEPT !["SAY_HELLO"] = count["SAY_HELLO"]],
             [NoTexts EXCEPT !["SAY_HELLO"] = last["SAY_HELLO"]])

\* What a request has been told so far.
ResultOK(r) ==
    /\ pc[r] \in {"new", "called", "queued", "awaiting", "locked", "counted", "reading"}
         => result[r] = NoResult
    /\ pc[r] = "numbered" \/ (pc[r] = "set" /\ server = "go")
         => result[r] = Numbered(count[Op[r]])
    /\ pc[r] \in {"counted", "numbered"} => count[Op[r]] > 0
    /\ pc[r] = "halfread" => result[r] = HalfSnapshot

\* The chain of the TypeScript server.
ChainOK ==
    /\ \A i \in DOMAIN chain : pc[chain[i]] \in Waiting \cup {"handled", "answered", "lost"}
    /\ \A i, j \in DOMAIN chain : chain[i] = chain[j] => i = j
    /\ \A i, j \in DOMAIN chain : i < j /\ pc[chain[j]] # "queued" => pc[chain[i]] \notin Waiting
    /\ \A i \in DOMAIN chain :
         result[chain[i]].status = "ok" =>
             Op[chain[i]] \in Commands /\ result[chain[i]].number <= count[Op[chain[i]]]
    /\ NumberedInOrder

EInv ==
    /\ StateOK
    /\ \A r \in Requests : LockOK(r) /\ RouteOK(r) /\ ResultOK(r)
    /\ ChainOK

------------------------------------------------------------------------------
(* Steps of one request *)

PcStates ==
    {"new", "called", "queued", "awaiting", "locked", "counted", "numbered", "set",
     "reading", "halfread", "read", "handled", "answered", "lost"}

\* Request r goes to another place, and only its answer may change.
Moves(r, to, res) ==
    /\ pc' = [pc EXCEPT ![r] = to]
    /\ result' = [result EXCEPT ![r] = res]
    /\ UNCHANGED server

LEMMA Types ==
    ASSUME EInv
    PROVE  /\ server \in Servers
           /\ pc \in [Requests -> PcStates]
           /\ result \in [Requests -> Results]
           /\ count \in [Commands -> Nat]
           /\ last \in [Commands -> Texts]
           /\ holder \in Requests \cup {Nobody}
           /\ readers \subseteq Requests
           /\ chain \in Seq(Requests)
           /\ doomed \in BOOLEAN
           /\ Nobody \notin Requests
  BY ServersAssumption DEF EInv, StateOK, ServersTypeOK, PcStates

LEMMA MovedFields ==
    ASSUME EInv, NEW r \in Requests, NEW to \in PcStates, NEW res \in Results, Moves(r, to, res)
    PROVE  /\ pc' \in [Requests -> PcStates] /\ result' \in [Requests -> Results]
           /\ pc'[r] = to /\ result'[r] = res
           /\ \A q \in Requests \ {r} : pc'[q] = pc[q] /\ result'[q] = result[q]
  BY Types DEF Moves

\* A step that keeps the answer of its request.
LEMMA SameResult ==
    ASSUME EInv, NEW r \in Requests, NEW from, NEW to, Goto(r, from, to), UNCHANGED <<server, result>>
    PROVE  Moves(r, to, result[r]) /\ result[r] \in Results
  BY Types DEF Moves, Goto

\* Whoever does not move keeps its part of the invariant while the state it
\* depends on stays as it is.
LEMMA OthersKept ==
    ASSUME EInv, NEW r \in Requests, NEW to \in PcStates, NEW res \in Results, Moves(r, to, res),
           UNCHANGED <<count, last>>,
           NEW q \in Requests \ {r},
           holder' = q <=> holder = q,
           q \in readers' <=> q \in readers
    PROVE  LockOK(q)' /\ RouteOK(q)' /\ ResultOK(q)'
  <1>1. pc'[q] = pc[q] /\ result'[q] = result[q] /\ server' = server
    BY MovedFields DEF Moves
  <1>2. LockOK(q) /\ RouteOK(q) /\ ResultOK(q)
    BY DEF EInv
  <1>3. LockOK(q)'
    BY <1>1, <1>2 DEF LockOK
  <1>4. RouteOK(q)'
    BY <1>1, <1>2 DEF RouteOK
  <1>5. ResultOK(q)'
    BY <1>1, <1>2 DEF ResultOK, HalfSnapshot
  <1> QED
    BY <1>3, <1>4, <1>5

LEMMA StepKept ==
    ASSUME EInv, NEW r \in Requests, NEW to \in PcStates, NEW res \in Results, Moves(r, to, res),
           UNCHANGED <<count, last, chain>>,
           doomed' \in BOOLEAN, server # "typescript" => ~doomed',
           holder' \in Requests \cup {Nobody}, readers' \subseteq Requests,
           holder' # Nobody => readers' = {},
           \A q \in Requests \ {r} : /\ holder' = q <=> holder = q
                                     /\ q \in readers' <=> q \in readers,
           LockOK(r)', RouteOK(r)', ResultOK(r)', ChainOK'
    PROVE  EInv'
  <1>1. StateOK'
    BY Types, MovedFields DEF StateOK, EInv, ServersTypeOK, PcStates, Moves
  <1>2. \A q \in Requests \ {r} : LockOK(q)' /\ RouteOK(q)' /\ ResultOK(q)'
    BY OthersKept
  <1> QED
    BY <1>1, <1>2 DEF EInv

------------------------------------------------------------------------------
(* The chain of the TypeScript server *)

LEMMA ChainTypes ==
    ASSUME EInv
    PROVE  /\ ChainOK
           /\ DOMAIN chain \subseteq Nat
           /\ \A i \in DOMAIN chain : chain[i] \in Requests
           /\ \A i \in DOMAIN chain : \A j \in Nat : 0 < j /\ j < i => j \in DOMAIN chain
           /\ \A i \in DOMAIN chain : 0 < i
  BY Types DEF EInv

LEMMA ChainEmpty ==
    ASSUME EInv, server # "typescript", UNCHANGED chain
    PROVE  ChainOK'
  <1>1. chain' = <<>>
    BY DEF EInv, StateOK
  <1> QED
    BY <1>1 DEF ChainOK, NumberedInOrder

\* A request that is not in the chain, or has been handled, moves.
LEMMA ChainAside ==
    ASSUME EInv, NEW r \in Requests, NEW to \in PcStates, NEW res \in Results, Moves(r, to, res),
           UNCHANGED <<chain, count>>,
           \/ pc[r] \in {"new", "called"}
           \/ pc[r] = "handled" /\ to = "answered" /\ res = result[r]
    PROVE  ChainOK'
  <1>1. /\ \A q \in Requests \ {r} : pc'[q] = pc[q] /\ result'[q] = result[q]
        /\ pc'[r] = to /\ result'[r] = res
    BY MovedFields
  <1>2. \A i \in DOMAIN chain : chain[i] \in Requests
    BY ChainTypes
  <1>3. pc[r] \in {"new", "called"} => \A i \in DOMAIN chain : chain[i] # r
    <2>1. \A i \in DOMAIN chain : pc[chain[i]] \in Waiting \cup {"handled", "answered", "lost"}
      BY ChainTypes DEF ChainOK
    <2> QED
      BY <2>1 DEF Waiting
  <1>4. \A i \in DOMAIN chain :
          /\ result'[chain[i]] = result[chain[i]]
          /\ \/ pc'[chain[i]] = pc[chain[i]]
             \/ pc[chain[i]] = "handled" /\ pc'[chain[i]] = "answered"
    <2> SUFFICES ASSUME NEW i \in DOMAIN chain
                 PROVE  /\ result'[chain[i]] = result[chain[i]]
                        /\ \/ pc'[chain[i]] = pc[chain[i]]
                           \/ pc[chain[i]] = "handled" /\ pc'[chain[i]] = "answered"
      OBVIOUS
    <2>1. CASE chain[i] # r
      BY <1>1, <1>2, <2>1
    <2>2. CASE chain[i] = r
      BY <1>1, <1>3, <2>2
    <2> QED
      BY <2>1, <2>2
  <1>5. NumberedInOrder'
    BY <1>4, ChainTypes DEF ChainOK, NumberedInOrder
  <1>6. /\ \A i \in DOMAIN chain : pc'[chain[i]] \in Waiting \cup {"handled", "answered", "lost"}
        /\ \A i, j \in DOMAIN chain : chain[i] = chain[j] => i = j
    BY <1>4, ChainTypes DEF ChainOK
  <1>7. \A i \in DOMAIN chain : /\ pc'[chain[i]] \in Waiting <=> pc[chain[i]] \in Waiting
                                /\ pc'[chain[i]] = "queued" <=> pc[chain[i]] = "queued"
    BY <1>4 DEF Waiting
  <1>8. \A i, j \in DOMAIN chain :
          i < j /\ pc'[chain[j]] # "queued" => pc'[chain[i]] \notin Waiting
    BY <1>7, ChainTypes DEF ChainOK
  <1>9. \A i \in DOMAIN chain :
          result'[chain[i]].status = "ok" =>
              Op[chain[i]] \in Commands /\ result'[chain[i]].number <= count[Op[chain[i]]]
    BY <1>4, ChainTypes DEF ChainOK
  <1> QED
    BY <1>5, <1>6, <1>8, <1>9 DEF ChainOK

\* When a link runs, those before it have settled and those behind it wait.
LEMMA LinkRuns ==
    ASSUME EInv, NEW r \in Requests,
           pc[r] = "awaiting" \/ (pc[r] = "queued" /\ PreviousSettled(r)),
           NEW i \in DOMAIN chain, chain[i] = r, NEW j \in DOMAIN chain
    PROVE  /\ j < i => pc[chain[j]] \notin Waiting
           /\ i < j => pc[chain[j]] = "queued" /\ result[chain[j]] = NoResult
  <1>1. ASSUME j < i PROVE pc[chain[j]] \notin Waiting
    <2>1. CASE pc[r] = "awaiting"
      BY <1>1, <2>1, ChainTypes DEF ChainOK
    <2>2. CASE PreviousSettled(r)
      <3>1. j \in 1..(i - 1)
        BY <1>1, ChainTypes
      <3> QED
        BY <2>2, <3>1 DEF PreviousSettled, Waiting
    <2> QED
      BY <2>1, <2>2
  <1>2. ASSUME i < j PROVE pc[chain[j]] = "queued" /\ result[chain[j]] = NoResult
    <2>1. pc[chain[j]] = "queued"
      BY <1>2, ChainTypes DEF ChainOK, Waiting
    <2>2. ResultOK(chain[j])
      BY ChainTypes DEF EInv
    <2> QED
      BY <2>1, <2>2 DEF ResultOK
  <1> QED
    BY <1>1, <1>2

LEMMA ChainRuns ==
    ASSUME EInv, NEW r \in Requests, NEW to \in {"awaiting", "handled", "lost"}, NEW res \in Results,
           Moves(r, to, res), UNCHANGED chain, Op[r] \in Commands \cup {"STATE"},
           pc[r] = "awaiting" \/ (pc[r] = "queued" /\ PreviousSettled(r)),
           \/ res.status # "ok" /\ UNCHANGED count
           \/ /\ res = Numbered(count[Op[r]] + 1)
              /\ Op[r] \in Commands
              /\ count' = [count EXCEPT ![Op[r]] = @ + 1]
    PROVE  ChainOK'
  <1>1. /\ \A q \in Requests \ {r} : pc'[q] = pc[q] /\ result'[q] = result[q]
        /\ pc'[r] = to /\ result'[r] = res
    BY MovedFields DEF PcStates
  <1>2. \A i \in DOMAIN chain : chain[i] \in Requests /\ chain'[i] = chain[i]
    BY ChainTypes
  <1>3. \A i \in DOMAIN chain : pc'[chain[i]] \in Waiting \cup {"handled", "answered", "lost"}
    BY <1>1, <1>2, ChainTypes DEF ChainOK, Waiting
  <1>4. \A i, j \in DOMAIN chain : chain[i] = chain[j] => i = j
    BY ChainTypes DEF ChainOK
  <1>5. \A i, j \in DOMAIN chain : i < j /\ pc'[chain[j]] # "queued" => pc'[chain[i]] \notin Waiting
    <2> SUFFICES ASSUME NEW i \in DOMAIN chain, NEW j \in DOMAIN chain, i < j, pc'[chain[j]] # "queued"
                 PROVE  pc'[chain[i]] \notin Waiting
      OBVIOUS
    <2>1. CASE chain[j] = r
      <3>1. chain[i] # r
        BY <1>4, <2>1, ChainTypes
      <3> QED
        BY <1>1, <1>2, <2>1, <3>1, LinkRuns
    <2>2. CASE chain[j] # r /\ chain[i] = r
      <3>1. pc[chain[j]] = "queued"
        BY <2>2, LinkRuns
      <3> QED
        BY <1>1, <1>2, <2>2, <3>1
    <2>3. CASE chain[j] # r /\ chain[i] # r
      BY <1>1, <1>2, <2>3, ChainTypes DEF ChainOK
    <2> QED
      BY <2>1, <2>2, <2>3
  <1>6. \A c \in Commands : count[c] \in Nat /\ count'[c] \in Nat /\ count[c] <= count'[c]
    BY Types
  <1>7. \A i \in DOMAIN chain :
          result'[chain[i]].status = "ok" =>
              /\ Op[chain[i]] \in Commands
              /\ result'[chain[i]].number \in Nat
              /\ result'[chain[i]].number <= count'[Op[chain[i]]]
    <2> SUFFICES ASSUME NEW i \in DOMAIN chain, result'[chain[i]].status = "ok"
                 PROVE  /\ Op[chain[i]] \in Commands
                        /\ result'[chain[i]].number \in Nat
                        /\ result'[chain[i]].number <= count'[Op[chain[i]]]
      OBVIOUS
    <2>1. CASE chain[i] = r
      <3>1. /\ res = Numbered(count[Op[r]] + 1) /\ Op[r] \in Commands
            /\ count' = [count EXCEPT ![Op[r]] = @ + 1]
        BY <1>1, <2>1
      <3>2. res.number = count[Op[r]] + 1 /\ count'[Op[r]] = count[Op[r]] + 1
        BY <3>1, Types DEF Numbered
      <3> QED
        BY <1>1, <1>6, <2>1, <3>1, <3>2
    <2>2. CASE chain[i] # r
      <3>1. result'[chain[i]] = result[chain[i]]
        BY <1>1, <1>2, <2>2
      <3>2. Op[chain[i]] \in Commands /\ result[chain[i]].number <= count[Op[chain[i]]]
        BY <3>1, ChainTypes DEF ChainOK
      <3>3. result[chain[i]].number \in Nat
        <4>1. result[chain[i]] \in Results /\ result[chain[i]].status = "ok"
          BY <1>2, <3>1, Types
        <4> QED
          BY <4>1 DEF Results, NoResult, Unsupported, Error
      <3> QED
        BY <1>6, <3>1, <3>2, <3>3
    <2> QED
      BY <2>1, <2>2
  <1>8. NumberedInOrder'
    <2> SUFFICES ASSUME NEW i \in DOMAIN chain, NEW j \in DOMAIN chain, i < j,
                        Op[chain[i]] = Op[chain[j]],
                        result'[chain[i]].status = "ok", result'[chain[j]].status = "ok"
                 PROVE  result'[chain[i]].number < result'[chain[j]].number
      BY DEF NumberedInOrder
    <2>1. CASE chain[j] = r
      <3>1. chain[i] # r
        BY <1>4, <2>1, ChainTypes
      <3>2. result'[chain[i]] = result[chain[i]]
        BY <1>1, <1>2, <3>1
      <3>3. /\ res = Numbered(count[Op[r]] + 1) /\ Op[r] \in Commands
        BY <1>1, <2>1
      <3>4. result[chain[i]].number <= count[Op[r]] /\ result[chain[i]].number \in Nat
        BY <1>7, <2>1, <3>2, ChainTypes DEF ChainOK
      <3>5. result'[chain[j]].number = count[Op[r]] + 1
        BY <1>1, <2>1, <3>3 DEF Numbered
      <3> QED
        BY <1>6, <3>2, <3>3, <3>4, <3>5
    <2>2. CASE chain[j] # r /\ chain[i] = r
      <3>1. result[chain[j]] = NoResult
        BY <2>2, LinkRuns
      <3> QED
        BY <1>1, <1>2, <2>2, <3>1 DEF NoResult
    <2>3. CASE chain[j] # r /\ chain[i] # r
      <3>1. result'[chain[i]] = result[chain[i]] /\ result'[chain[j]] = result[chain[j]]
        BY <1>1, <1>2, <2>3
      <3> QED
        BY <3>1, ChainTypes DEF ChainOK, NumberedInOrder
    <2> QED
      BY <2>1, <2>2, <2>3
  <1> QED
    BY <1>2, <1>3, <1>4, <1>5, <1>7, <1>8 DEF ChainOK

\* serialize puts the new link behind all others.
LEMMA ChainGrows ==
    ASSUME EInv, NEW r \in Requests, Moves(r, "queued", result[r]), pc[r] = "called",
           chain' = Append(chain, r), UNCHANGED count
    PROVE  ChainOK'
  <1> DEFINE n == Len(chain)
  <1>1. /\ n \in Nat /\ DOMAIN chain = 1..n /\ DOMAIN chain' = 1..(n + 1)
        /\ chain'[n + 1] = r
        /\ \A i \in 1..n : chain'[i] = chain[i] /\ chain[i] \in Requests
    BY Types
  <1>2. \A q \in Requests : result'[q] = result[q] /\ (q # r => pc'[q] = pc[q])
    BY MovedFields, Types DEF PcStates
  <1>3. pc'[r] = "queued" /\ result'[r] = NoResult
    <2>1. ResultOK(r)
      BY DEF EInv
    <2> QED
      BY <2>1, MovedFields, Types DEF ResultOK, PcStates
  <1>4. \A i \in 1..n : chain[i] # r
    <2>1. \A i \in 1..n : pc[chain[i]] \in Waiting \cup {"handled", "answered", "lost"}
      BY <1>1, ChainTypes DEF ChainOK
    <2> QED
      BY <2>1 DEF Waiting
  <1>5. \A i \in 1..(n + 1) : i \in 1..n \/ i = n + 1
    BY <1>1
  <1>6. \A i \in 1..n : pc'[chain[i]] = pc[chain[i]] /\ result'[chain[i]] = result[chain[i]]
    BY <1>1, <1>2, <1>4
  <1> HIDE DEF n
  <1>7. \A i \in DOMAIN chain' : pc'[chain'[i]] \in Waiting \cup {"handled", "answered", "lost"}
    BY <1>1, <1>3, <1>5, <1>6, ChainTypes DEF ChainOK, Waiting
  <1>8. \A i, j \in DOMAIN chain' : chain'[i] = chain'[j] => i = j
    BY <1>1, <1>4, <1>5, ChainTypes DEF ChainOK
  <1>9. \A i, j \in DOMAIN chain' : i < j /\ pc'[chain'[j]] # "queued" => pc'[chain'[i]] \notin Waiting
    <2> SUFFICES ASSUME NEW i \in 1..(n + 1), NEW j \in 1..(n + 1), i < j, pc'[chain'[j]] # "queued"
                 PROVE  pc'[chain'[i]] \notin Waiting
      BY <1>1
    <2>1. i \in 1..n /\ j \in 1..n
      BY <1>1, <1>3, <1>5
    <2> QED
      BY <1>1, <1>6, <2>1, ChainTypes DEF ChainOK
  <1>10. \A i \in DOMAIN chain' :
           result'[chain'[i]].status = "ok" =>
               Op[chain'[i]] \in Commands /\ result'[chain'[i]].number <= count[Op[chain'[i]]]
    BY <1>1, <1>3, <1>5, <1>6, ChainTypes DEF ChainOK, NoResult
  <1>11. NumberedInOrder'
    <2> SUFFICES ASSUME NEW i \in 1..(n + 1), NEW j \in 1..(n + 1), i < j,
                        Op[chain'[i]] = Op[chain'[j]],
                        result'[chain'[i]].status = "ok", result'[chain'[j]].status = "ok"
                 PROVE  result'[chain'[i]].number < result'[chain'[j]].number
      BY <1>1 DEF NumberedInOrder
    <2>1. i \in 1..n /\ j \in 1..n
      BY <1>1, <1>3, <1>5 DEF NoResult
    <2> QED
      BY <1>1, <1>6, <2>1, ChainTypes DEF ChainOK, NumberedInOrder
  <1> QED
    BY <1>7, <1>8, <1>9, <1>10, <1>11 DEF ChainOK

------------------------------------------------------------------------------
(* Every step keeps the invariant *)

LEMMA Own ==
    ASSUME EInv, NEW r \in Requests
    PROVE  LockOK(r) /\ RouteOK(r) /\ ResultOK(r)
  BY DEF EInv

LEMMA ResultValues ==
    /\ NoResult \in Results /\ Unsupported \in Results /\ Error \in Results
    /\ NoResult.status = "none" /\ Unsupported.status = "unsupported" /\ Error.status = "error"
    /\ \A n \in Nat : Numbered(n) \in Results
    /\ \A c \in [Commands -> Nat], l \in [Commands -> Texts] :
         Snapshot(c, l) \in Results /\ Snapshot(c, l).status = "state"
  BY DEF Results, NoResult, Unsupported, Error, Numbered, Snapshot

\* Steps outside the lock and the chain.
LEMMA AsideKept ==
    ASSUME EInv, NEW r \in Requests,
           Call(r) \/ Reject(r) \/ Answer(r) \/ (server = "go" /\ GoRefuse(r))
    PROVE  EInv'
  <1>1. UNCHANGED <<count, last, holder, readers, chain, doomed>>
    BY DEF Call, Reject, Answer, GoRefuse, data, locks, process
  <1>2. \E to \in {"called", "handled", "answered"}, res \in Results :
          /\ Moves(r, to, res)
          /\ \/ pc[r] = "new" /\ to = "called" /\ res = NoResult
             \/ pc[r] = "called" /\ to = "handled"
             \/ pc[r] = "handled" /\ to = "answered" /\ res = result[r]
    <2>1. CASE Call(r)
      BY <2>1, Own, SameResult, ResultValues DEF Call, Goto, ResultOK
    <2>2. CASE Reject(r)
      BY <2>2, ResultValues DEF Reject, Goto, Moves
    <2>3. CASE Answer(r)
      BY <2>3, SameResult DEF Answer, Goto
    <2>4. CASE GoRefuse(r)
      BY <2>4, ResultValues DEF GoRefuse, Goto, Moves
    <2> QED
      BY <2>1, <2>2, <2>3, <2>4
  <1>3. PICK to \in {"called", "handled", "answered"}, res \in Results :
          /\ Moves(r, to, res)
          /\ \/ pc[r] = "new" /\ to = "called" /\ res = NoResult
             \/ pc[r] = "called" /\ to = "handled"
             \/ pc[r] = "handled" /\ to = "answered" /\ res = result[r]
    BY <1>2
  <1>4. pc'[r] = to /\ result'[r] = res /\ to \in PcStates /\ server' = server
    BY <1>3, MovedFields DEF PcStates, Moves
  <1>5. LockOK(r)' /\ RouteOK(r)' /\ ResultOK(r)'
    BY <1>1, <1>3, <1>4, Own DEF LockOK, RouteOK, ResultOK, Writing, Reading, Waiting
  <1>6. ChainOK'
    BY <1>1, <1>3, <1>4, ChainAside
  <1> QED
    BY <1>1, <1>3, <1>4, <1>5, <1>6, StepKept, Types DEF EInv, StateOK, ServersTypeOK

\* Taking and giving back the lock, and reading under it.
LEMMA LocksKept ==
    ASSUME EInv, NEW r \in Requests,
           \/ server = "go" /\ (GoLock(r) \/ GoUnlock(r) \/ GoRLock(r) \/ GoRUnlock(r))
           \/ server = "python" /\ (PyLock(r) \/ PyThrow(r))
    PROVE  EInv'
  <1>1. UNCHANGED <<server, result, count, last, chain, doomed>> /\ server # "typescript"
    BY DEF GoLock, GoUnlock, GoRLock, GoRUnlock, PyLock, PyThrow, data, process
  <1>2. PICK from \in PcStates, to \in PcStates : Goto(r, from, to)
    BY DEF GoLock, GoUnlock, GoRLock, GoRUnlock, PyLock, PyThrow, PcStates
  <1>3. Moves(r, to, result[r]) /\ result[r] \in Results
    BY <1>1, <1>2, SameResult
  <1>4. pc[r] = from /\ pc'[r] = to /\ result'[r] = result[r]
    BY <1>2, <1>3, MovedFields DEF Goto
  <1>5. Table = Greetings
    BY <1>1 DEF Table
  <1>6. /\ holder' \in Requests \cup {Nobody} /\ readers' \subseteq Requests
        /\ holder' # Nobody => readers' = {}
        /\ \A q \in Requests \ {r} : /\ holder' = q <=> holder = q
                                     /\ q \in readers' <=> q \in readers
        /\ LockOK(r)' /\ RouteOK(r)' /\ ResultOK(r)'
    <2>1. /\ holder \in Requests \cup {Nobody} /\ readers \subseteq Requests
          /\ Nobody \notin Requests /\ (holder # Nobody => readers = {})
      BY Types DEF EInv, StateOK, ServersTypeOK
    <2>2. CASE server = "go" /\ GoLock(r)
      <3>1. /\ pc[r] = "called" /\ pc'[r] = "locked" /\ holder = Nobody /\ readers = {}
            /\ holder' = r /\ readers' = readers /\ Op[r] \in Greetings /\ r \notin Refused
        BY <1>4, <1>5, <2>2, Types DEF GoLock, Goto, MuFree
      <3> QED
        BY <1>1, <1>4, <2>1, <2>2, <3>1, Own
           DEF LockOK, RouteOK, ResultOK, Writing, Reading, Waiting
    <2>3. CASE server = "go" /\ GoUnlock(r)
      <3>1. /\ pc[r] = "set" /\ pc'[r] = "handled" /\ holder' = Nobody /\ readers' = readers
        BY <1>4, <2>3, Types DEF GoUnlock, Goto
      <3>2. holder = r
        BY <3>1, Own DEF LockOK, Writing
      <3> QED
        BY <1>1, <1>4, <2>1, <2>3, <3>1, <3>2, Own
           DEF LockOK, RouteOK, ResultOK, Writing, Reading, Waiting
    <2>4. CASE server = "go" /\ GoRLock(r)
      <3>1. /\ pc[r] = "called" /\ pc'[r] = "reading" /\ holder = Nobody
            /\ holder' = holder /\ readers' = readers \cup {r} /\ Op[r] = "STATE"
        BY <1>4, <2>4, Types DEF GoRLock, Goto
      <3> QED
        BY <1>1, <1>4, <2>1, <2>4, <3>1, Own
           DEF LockOK, RouteOK, ResultOK, Writing, Reading, Waiting
    <2>5. CASE server = "go" /\ GoRUnlock(r)
      <3>1. /\ pc[r] = "read" /\ pc'[r] = "handled"
            /\ holder' = holder /\ readers' = readers \ {r}
        BY <1>4, <2>5, Types DEF GoRUnlock, Goto
      <3> QED
        BY <1>1, <1>4, <2>1, <2>5, <3>1, Own
           DEF LockOK, RouteOK, ResultOK, Writing, Reading, Waiting
    <2>6. CASE server = "python" /\ PyLock(r)
      <3>1. /\ pc[r] = "called" /\ holder = Nobody
            /\ pc'[r] = IF Op[r] = "STATE" THEN "reading" ELSE "locked"
            /\ holder' = r /\ readers' = readers /\ Op[r] \in Greetings \cup {"STATE"}
        BY <1>4, <1>5, <2>6, Types DEF PyLock, Goto
      <3>2. readers = {}
        BY <2>1, <2>6 DEF EInv, LockOK
      <3> QED
        BY <1>1, <1>4, <2>1, <2>6, <3>1, <3>2, Own
           DEF LockOK, RouteOK, ResultOK, Writing, Reading, Waiting
    <2>7. CASE server = "python" /\ PyThrow(r)
      <3>1. /\ pc[r] = "locked" /\ pc'[r] = "lost" /\ holder' = Nobody /\ readers' = readers
        BY <1>4, <2>7, Types DEF PyThrow, Goto, GivenBack
      <3>2. holder = r
        BY <3>1, Own DEF LockOK, Writing
      <3> QED
        BY <1>1, <1>4, <2>1, <2>7, <3>1, <3>2, Own
           DEF LockOK, RouteOK, ResultOK, Writing, Reading, Waiting
    <2> QED
      BY <2>2, <2>3, <2>4, <2>5, <2>6, <2>7
  <1>7. ChainOK'
    BY <1>1, ChainEmpty
  <1>8. doomed' \in BOOLEAN /\ ~doomed'
    BY <1>1, Types DEF EInv, StateOK
  <1> QED
    BY <1>1, <1>3, <1>6, <1>7, <1>8, StepKept

\* Half a snapshot is half of the state, and with the farewell it is the state:
\* a server without stream handlers counts nothing else.
LEMMA SnapshotComplete ==
    ASSUME EInv, server # "typescript"
    PROVE  /\ HalfSnapshot \in Results
           /\ WithFarewell(HalfSnapshot) = Snapshot(count, last)
           /\ Snapshot(count, last) \in Results
  <1> DEFINE c == [NoCounts EXCEPT !["SAY_HELLO"] = count["SAY_HELLO"]]
             l == [NoTexts EXCEPT !["SAY_HELLO"] = last["SAY_HELLO"]]
  <1>1. c \in [Commands -> Nat] /\ l \in [Commands -> Texts]
    BY Types DEF NoCounts, NoTexts, Commands, Greetings, Texts
  <1>2. count["AUTH"] = 0 /\ last["AUTH"] = NoText
    BY DEF EInv, StateOK
  <1>3. HalfSnapshot.count = c /\ HalfSnapshot.last = l
    BY DEF HalfSnapshot, Snapshot
  <1>4. [c EXCEPT !["SAY_GOODBYE"] = count["SAY_GOODBYE"]] = count
    BY <1>2, Types DEF NoCounts, Commands, Greetings
  <1>5. [l EXCEPT !["SAY_GOODBYE"] = last["SAY_GOODBYE"]] = last
    BY <1>2, Types DEF NoTexts, Commands, Greetings
  <1>6. HalfSnapshot = Snapshot(c, l)
    BY DEF HalfSnapshot
  <1> HIDE DEF c, l
  <1>7. HalfSnapshot \in Results
    BY <1>1, <1>6, ResultValues
  <1>8. WithFarewell(HalfSnapshot) = Snapshot(count, last)
    BY <1>3, <1>4, <1>5 DEF WithFarewell
  <1>9. Snapshot(count, last) \in Results
    BY ResultValues, Types
  <1> QED
    BY <1>7, <1>8, <1>9

LEMMA AnswersKept ==
    ASSUME EInv, NEW r \in Requests,
           \/ server = "go" /\ (GoNumber(r) \/ ReadGreeting(r) \/ GoReadFarewell(r))
           \/ server = "python" /\ (ReadGreeting(r) \/ PyRefuse(r) \/ PyReturn(r) \/ PyReadFarewell(r))
    PROVE  EInv'
  <1>1. UNCHANGED <<server, count, last, readers, chain, doomed>> /\ server # "typescript"
    BY DEF GoNumber, ReadGreeting, GoReadFarewell, PyRefuse, PyReturn, PyReadFarewell,
           data, process, locks
  <1>2. /\ holder \in Requests \cup {Nobody} /\ readers \subseteq Requests
        /\ Nobody \notin Requests /\ (holder # Nobody => readers = {})
    BY Types DEF EInv, StateOK, ServersTypeOK
  <1>3. HalfSnapshot' = HalfSnapshot
    BY <1>1 DEF HalfSnapshot
  <1>4. \E to \in PcStates, res \in Results :
          /\ Moves(r, to, res)
          /\ holder' \in Requests \cup {Nobody}
          /\ holder' # Nobody => readers' = {}
          /\ \A q \in Requests \ {r} : holder' = q <=> holder = q
          /\ LockOK(r)' /\ RouteOK(r)' /\ ResultOK(r)'
    <2>1. CASE server = "go" /\ GoNumber(r)
      <3>1. /\ pc[r] = "counted" /\ Moves(r, "numbered", Numbered(count[Op[r]])) /\ holder' = holder
        BY <2>1 DEF GoNumber, Goto, Moves, locks
      <3>2. Numbered(count[Op[r]]) \in Results
        BY <3>1, Own, Types, ResultValues DEF RouteOK, Writing, Commands
      <3>3. pc'[r] = "numbered" /\ result'[r] = Numbered(count[Op[r]])
        BY <3>1, <3>2, MovedFields DEF PcStates
      <3>4. LockOK(r)' /\ RouteOK(r)' /\ ResultOK(r)'
        BY <1>1, <2>1, <3>1, <3>3, Own
           DEF LockOK, RouteOK, ResultOK, Writing, Reading, Waiting
      <3> QED
        BY <1>1, <1>2, <3>1, <3>2, <3>4 DEF PcStates
    <2>2. CASE ReadGreeting(r)
      <3>1. /\ pc[r] = "reading" /\ Moves(r, "halfread", HalfSnapshot) /\ holder' = holder
        BY <2>2 DEF ReadGreeting, Goto, Moves, locks, HalfSnapshot
      <3>2. HalfSnapshot \in Results
        BY <1>1, SnapshotComplete
      <3>3. pc'[r] = "halfread" /\ result'[r] = HalfSnapshot
        BY <3>1, <3>2, MovedFields DEF PcStates
      <3>4. LockOK(r)' /\ RouteOK(r)' /\ ResultOK(r)'
        BY <1>1, <1>3, <3>1, <3>3, Own
           DEF LockOK, RouteOK, ResultOK, Writing, Reading, Waiting
      <3> QED
        BY <1>1, <1>2, <3>1, <3>2, <3>4 DEF PcStates
    <2>3. CASE server = "go" /\ GoReadFarewell(r)
      <3>1. /\ pc[r] = "halfread" /\ Moves(r, "read", WithFarewell(result[r])) /\ holder' = holder
        BY <2>3, Types DEF GoReadFarewell, Goto, Moves, locks
      <3>2. WithFarewell(result[r]) \in Results
        BY <1>1, <3>1, Own, SnapshotComplete DEF ResultOK
      <3>3. pc'[r] = "read"
        BY <3>1, <3>2, MovedFields DEF PcStates
      <3>4. LockOK(r)' /\ RouteOK(r)' /\ ResultOK(r)'
        BY <1>1, <2>3, <3>1, <3>3, Own
           DEF LockOK, RouteOK, ResultOK, Writing, Reading, Waiting
      <3> QED
        BY <1>1, <1>2, <3>1, <3>2, <3>4 DEF PcStates
    <2>4. CASE server = "python" /\ (PyRefuse(r) \/ PyReturn(r) \/ PyReadFarewell(r))
      <3>1. /\ pc[r] \in {"locked", "set", "halfread"} /\ holder' = Nobody
            /\ \E res \in Results : Moves(r, "handled", res)
        <4>1. CASE PyRefuse(r)
          BY <4>1, ResultValues DEF PyRefuse, GivenBack, Goto, Moves
        <4>2. CASE PyReturn(r)
          <5>1. pc[r] = "set" /\ Moves(r, "handled", Numbered(count[Op[r]])) /\ holder' = Nobody
            BY <4>2 DEF PyReturn, Goto, Moves
          <5>2. Numbered(count[Op[r]]) \in Results
            BY <5>1, Own, Types, ResultValues DEF RouteOK, Writing, Commands
          <5> QED
            BY <5>1, <5>2
        <4>3. CASE PyReadFarewell(r)
          <5>1. pc[r] = "halfread" /\ Moves(r, "handled", WithFarewell(result[r])) /\ holder' = Nobody
            BY <4>3, Types DEF PyReadFarewell, Goto, Moves
          <5>2. WithFarewell(result[r]) \in Results
            BY <1>1, <5>1, Own, SnapshotComplete DEF ResultOK
          <5> QED
            BY <5>1, <5>2
        <4> QED
          BY <2>4, <4>1, <4>2, <4>3
      <3>2. PICK res \in Results : Moves(r, "handled", res)
        BY <3>1
      <3>3. pc'[r] = "handled" /\ holder = r
        BY <2>4, <3>1, <3>2, MovedFields, Own DEF PcStates, LockOK, Writing, Reading
      <3>4. LockOK(r)' /\ RouteOK(r)' /\ ResultOK(r)'
        BY <1>1, <1>2, <2>4, <3>1, <3>3, Own
           DEF LockOK, RouteOK, ResultOK, Writing, Reading, Waiting
      <3> QED
        BY <1>1, <1>2, <3>1, <3>2, <3>3, <3>4 DEF PcStates
    <2> QED
      BY <2>1, <2>2, <2>3, <2>4
  <1>5. ChainOK'
    BY <1>1, ChainEmpty
  <1>6. doomed' \in BOOLEAN /\ ~doomed'
    BY <1>1, Types DEF EInv, StateOK
  <1> QED
    BY <1>1, <1>2, <1>4, <1>5, <1>6, StepKept

\* The two writes: whoever makes them is alone inside the lock.
LEMMA WritesKept ==
    ASSUME EInv, NEW r \in Requests,
           \/ server = "go" /\ (Count(r) \/ SetLast(r, "numbered"))
           \/ server = "python" /\ ((PySucceeds(r) /\ Count(r)) \/ SetLast(r, "counted"))
    PROVE  EInv'
  <1>1. UNCHANGED <<server, result, holder, readers, chain, doomed>> /\ server # "typescript"
    BY DEF Count, SetLast, locks, process
  <1>2. PICK from \in PcStates, to \in PcStates : Goto(r, from, to)
    BY DEF Count, SetLast, PcStates
  <1>3. Moves(r, to, result[r]) /\ result[r] \in Results
    BY <1>1, <1>2, SameResult
  <1>4. pc[r] = from /\ pc'[r] = to /\ result'[r] = result[r]
    BY <1>2, <1>3, MovedFields DEF Goto
  <1>5. pc[r] \in {"locked", "counted", "numbered"} /\ pc'[r] \in {"counted", "set"}
    BY <1>3, <1>4, Types DEF Count, SetLast, Goto
  <1>6. holder = r /\ Op[r] \in Greetings /\ readers = {}
    BY <1>5, Own, Types DEF LockOK, RouteOK, Writing, EInv, StateOK, ServersTypeOK
  <1>7. /\ count' \in [Commands -> Nat] /\ last' \in [Commands -> Texts]
        /\ count'["AUTH"] = 0 /\ last'["AUTH"] = NoText
    <2>1. count["AUTH"] = 0 /\ last["AUTH"] = NoText
      BY <1>1 DEF EInv, StateOK
    <2>2. Op[r] \in Commands /\ Op[r] # "AUTH" /\ Text[r] \in Texts
      BY <1>6 DEF Commands, Greetings, Texts
    <2>3. CASE Count(r)
      <3>1. count' = [count EXCEPT ![Op[r]] = @ + 1] /\ last' = last
        BY <2>3 DEF Count
      <3> QED
        BY <2>1, <2>2, <3>1, Types
    <2>4. CASE \E f \in {"numbered", "counted"} : SetLast(r, f)
      <3>1. last' = [last EXCEPT ![Op[r]] = Text[r]] /\ count' = count
        BY <2>4 DEF SetLast
      <3> QED
        BY <2>1, <2>2, <3>1, Types DEF Commands
    <2> QED
      BY <2>3, <2>4
  <1>8. StateOK'
    <2>1. pc' \in [Requests -> PcStates] /\ result' \in [Requests -> Results]
      BY <1>3, MovedFields
    <2> QED
      BY <1>1, <1>7, <2>1, Types DEF StateOK, EInv, ServersTypeOK, PcStates
  <1>9. \A q \in Requests \ {r} : LockOK(q)' /\ RouteOK(q)' /\ ResultOK(q)'
    <2> SUFFICES ASSUME NEW q \in Requests \ {r}
                 PROVE  LockOK(q)' /\ RouteOK(q)' /\ ResultOK(q)'
      OBVIOUS
    <2>1. pc'[q] = pc[q] /\ result'[q] = result[q]
      BY <1>3, MovedFields
    <2>2. LockOK(q) /\ RouteOK(q) /\ ResultOK(q)
      BY Own
    <2>3. pc[q] \notin Writing \cup Reading
      BY <1>1, <1>6, <2>2, Types DEF LockOK, Servers
    <2> QED
      BY <1>1, <2>1, <2>2, <2>3 DEF LockOK, RouteOK, ResultOK, Writing, Reading
  <1>10. LockOK(r)' /\ RouteOK(r)' /\ ResultOK(r)'
    <2>1. CASE Count(r)
      <3>1. pc[r] = "locked" /\ pc'[r] = "counted" /\ count'[Op[r]] = count[Op[r]] + 1
        BY <1>4, <1>6, <2>1, Types DEF Count, Goto, Commands
      <3>2. r \notin Refused
        BY <3>1, Own, <1>1 DEF RouteOK, PySucceeds, SetLast, Goto
      <3> QED
        BY <1>1, <1>4, <1>6, <3>1, <3>2, Own, Types
           DEF LockOK, RouteOK, ResultOK, Writing, Reading, Waiting, Commands
    <2>2. CASE \E f \in {"numbered", "counted"} : SetLast(r, f)
      <3>1. pc[r] \in {"numbered", "counted"} /\ pc'[r] = "set" /\ count' = count
        BY <1>4, <2>2, Types DEF SetLast, Goto
      <3>2. server = "go" => pc[r] = "numbered"
        BY <3>1, <1>4 DEF SetLast, Goto, Count
      <3> QED
        BY <1>1, <1>4, <1>6, <3>1, <3>2, Own
           DEF LockOK, RouteOK, ResultOK, Writing, Reading, Waiting
    <2> QED
      BY <2>1, <2>2
  <1> QED
    BY <1>1, <1>8, <1>9, <1>10, ChainEmpty DEF EInv

LEMMA TsKept ==
    ASSUME EInv, NEW r \in Requests, server = "typescript",
           TsReport(r) \/ TsBegin(r) \/ TsThrow(r)
    PROVE  EInv'
  <1>1. UNCHANGED <<server, count, last, holder, readers, chain>> /\ doomed' \in BOOLEAN
    BY Types DEF TsReport, TsBegin, TsThrow, data, process, locks
  <1>2. \E to \in {"awaiting", "handled", "lost"}, res \in Results :
          /\ Moves(r, to, res) /\ res.status # "ok"
          /\ to # "handled" => res = NoResult
          /\ to = "awaiting" => Op[r] = "AUTH"
    <2>1. CASE TsReport(r)
      BY <2>1, ResultValues, Types DEF TsReport, Goto, Moves
    <2>2. CASE TsBegin(r) \/ TsThrow(r)
      <3>1. /\ result[r] = NoResult
            /\ \E to \in {"awaiting", "lost"} : Moves(r, to, result[r]) /\ (to = "awaiting" => Op[r] = "AUTH")
        BY <2>2, Own, SameResult DEF TsBegin, TsThrow, Goto, ResultOK
      <3> QED
        BY <3>1, ResultValues
    <2> QED
      BY <2>1, <2>2
  <1>3. PICK to \in {"awaiting", "handled", "lost"}, res \in Results :
          /\ Moves(r, to, res) /\ res.status # "ok"
          /\ to # "handled" => res = NoResult
          /\ to = "awaiting" => Op[r] = "AUTH"
    BY <1>2
  <1>4. pc'[r] = to /\ result'[r] = res /\ to \in PcStates
    BY <1>3, MovedFields DEF PcStates
  <1>5. /\ Op[r] \in Commands \cup {"STATE"}
        /\ pc[r] = "awaiting" \/ (pc[r] = "queued" /\ PreviousSettled(r))
    BY Own DEF TsReport, TsBegin, TsThrow, Goto, Commands, RouteOK
  <1>6. LockOK(r)' /\ RouteOK(r)' /\ ResultOK(r)'
    BY <1>1, <1>3, <1>4, <1>5, Own
       DEF LockOK, RouteOK, ResultOK, Writing, Reading, Waiting
  <1>7. ChainOK'
    BY <1>1, <1>3, <1>5, ChainRuns
  <1> QED
    BY <1>1, <1>3, <1>4, <1>6, <1>7, StepKept, Types DEF EInv, StateOK, ServersTypeOK

LEMMA EnqueueKept ==
    ASSUME EInv, NEW r \in Requests, server = "typescript", TsEnqueue(r)
    PROVE  EInv'
  <1>1. /\ UNCHANGED <<server, result, count, last, holder, readers, doomed>>
        /\ pc[r] = "called" /\ Goto(r, "called", "queued") /\ chain' = Append(chain, r)
    BY DEF TsEnqueue, data, locks, Goto
  <1>2. Moves(r, "queued", result[r]) /\ result[r] \in Results
    BY <1>1, SameResult
  <1>3. pc'[r] = "queued" /\ result'[r] = result[r] /\ "queued" \in PcStates
    BY <1>2, MovedFields DEF PcStates
  <1>4. LockOK(r)' /\ RouteOK(r)' /\ ResultOK(r)'
    BY <1>1, <1>3, Own DEF LockOK, RouteOK, ResultOK, Writing, Reading, Waiting
  <1>5. ChainOK'
    BY <1>1, <1>2, ChainGrows
  <1>6. chain' \in Seq(Requests)
    BY <1>1, Types
  <1>7. StateOK'
    <2>1. pc' \in [Requests -> PcStates] /\ result' \in [Requests -> Results]
      BY <1>2, <1>3, MovedFields
    <2> QED
      BY <1>1, <1>6, <2>1, Types DEF StateOK, EInv, ServersTypeOK, PcStates
  <1>8. \A q \in Requests \ {r} : LockOK(q)' /\ RouteOK(q)' /\ ResultOK(q)'
    BY <1>1, <1>2, <1>3, OthersKept
  <1> QED
    BY <1>4, <1>5, <1>7, <1>8 DEF EInv

\* The handlers that count, in TypeScript.
LEMMA EffectKept ==
    ASSUME EInv, NEW r \in Requests, server = "typescript", TsGreet(r) \/ TsResume(r)
    PROVE  EInv'
  <1>1. /\ UNCHANGED <<server, holder, readers, chain, doomed>>
        /\ pc' = [pc EXCEPT ![r] = "handled"]
        /\ pc[r] = "awaiting" \/ (pc[r] = "queued" /\ PreviousSettled(r))
        /\ Effect(r)
    BY DEF TsGreet, TsResume, locks, process, Goto
  <1>2. Op[r] \in Commands
    BY Own DEF TsGreet, TsResume, Goto, RouteOK, Commands
  <1>3. CASE r \in Refused
    <2>1. Moves(r, "handled", Error) /\ UNCHANGED <<count, last>>
      BY <1>1, <1>3 DEF Effect, Moves, data
    <2>2. pc'[r] = "handled" /\ result'[r] = Error /\ "handled" \in PcStates
      BY <2>1, MovedFields, ResultValues DEF PcStates
    <2>3. LockOK(r)' /\ RouteOK(r)' /\ ResultOK(r)'
      BY <1>1, <2>2, Own DEF LockOK, RouteOK, ResultOK, Writing, Reading, Waiting
    <2>4. ChainOK'
      BY <1>1, <1>2, <2>1, ChainRuns, ResultValues
    <2> QED
      BY <1>1, <2>1, <2>2, <2>3, <2>4, StepKept, ResultValues, Types
         DEF EInv, StateOK, ServersTypeOK
  <1>4. CASE r \notin Refused
    <2> DEFINE res == Numbered(count[Op[r]] + 1)
    <2>1. /\ Moves(r, "handled", res)
          /\ count' = [count EXCEPT ![Op[r]] = @ + 1]
          /\ last' = [last EXCEPT ![Op[r]] = Text[r]]
      BY <1>1, <1>4 DEF Effect, Moves
    <2>2. res \in Results
      BY <1>2, Types, ResultValues
    <2>3. /\ pc'[r] = "handled" /\ pc' \in [Requests -> PcStates] /\ result' \in [Requests -> Results]
          /\ \A q \in Requests \ {r} : pc'[q] = pc[q] /\ result'[q] = result[q]
      BY <2>1, <2>2, MovedFields DEF PcStates
    <2>4. ChainOK'
      BY <1>1, <1>2, <2>1, <2>2, ChainRuns
    <2> HIDE DEF res
    <2>5. count' \in [Commands -> Nat] /\ last' \in [Commands -> Texts]
      BY <1>2, <2>1, Types DEF Texts
    <2>6. StateOK'
      BY <1>1, <2>3, <2>5, Types DEF StateOK, EInv, ServersTypeOK, PcStates
    <2>7. LockOK(r)' /\ RouteOK(r)' /\ ResultOK(r)'
      BY <1>1, <2>3, Own DEF LockOK, RouteOK, ResultOK, Writing, Reading, Waiting
    <2>8. \A q \in Requests \ {r} : LockOK(q)' /\ RouteOK(q)' /\ ResultOK(q)'
      <3> SUFFICES ASSUME NEW q \in Requests \ {r}
                   PROVE  LockOK(q)' /\ RouteOK(q)' /\ ResultOK(q)'
        OBVIOUS
      <3>1. pc'[q] = pc[q] /\ result'[q] = result[q]
        BY <2>3
      <3>2. LockOK(q) /\ RouteOK(q) /\ ResultOK(q)
        BY Own
      <3>3. pc[q] \notin Writing \cup Reading
        BY <3>2 DEF LockOK
      <3> QED
        BY <1>1, <3>1, <3>2, <3>3 DEF LockOK, RouteOK, ResultOK, Writing, Reading
    <2> QED
      BY <2>4, <2>6, <2>7, <2>8 DEF EInv
  <1> QED
    BY <1>3, <1>4

\* The process ends: nothing is kept but the answers that were given.
LEMMA DieKept ==
    ASSUME EInv, TsDie
    PROVE  EInv'
  <1>1. /\ doomed
        /\ pc' = [r \in Requests |->
                    IF pc[r] \in {"called", "queued", "awaiting", "handled"} THEN "lost" ELSE pc[r]]
        /\ count' = NoCounts /\ last' = NoTexts /\ chain' = <<>> /\ doomed' = FALSE
        /\ UNCHANGED <<server, result, holder, readers>>
    BY DEF TsDie, locks
  <1>2. server = "typescript"
    BY <1>1 DEF EInv, StateOK
  <1>3. StateOK'
    <2>1. pc' \in [Requests -> PcStates]
      BY <1>1, Types DEF PcStates
    <2>2. count' \in [Commands -> Nat] /\ last' \in [Commands -> Texts]
      BY <1>1 DEF NoCounts, NoTexts, Texts
    <2>3. chain' \in Seq(Requests)
      BY <1>1
    <2> QED
      BY <1>1, <1>2, <2>1, <2>2, <2>3, Types DEF StateOK, EInv, ServersTypeOK, PcStates
  <1>4. \A r \in Requests : LockOK(r)' /\ RouteOK(r)' /\ ResultOK(r)'
    <2> SUFFICES ASSUME NEW r \in Requests
                 PROVE  LockOK(r)' /\ RouteOK(r)' /\ ResultOK(r)'
      OBVIOUS
    <2>1. pc[r] \in PcStates /\ pc[r] \notin Writing \cup Reading
      BY <1>2, Own, Types DEF LockOK
    <2>2. pc'[r] \in {"new", "lost", "answered"} /\ (pc'[r] = "new" => pc[r] = "new")
      BY <1>1, <2>1 DEF PcStates, Writing, Reading
    <2> QED
      BY <1>1, <1>2, <2>1, <2>2, Own DEF LockOK, RouteOK, ResultOK, Writing, Reading, Waiting
  <1>5. ChainOK'
    BY <1>1 DEF ChainOK, NumberedInOrder
  <1> QED
    BY <1>3, <1>4, <1>5 DEF EInv

LEMMA InitEInv == Init => EInv
  <1> SUFFICES ASSUME Init PROVE EInv
    OBVIOUS
  <1>1. StateOK
    <2>1. count \in [Commands -> Nat] /\ last \in [Commands -> Texts]
      BY DEF Init, NoCounts, NoTexts, Texts
    <2>2. count["AUTH"] = 0 /\ last["AUTH"] = NoText
      BY DEF Init, NoCounts, NoTexts, Commands
    <2>3. result \in [Requests -> Results]
      BY ResultValues DEF Init
    <2>4. ServersTypeOK
      <3>1. pc \in [Requests -> PcStates]
        BY DEF Init, PcStates
      <3>2. chain \in Seq(Requests)
        BY DEF Init
      <3> QED
        BY <2>1, <3>1, <3>2 DEF Init, ServersTypeOK, PcStates
    <2> QED
      BY <2>1, <2>2, <2>3, <2>4 DEF Init, StateOK
  <1>2. \A r \in Requests : LockOK(r) /\ RouteOK(r) /\ ResultOK(r)
    BY ServersAssumption DEF Init, LockOK, RouteOK, ResultOK, Writing, Reading, Waiting
  <1>3. ChainOK
    BY DEF Init, ChainOK, NumberedInOrder
  <1> QED
    BY <1>1, <1>2, <1>3 DEF EInv

LEMMA NextEInv == EInv /\ [Next]_vars => EInv'
  <1> SUFFICES ASSUME EInv, [Next]_vars PROVE EInv'
    OBVIOUS
  <1>1. CASE TsDie
    BY <1>1, DieKept
  <1>2. ASSUME NEW r \in Requests, Call(r) \/ Step(r) PROVE EInv'
    BY <1>2, AsideKept, LocksKept, AnswersKept, WritesKept, TsKept, EnqueueKept, EffectKept
       DEF Step, GoStep, PyStep, TsStep
  <1>3. CASE UNCHANGED vars
    <2>1. UNCHANGED <<server, pc, result, count, last, holder, readers, chain, doomed>>
      BY <1>3 DEF vars, data, locks, process
    <2>2. StateOK'
      BY <2>1 DEF EInv, StateOK, ServersTypeOK
    <2>4. ChainOK'
      BY <2>1, Zenon DEF EInv, ChainOK, NumberedInOrder
    <2>3. \A r \in Requests : LockOK(r)' /\ RouteOK(r)' /\ ResultOK(r)'
      BY <2>1 DEF EInv, LockOK, RouteOK, ResultOK, HalfSnapshot
    <2> QED
      BY <2>2, <2>3, <2>4 DEF EInv
  <1> QED
    BY <1>1, <1>2, <1>3 DEF Next

\* The invariant holds of every server.
THEOREM ServersInvariance == Spec => []EInv
  BY InitEInv, NextEInv, PTL DEF Spec

\* The servers stay within what their code can set; in particular nobody is
\* inside Go's lock for writing while somebody is inside for reading.
THEOREM ServersTypes == Spec => []ServersTypeOK
  <1>1. EInv => ServersTypeOK
    BY DEF EInv, StateOK
  <1> QED
    BY <1>1, ServersInvariance, PTL

\* The TypeScript server numbers the requests it serves in the order in which it
\* took them in.
THEOREM NumberedInOrderHolds == Spec => []NumberedInOrder
  <1>1. EInv => NumberedInOrder
    BY DEF EInv, ChainOK
  <1> QED
    BY <1>1, ServersInvariance, PTL

------------------------------------------------------------------------------
(* Every server implements ExtensionService *)

PhaseAt(at) ==
    IF at \in {"queued", "awaiting", "locked", "counted", "numbered", "reading", "halfread"}
    THEN "called"
    ELSE IF at \in {"set", "read"} THEN "handled" ELSE at

\* What Service is given for its variables.
servicePhase == [r \in Requests |-> Phase(r)]
serviceResult ==
    [r \in Requests |->
        IF Phase(r) \in {"new", "called"} THEN NoResult
        ELSE IF pc[r] = "set" THEN Numbered(count[Op[r]]) ELSE result[r]]
serviceCount ==
    [c \in Commands |->
        IF holder # Nobody /\ pc[holder] \in {"counted", "numbered"} /\ Op[holder] = c
        THEN count[c] - 1 ELSE count[c]]

LEMMA PhaseMoved ==
    ASSUME EInv, NEW r \in Requests, NEW to \in PcStates, NEW res \in Results, Moves(r, to, res),
           \A q \in Requests \ {r} : pc[q] = "set" => count'[Op[q]] = count[Op[q]]
    PROVE  /\ servicePhase[r] = PhaseAt(pc[r])
           /\ servicePhase' = [servicePhase EXCEPT ![r] = PhaseAt(to)]
           /\ serviceResult' =
                [serviceResult EXCEPT ![r] =
                   IF PhaseAt(to) \in {"new", "called"} THEN NoResult
                   ELSE IF to = "set" THEN Numbered(count'[Op[r]]) ELSE res]
  <1>1. \A q \in Requests : Phase(q) = PhaseAt(pc[q]) /\ Phase(q)' = PhaseAt(pc'[q])
    BY DEF Phase, PhaseAt
  <1>2. /\ pc'[r] = to /\ result'[r] = res
        /\ \A q \in Requests \ {r} : pc'[q] = pc[q] /\ result'[q] = result[q]
    BY MovedFields
  <1> HIDE DEF PhaseAt
  <1>3. servicePhase' = [servicePhase EXCEPT ![r] = PhaseAt(to)]
    BY <1>1, <1>2 DEF servicePhase
  <1>4. \A q \in Requests \ {r} : serviceResult'[q] = serviceResult[q]
    BY <1>1, <1>2 DEF serviceResult, Numbered
  <1>5. serviceResult'[r] = IF PhaseAt(to) \in {"new", "called"} THEN NoResult
                            ELSE IF to = "set" THEN Numbered(count'[Op[r]]) ELSE res
    BY <1>1, <1>2 DEF serviceResult, NoResult, Numbered
  <1>6. serviceResult' = [q \in Requests |-> serviceResult'[q]] /\ serviceResult = [q \in Requests |-> serviceResult[q]]
    BY DEF serviceResult
  <1> DEFINE new == IF PhaseAt(to) \in {"new", "called"} THEN NoResult
                    ELSE IF to = "set" THEN Numbered(count'[Op[r]]) ELSE res
  <1> HIDE DEF new, serviceResult
  <1>7. serviceResult' = [serviceResult EXCEPT ![r] = new]
    BY <1>4, <1>5, <1>6 DEF new
  <1> QED
    BY <1>1, <1>3, <1>7 DEF new, servicePhase

LEMMA ServiceSame ==
    ASSUME UNCHANGED <<server, last>>,
           servicePhase' = servicePhase, serviceResult' = serviceResult, serviceCount' = serviceCount
    PROVE  UNCHANGED Service!service
  <1>1. Table' = Table
    BY DEF Table
  <1> QED
    BY <1>1 DEF Service!service, servicePhase, serviceResult, serviceCount

LEMMA ServiceFinish ==
    ASSUME NEW r \in Requests, NEW answer, UNCHANGED server,
           servicePhase[r] = "called", servicePhase' = [servicePhase EXCEPT ![r] = "handled"],
           serviceResult' = [serviceResult EXCEPT ![r] = answer]
    PROVE  Service!Finish(r, answer)
  <1>1. Table' = Table
    BY DEF Table
  <1> QED
    BY <1>1 DEF Service!Finish, servicePhase, serviceResult

LEMMA ServiceApply ==
    ASSUME NEW r \in Requests, UNCHANGED server, Op[r] \in Table, r \notin Refused,
           servicePhase[r] = "called", servicePhase' = [servicePhase EXCEPT ![r] = "handled"],
           serviceResult' = [serviceResult EXCEPT ![r] = Numbered(serviceCount[Op[r]] + 1)],
           serviceCount' = [serviceCount EXCEPT ![Op[r]] = @ + 1],
           last' = [last EXCEPT ![Op[r]] = Text[r]]
    PROVE  Service!Next
  <1>1. Table' = Table
    BY DEF Table
  <1>2. Service!Apply(r)
    BY <1>1 DEF Service!Apply, Service!Finish, Service!Numbered, Numbered,
                servicePhase, serviceResult, serviceCount
  <1> QED
    BY <1>2 DEF Service!Next

LEMMA ServiceDecline ==
    ASSUME NEW r \in Requests, UNCHANGED <<server, last>>, NEW answer,
           \/ Op[r] \notin Table \cup {"STATE"} /\ answer = Unsupported
           \/ Op[r] \in Table /\ r \in Refused /\ answer = Error,
           servicePhase[r] = "called", servicePhase' = [servicePhase EXCEPT ![r] = "handled"],
           serviceResult' = [serviceResult EXCEPT ![r] = answer],
           serviceCount' = serviceCount
    PROVE  Service!Next
  <1>1. Service!Finish(r, answer)
    BY ServiceFinish
  <1>2. Service!Decline(r)
    BY <1>1 DEF Service!Decline, Service!Unsupported, Service!Error, Unsupported, Error, serviceCount
  <1> QED
    BY <1>2 DEF Service!Next

LEMMA ServiceRead ==
    ASSUME NEW r \in Requests, UNCHANGED <<server, last>>, Op[r] = "STATE",
           servicePhase[r] = "called", servicePhase' = [servicePhase EXCEPT ![r] = "handled"],
           serviceResult' = [serviceResult EXCEPT ![r] = Snapshot(serviceCount, last)],
           serviceCount' = serviceCount
    PROVE  Service!Next
  <1>1. Table' = Table
    BY DEF Table
  <1>2. Service!Read(r)
    BY <1>1 DEF Service!Read, Service!Finish, Service!Snapshot, Snapshot,
                servicePhase, serviceResult, serviceCount
  <1> QED
    BY <1>2 DEF Service!Next

\* A request comes in, is answered, or is lost.
LEMMA ServicePasses ==
    ASSUME NEW r \in Requests, UNCHANGED <<server, last>>, NEW from, NEW to,
           \/ from = "new" /\ to = "called"
           \/ from = "handled" /\ to = "answered"
           \/ from = "called" /\ to = "lost",
           servicePhase[r] = from, servicePhase' = [servicePhase EXCEPT ![r] = to],
           serviceResult' = serviceResult, serviceCount' = serviceCount
    PROVE  Service!Next
  <1>1. Table' = Table
    BY DEF Table
  <1>2. Service!Call(r) \/ Service!Answer(r) \/ Service!Fail(r)
    BY <1>1 DEF Service!Call, Service!Answer, Service!Fail, servicePhase, serviceResult, serviceCount
  <1> QED
    BY <1>2 DEF Service!Next

\* While nobody is between the counter and the text, the counters are exact.
LEMMA CountExact ==
    ASSUME EInv, holder = Nobody \/ pc[holder] \notin {"counted", "numbered"}
    PROVE  serviceCount = count
  BY Types DEF serviceCount

LEMMA CountExactNext ==
    ASSUME EInv', holder' = Nobody \/ pc'[holder'] \notin {"counted", "numbered"}
    PROVE  serviceCount' = count'
  <1>1. count' \in [Commands -> Nat]
    BY DEF EInv, StateOK, ServersTypeOK
  <1> QED
    BY <1>1 DEF serviceCount

LEMMA CountKept ==
    ASSUME EInv, NEW r \in Requests, NEW to \in PcStates, NEW res \in Results, Moves(r, to, res),
           UNCHANGED <<count, holder>>,
           pc[r] \in {"counted", "numbered"} <=> to \in {"counted", "numbered"}
    PROVE  serviceCount' = serviceCount
  <1>1. /\ pc'[r] = to
        /\ \A q \in Requests \ {r} : pc'[q] = pc[q]
    BY MovedFields
  <1>2. holder \in Requests => (pc'[holder] \in {"counted", "numbered"} <=> pc[holder] \in {"counted", "numbered"})
    BY <1>1
  <1> QED
    BY <1>2, Types DEF serviceCount

LEMMA AsideMaps ==
    ASSUME EInv, NEW r \in Requests,
           Call(r) \/ Reject(r) \/ Answer(r) \/ (server = "go" /\ GoRefuse(r))
    PROVE  Service!Next
  <1>1. UNCHANGED <<server, count, last, holder>>
    BY DEF Call, Reject, Answer, GoRefuse, data, locks
  <1>2. CASE Call(r) \/ Answer(r)
    <2>1. PICK from \in PcStates, to \in PcStates :
            /\ Goto(r, from, to)
            /\ \/ from = "new" /\ to = "called"
               \/ from = "handled" /\ to = "answered"
      BY <1>2 DEF Call, Answer, PcStates
    <2>2. UNCHANGED result
      BY <1>2 DEF Call, Answer
    <2>3. Moves(r, to, result[r]) /\ result[r] \in Results /\ pc[r] = from
      BY <1>1, <2>1, <2>2, SameResult DEF Goto
    <2>4. /\ servicePhase[r] = from
          /\ servicePhase' = [servicePhase EXCEPT ![r] = to]
          /\ serviceResult' = [serviceResult EXCEPT ![r] = IF to = "called" THEN NoResult ELSE result[r]]
      BY <1>1, <2>1, <2>3, PhaseMoved DEF PhaseAt
    <2>5. serviceResult[r] = IF to = "called" THEN NoResult ELSE result[r]
      BY <2>1, <2>3 DEF serviceResult, Phase
    <2>6. serviceResult' = serviceResult
      <3>1. serviceResult = [serviceResult EXCEPT ![r] = serviceResult[r]]
        BY DEF serviceResult
      <3> QED
        BY <2>4, <2>5, <3>1
    <2>7. serviceCount' = serviceCount
      BY <1>1, <2>1, <2>3, CountKept
    <2> QED
      BY <1>1, <2>1, <2>4, <2>6, <2>7, ServicePasses
  <1>3. CASE Reject(r) \/ GoRefuse(r)
    <2>1. PICK res \in Results :
            /\ Moves(r, "handled", res) /\ pc[r] = "called"
            /\ \/ Op[r] \notin Table \cup {"STATE"} /\ res = Unsupported
               \/ Op[r] \in Table /\ r \in Refused /\ res = Error
      BY <1>3, ResultValues DEF Reject, GoRefuse, Goto, Moves
    <2>2. /\ servicePhase[r] = "called"
          /\ servicePhase' = [servicePhase EXCEPT ![r] = "handled"]
          /\ serviceResult' = [serviceResult EXCEPT ![r] = res]
      BY <1>1, <2>1, PhaseMoved DEF PhaseAt, PcStates
    <2>3. serviceCount' = serviceCount
      BY <1>1, <2>1, CountKept DEF PcStates
    <2> QED
      BY <1>1, <2>1, <2>2, <2>3, ServiceDecline
  <1> QED
    BY <1>2, <1>3

\* Steps of Go and Python that nobody outside sees.
LEMMA HiddenMaps ==
    ASSUME EInv, NEW r \in Requests,
           \/ server = "go" /\ (\/ GoLock(r) \/ GoNumber(r) \/ GoUnlock(r)
                               \/ GoRLock(r) \/ ReadGreeting(r) \/ GoRUnlock(r))
           \/ server = "python" /\ (PyLock(r) \/ PyReturn(r) \/ ReadGreeting(r))
    PROVE  UNCHANGED Service!service
  <1>1. UNCHANGED <<server, count, last>> /\ server # "typescript"
    BY DEF GoLock, GoNumber, GoUnlock, GoRLock, ReadGreeting, GoRUnlock, PyLock, PyReturn, data
  <1>2. \E to \in PcStates, res \in Results :
          /\ Moves(r, to, res)
          /\ PhaseAt(to) = PhaseAt(pc[r])
          /\ PhaseAt(to) = "handled" /\ pc[r] # "set" => res = result[r]
          /\ pc[r] = "set" => res = Numbered(count[Op[r]])
          /\ to # "set" /\ PhaseAt(pc[r]) \in {"called", "handled"}
    <2>1. CASE GoNumber(r) \/ ReadGreeting(r)
      <3>1. CASE GoNumber(r)
        <4>1. pc[r] = "counted" /\ Moves(r, "numbered", Numbered(count[Op[r]]))
          BY <3>1 DEF GoNumber, Goto, Moves
        <4>2. Numbered(count[Op[r]]) \in Results
          BY <4>1, Own, Types, ResultValues DEF RouteOK, Writing, Commands
        <4> QED
          BY <4>1, <4>2 DEF PhaseAt, PcStates
      <3>2. CASE ReadGreeting(r)
        <4>1. pc[r] = "reading" /\ Moves(r, "halfread", HalfSnapshot)
          BY <3>2 DEF ReadGreeting, Goto, Moves, HalfSnapshot
        <4>2. HalfSnapshot \in Results
          BY <1>1, SnapshotComplete
        <4> QED
          BY <4>1, <4>2 DEF PhaseAt, PcStates
      <3> QED
        BY <2>1, <3>1, <3>2
    <2>2. CASE server = "python" /\ PyReturn(r)
      <3>1. pc[r] = "set" /\ Moves(r, "handled", Numbered(count[Op[r]]))
        BY <2>2 DEF PyReturn, Goto, Moves
      <3>2. Numbered(count[Op[r]]) \in Results
        BY <3>1, Own, Types, ResultValues DEF RouteOK, Writing, Commands
      <3> QED
        BY <3>1, <3>2 DEF PhaseAt, PcStates
    <2>3. CASE server = "go" /\ GoUnlock(r)
      <3>1. pc[r] = "set" /\ Moves(r, "handled", result[r]) /\ result[r] \in Results
        BY <2>3, SameResult DEF GoUnlock, Goto
      <3>2. result[r] = Numbered(count[Op[r]])
        BY <2>3, <3>1, Own DEF ResultOK
      <3> QED
        BY <3>1, <3>2 DEF PhaseAt, PcStates
    <2>4. CASE GoLock(r) \/ GoRLock(r) \/ GoRUnlock(r) \/ PyLock(r)
      <3>1. UNCHANGED <<server, result>>
        BY <2>4 DEF GoLock, GoRLock, GoRUnlock, PyLock
      <3>2. PICK from \in PcStates, to \in PcStates :
              Goto(r, from, to) /\ <<from, to>> \in {<<"called", "locked">>, <<"called", "reading">>,
                                                   <<"read", "handled">>}
        BY <2>4 DEF GoLock, GoRLock, GoRUnlock, PyLock, PcStates
      <3>3. Moves(r, to, result[r]) /\ result[r] \in Results /\ pc[r] = from
        BY <3>1, <3>2, SameResult DEF Goto
      <3> QED
        BY <3>2, <3>3 DEF PhaseAt
    <2> QED
      BY <2>1, <2>2, <2>3, <2>4
  <1>3. PICK to \in PcStates, res \in Results :
          /\ Moves(r, to, res)
          /\ PhaseAt(to) = PhaseAt(pc[r])
          /\ PhaseAt(to) = "handled" /\ pc[r] # "set" => res = result[r]
          /\ pc[r] = "set" => res = Numbered(count[Op[r]])
          /\ to # "set" /\ PhaseAt(pc[r]) \in {"called", "handled"}
    BY <1>2
  <1>4. /\ servicePhase[r] = PhaseAt(pc[r])
        /\ servicePhase' = [servicePhase EXCEPT ![r] = PhaseAt(to)]
        /\ serviceResult' = [serviceResult EXCEPT ![r] = IF PhaseAt(to) \in {"new", "called"} THEN NoResult ELSE res]
    BY <1>1, <1>3, PhaseMoved
  <1>5. serviceResult[r] = IF PhaseAt(to) \in {"new", "called"} THEN NoResult ELSE res
    BY <1>3 DEF serviceResult, Phase, PhaseAt
  <1>6. servicePhase' = servicePhase /\ serviceResult' = serviceResult
    <2>1. servicePhase = [servicePhase EXCEPT ![r] = PhaseAt(to)]
      BY <1>3, <1>4 DEF servicePhase
    <2>2. serviceResult = [serviceResult EXCEPT ![r] = serviceResult[r]]
      BY DEF serviceResult
    <2> QED
      BY <1>4, <1>5, <2>1, <2>2
  <1>7. serviceCount' = serviceCount
    <2>1. CASE GoNumber(r) \/ ReadGreeting(r)
      <3>1. UNCHANGED holder /\ (pc[r] \in {"counted", "numbered"} <=> to \in {"counted", "numbered"})
        BY <1>3, <2>1, MovedFields, Types DEF GoNumber, ReadGreeting, Goto, locks
      <3> QED
        BY <1>1, <1>3, <3>1, CountKept
    <2>2. CASE GoRLock(r) \/ GoRUnlock(r)
      <3>1. UNCHANGED holder /\ (pc[r] \in {"counted", "numbered"} <=> to \in {"counted", "numbered"})
        BY <1>3, <2>2, MovedFields, Types DEF GoRLock, GoRUnlock, Goto, locks
      <3> QED
        BY <1>1, <1>3, <3>1, CountKept
    <2>3. CASE \/ server = "go" /\ (GoLock(r) \/ GoUnlock(r))
               \/ server = "python" /\ (PyLock(r) \/ PyReturn(r))
      <3>1. EInv'
        BY <2>3, LocksKept, AnswersKept
      <3>2. holder = Nobody \/ pc[holder] \notin {"counted", "numbered"}
        BY <2>3, Own DEF GoLock, GoUnlock, PyLock, PyReturn, MuFree, Goto, LockOK, Writing
      <3>3. holder' = Nobody \/ (holder' = r /\ pc'[r] \notin {"counted", "numbered"})
        BY <1>3, <2>3, Types DEF GoLock, GoUnlock, PyLock, PyReturn, Goto
      <3> QED
        BY <1>1, <3>1, <3>2, <3>3, CountExact, CountExactNext
    <2> QED
      BY <2>1, <2>2, <2>3
  <1> QED
    BY <1>1, <1>6, <1>7, ServiceSame

\* The counter runs ahead of the text, and the text is when the command counts.
LEMMA WritesMap ==
    ASSUME EInv, NEW r \in Requests,
           \/ server = "go" /\ (Count(r) \/ SetLast(r, "numbered"))
           \/ server = "python" /\ ((PySucceeds(r) /\ Count(r)) \/ SetLast(r, "counted"))
    PROVE  Service!Next \/ UNCHANGED Service!service
  <1>1. UNCHANGED <<server, result, holder>> /\ server # "typescript"
    BY DEF Count, SetLast, locks
  <1>2. EInv'
    BY WritesKept
  <1>3. PICK from \in PcStates, to \in PcStates : Goto(r, from, to)
    BY DEF Count, SetLast, PcStates
  <1>4. Moves(r, to, result[r]) /\ result[r] \in Results
    BY <1>1, <1>3, SameResult
  <1>5. pc[r] = from /\ pc'[r] = to
    BY <1>3, <1>4, MovedFields DEF Goto
  <1>6. holder = r /\ Op[r] \in Greetings /\ Op[r] \in Table /\ r \in Requests
    BY <1>1, <1>5, Own DEF LockOK, RouteOK, Writing, Count, SetLast, Goto, Table
  <1>7. \A q \in Requests \ {r} : pc[q] # "set"
    BY <1>6, Own DEF LockOK, Writing
  <1>8. holder # Nobody
    BY <1>6, Types
  <1>9. CASE Count(r)
    <2>1. /\ pc[r] = "locked" /\ pc'[r] = "counted" /\ to = "counted"
          /\ count' = [count EXCEPT ![Op[r]] = @ + 1] /\ last' = last
      BY <1>5, <1>9, Types DEF Count, Goto
    <2>2. /\ servicePhase[r] = "called"
          /\ servicePhase' = [servicePhase EXCEPT ![r] = "called"]
          /\ serviceResult' = [serviceResult EXCEPT ![r] = NoResult]
      BY <1>4, <1>7, <2>1, PhaseMoved DEF PhaseAt
    <2>3. serviceResult[r] = NoResult
      BY <2>1 DEF serviceResult, Phase
    <2>4. /\ servicePhase = [servicePhase EXCEPT ![r] = servicePhase[r]]
          /\ serviceResult = [serviceResult EXCEPT ![r] = serviceResult[r]]
      BY DEF servicePhase, serviceResult
    <2>5. serviceCount = count
      BY <1>6, <2>1, CountExact
    <2>6. serviceCount' = [c \in Commands |-> IF Op[r] = c THEN count'[c] - 1 ELSE count'[c]]
      BY <1>1, <1>6, <1>8, <2>1 DEF serviceCount
    <2>7. serviceCount' = serviceCount
      BY <2>1, <2>5, <2>6, Types
    <2> QED
      BY <1>1, <2>1, <2>2, <2>3, <2>4, <2>7, ServiceSame
  <1>10. CASE \E f \in {"numbered", "counted"} : SetLast(r, f)
    <2>1. /\ pc[r] \in {"counted", "numbered"} /\ pc'[r] = "set" /\ to = "set"
          /\ count' = count /\ last' = [last EXCEPT ![Op[r]] = Text[r]]
      BY <1>5, <1>10, Types DEF SetLast, Goto
    <2>2. /\ servicePhase[r] = "called"
          /\ servicePhase' = [servicePhase EXCEPT ![r] = "handled"]
          /\ serviceResult' = [serviceResult EXCEPT ![r] = Numbered(count[Op[r]])]
      BY <1>4, <2>1, PhaseMoved DEF PhaseAt
    <2>3. serviceCount' = count
      BY <1>1, <1>2, <1>6, <2>1, CountExactNext
    <2>4. serviceCount = [c \in Commands |-> IF Op[r] = c THEN count[c] - 1 ELSE count[c]]
      BY <1>6, <1>8, <2>1 DEF serviceCount
    <2>5. Op[r] \in Commands /\ count[Op[r]] \in Nat
      BY <1>6, Types DEF Commands
    <2>6. serviceCount[Op[r]] + 1 = count[Op[r]]
      BY <2>4, <2>5
    <2>7. serviceCount' = [serviceCount EXCEPT ![Op[r]] = @ + 1]
      <3>1. count = [c \in Commands |-> count[c]] /\ \A c \in Commands : count[c] \in Nat
        BY Types
      <3>2. [serviceCount EXCEPT ![Op[r]] = @ + 1] = [c \in Commands |-> count[c]]
        BY <2>4, <2>5, <3>1
      <3> QED
        BY <2>3, <3>1, <3>2
    <2>8. r \notin Refused
      BY <2>1, Own DEF RouteOK
    <2>9. serviceResult' = [serviceResult EXCEPT ![r] = Numbered(serviceCount[Op[r]] + 1)]
      BY <2>2, <2>6
    <2> QED
      BY <1>1, <1>6, <2>1, <2>2, <2>7, <2>8, <2>9, ServiceApply
  <1> QED
    BY <1>9, <1>10

\* Under the lock the second half of a snapshot fits the first.
LEMMA ReadsMap ==
    ASSUME EInv, NEW r \in Requests,
           \/ server = "go" /\ GoReadFarewell(r)
           \/ server = "python" /\ PyReadFarewell(r)
    PROVE  Service!Next
  <1>1. /\ UNCHANGED <<server, count, last>> /\ server # "typescript" /\ pc[r] = "halfread"
        /\ Op[r] = "STATE"
    BY Own DEF GoReadFarewell, PyReadFarewell, data, Goto, RouteOK, Reading
  <1>2. EInv'
    BY AnswersKept
  <1>3. result[r] = HalfSnapshot /\ WithFarewell(HalfSnapshot) = Snapshot(count, last)
    BY <1>1, Own, SnapshotComplete DEF ResultOK
  <1>4. PICK to \in {"read", "handled"} : Moves(r, to, WithFarewell(result[r]))
    BY Types DEF GoReadFarewell, PyReadFarewell, Goto, Moves
  <1>5. Moves(r, to, Snapshot(count, last)) /\ Snapshot(count, last) \in Results
    BY <1>1, <1>3, <1>4, SnapshotComplete
  <1>6. /\ servicePhase[r] = "called"
        /\ servicePhase' = [servicePhase EXCEPT ![r] = "handled"]
        /\ serviceResult' = [serviceResult EXCEPT ![r] = Snapshot(count, last)]
    BY <1>1, <1>4, <1>5, PhaseMoved DEF PhaseAt, PcStates
  <1>7. holder = Nobody \/ pc[holder] \notin {"counted", "numbered"}
    <2>1. CASE server = "go"
      BY <1>1, <2>1, Own, Types DEF LockOK, Reading, EInv, StateOK, ServersTypeOK
    <2>2. CASE server = "python"
      BY <1>1, <2>2, Own DEF LockOK, Reading
    <2> QED
      BY <2>1, <2>2
  <1>8. serviceCount = count
    BY <1>7, CountExact
  <1>9. serviceCount' = serviceCount
    <2>1. CASE server = "go"
      <3>1. UNCHANGED holder /\ to = "read"
        BY <1>4, <2>1, Types DEF GoReadFarewell, Goto, Moves, locks
      <3> QED
        BY <1>1, <1>4, <1>5, <3>1, CountKept DEF PcStates
    <2>2. CASE server = "python"
      <3>1. holder' = Nobody
        BY <2>2 DEF PyReadFarewell
      <3> QED
        BY <1>1, <1>2, <1>8, <3>1, CountExactNext
    <2> QED
      BY <2>1, <2>2
  <1> QED
    BY <1>1, <1>6, <1>8, <1>9, ServiceRead

LEMMA PyEndsMap ==
    ASSUME EInv, NEW r \in Requests, server = "python", PyRefuse(r) \/ PyThrow(r)
    PROVE  Service!Next
  <1>1. /\ UNCHANGED <<server, count, last>> /\ pc[r] = "locked" /\ holder' = Nobody
    BY DEF PyRefuse, PyThrow, data, Goto, GivenBack
  <1>2. EInv' /\ holder = r /\ Op[r] \in Table
    BY <1>1, Own, AnswersKept, LocksKept DEF LockOK, Writing, RouteOK, Table
  <1>3. serviceCount = count /\ serviceCount' = count'
    BY <1>1, <1>2, CountExact, CountExactNext
  <1>4. CASE PyRefuse(r)
    <2>1. Moves(r, "handled", Error) /\ r \in Refused
      BY <1>4 DEF PyRefuse, Goto, Moves
    <2>2. /\ servicePhase[r] = "called"
          /\ servicePhase' = [servicePhase EXCEPT ![r] = "handled"]
          /\ serviceResult' = [serviceResult EXCEPT ![r] = Error]
      BY <1>1, <2>1, PhaseMoved, ResultValues DEF PhaseAt, PcStates
    <2> QED
      BY <1>1, <1>2, <1>3, <2>1, <2>2, ServiceDecline
  <1>5. CASE PyThrow(r)
    <2>1. Moves(r, "lost", result[r]) /\ result[r] \in Results /\ result[r] = NoResult
      BY <1>1, <1>5, SameResult, Own DEF PyThrow, ResultOK
    <2>2. /\ servicePhase[r] = "called"
          /\ servicePhase' = [servicePhase EXCEPT ![r] = "lost"]
          /\ serviceResult' = [serviceResult EXCEPT ![r] = NoResult]
      BY <1>1, <2>1, PhaseMoved DEF PhaseAt, PcStates
    <2>3. serviceResult[r] = NoResult
      BY <1>1 DEF serviceResult, Phase
    <2>4. serviceResult = [serviceResult EXCEPT ![r] = serviceResult[r]]
      BY DEF serviceResult
    <2>5. serviceResult' = serviceResult /\ serviceCount' = serviceCount
      BY <1>1, <1>3, <2>2, <2>3, <2>4
    <2> QED
      BY <1>1, <2>2, <2>5, ServicePasses
  <1> QED
    BY <1>4, <1>5

\* TypeScript has no lock, and its counters are exact.
LEMMA TsCountExact ==
    ASSUME EInv, server = "typescript"
    PROVE  holder = Nobody /\ serviceCount = count /\ \A q \in Requests : pc[q] # "set"
  <1>1. \A q \in Requests : holder # q /\ pc[q] # "set"
    BY Own DEF LockOK, Writing, Reading
  <1>2. holder = Nobody
    BY <1>1, Types
  <1> QED
    BY <1>1, <1>2, CountExact

LEMMA TsMaps ==
    ASSUME EInv, EInv', NEW r \in Requests, server = "typescript", TsStep(r)
    PROVE  Service!Next \/ UNCHANGED Service!service
  <1>1. UNCHANGED <<server, holder>>
    BY DEF TsStep, TsEnqueue, TsGreet, TsReport, TsBegin, TsResume, TsThrow, locks
  <1>2. serviceCount = count /\ serviceCount' = count' /\ \A q \in Requests : pc[q] # "set"
    BY <1>1, TsCountExact, CountExactNext
  <1>3. CASE TsEnqueue(r) \/ TsBegin(r) \/ TsThrow(r)
    <2>1. UNCHANGED <<result, count, last>>
      BY <1>3 DEF TsEnqueue, TsBegin, TsThrow, data
    <2>2. PICK from \in PcStates, to \in PcStates :
            Goto(r, from, to) /\ from \in {"called", "queued", "awaiting"}
            /\ to \in {"queued", "awaiting", "lost"}
      BY <1>3 DEF TsEnqueue, TsBegin, TsThrow, PcStates
    <2>3. Moves(r, to, result[r]) /\ result[r] \in Results /\ pc[r] = from /\ result[r] = NoResult
      BY <1>1, <2>1, <2>2, SameResult, Own DEF Goto, ResultOK
    <2>4. /\ servicePhase[r] = "called"
          /\ servicePhase' = [servicePhase EXCEPT ![r] = PhaseAt(to)]
          /\ serviceResult' = [serviceResult EXCEPT ![r] = NoResult]
      BY <1>2, <2>2, <2>3, PhaseMoved DEF PhaseAt
    <2>5. serviceResult[r] = NoResult
      BY <2>2, <2>3 DEF serviceResult, Phase
    <2>6. /\ servicePhase = [servicePhase EXCEPT ![r] = servicePhase[r]]
          /\ serviceResult = [serviceResult EXCEPT ![r] = serviceResult[r]]
      BY DEF servicePhase, serviceResult
    <2>7. serviceResult' = serviceResult /\ serviceCount' = serviceCount
      BY <1>2, <2>1, <2>4, <2>5, <2>6
    <2>8. CASE to = "lost"
      <3>1. servicePhase' = [servicePhase EXCEPT ![r] = "lost"]
        BY <2>4, <2>8 DEF PhaseAt
      <3> QED
        BY <1>1, <2>1, <2>4, <2>7, <3>1, ServicePasses
    <2>9. CASE to # "lost"
      <3>1. servicePhase' = servicePhase
        BY <2>2, <2>4, <2>6, <2>9 DEF PhaseAt
      <3> QED
        BY <1>1, <2>1, <2>7, <3>1, ServiceSame
    <2> QED
      BY <2>8, <2>9
  <1>4. CASE TsReport(r)
    <2>1. /\ Moves(r, "handled", Snapshot(count, last)) /\ pc[r] = "queued" /\ Op[r] = "STATE"
          /\ UNCHANGED <<count, last>>
      BY <1>4 DEF TsReport, Goto, Moves, data
    <2>2. Snapshot(count, last) \in Results
      BY ResultValues, Types
    <2>3. /\ servicePhase[r] = "called"
          /\ servicePhase' = [servicePhase EXCEPT ![r] = "handled"]
          /\ serviceResult' = [serviceResult EXCEPT ![r] = Snapshot(count, last)]
      BY <2>1, <2>2, PhaseMoved DEF PhaseAt, PcStates
    <2> QED
      BY <1>1, <1>2, <2>1, <2>3, ServiceRead
  <1>5. CASE TsGreet(r) \/ TsResume(r)
    <2>1. /\ pc' = [pc EXCEPT ![r] = "handled"] /\ pc[r] \in {"queued", "awaiting"} /\ Effect(r)
          /\ Op[r] \in Commands /\ Op[r] \in Table
      BY <1>5, Own DEF TsGreet, TsResume, Goto, RouteOK, Commands, Table
    <2>2. CASE r \in Refused
      <3>1. Moves(r, "handled", Error) /\ UNCHANGED <<count, last>>
        BY <1>1, <2>1, <2>2 DEF Effect, Moves, data
      <3>2. /\ servicePhase[r] = "called"
            /\ servicePhase' = [servicePhase EXCEPT ![r] = "handled"]
            /\ serviceResult' = [serviceResult EXCEPT ![r] = Error]
        BY <2>1, <3>1, PhaseMoved, ResultValues DEF PhaseAt, PcStates
      <3>3. serviceCount' = serviceCount
        BY <1>2, <3>1
      <3> QED
        BY <1>1, <2>1, <2>2, <3>1, <3>2, <3>3, ServiceDecline
    <2>3. CASE r \notin Refused
      <3>1. /\ Moves(r, "handled", Numbered(count[Op[r]] + 1))
            /\ count' = [count EXCEPT ![Op[r]] = @ + 1]
            /\ last' = [last EXCEPT ![Op[r]] = Text[r]]
        BY <1>1, <2>1, <2>3 DEF Effect, Moves
      <3>2. Numbered(count[Op[r]] + 1) \in Results
        BY <2>1, ResultValues, Types
      <3>3. /\ servicePhase[r] = "called"
            /\ servicePhase' = [servicePhase EXCEPT ![r] = "handled"]
            /\ serviceResult' = [serviceResult EXCEPT ![r] = Numbered(count[Op[r]] + 1)]
        BY <1>2, <2>1, <3>1, <3>2, PhaseMoved DEF PhaseAt, PcStates
      <3>4. /\ serviceCount' = [serviceCount EXCEPT ![Op[r]] = @ + 1]
            /\ serviceResult' = [serviceResult EXCEPT ![r] = Numbered(serviceCount[Op[r]] + 1)]
        BY <1>2, <3>1, <3>3
      <3> QED
        BY <1>1, <2>1, <2>3, <3>1, <3>3, <3>4, ServiceApply
    <2> QED
      BY <2>2, <2>3
  <1> QED
    BY <1>3, <1>4, <1>5 DEF TsStep

LEMMA DieMaps ==
    ASSUME EInv, EInv', TsDie
    PROVE  Service!Next
  <1>1. /\ doomed
        /\ pc' = [r \in Requests |->
                    IF pc[r] \in {"called", "queued", "awaiting", "handled"} THEN "lost" ELSE pc[r]]
        /\ count' = NoCounts /\ last' = NoTexts
        /\ UNCHANGED <<server, result, holder>>
    BY DEF TsDie, locks
  <1>2. server = "typescript"
    BY <1>1 DEF EInv, StateOK
  <1>3. serviceCount' = [c \in Commands |-> 0] /\ last' = [c \in Commands |-> NoText]
    BY <1>1, <1>2, TsCountExact, CountExactNext DEF NoCounts, NoTexts
  <1>4. ASSUME NEW r \in Requests
        PROVE  /\ servicePhase'[r] = IF servicePhase[r] \in {"called", "handled"} THEN "lost" ELSE servicePhase[r]
               /\ serviceResult'[r] = serviceResult[r]
    <2>1. pc[r] \in {"new", "called", "queued", "awaiting", "handled", "answered", "lost"}
      BY <1>2, Own, Types DEF LockOK, PcStates, Writing, Reading
    <2>2. pc'[r] = IF pc[r] \in {"called", "queued", "awaiting", "handled"} THEN "lost" ELSE pc[r]
      BY <1>1
    <2>3. servicePhase[r] = PhaseAt(pc[r]) /\ servicePhase'[r] = PhaseAt(pc'[r])
      BY DEF servicePhase, Phase, PhaseAt
    <2>4. servicePhase'[r] = IF servicePhase[r] \in {"called", "handled"} THEN "lost" ELSE servicePhase[r]
      BY <2>1, <2>2, <2>3 DEF PhaseAt
    <2>5. serviceResult[r] = IF pc[r] \in {"new", "called", "queued", "awaiting"} THEN NoResult ELSE result[r]
      BY <2>1 DEF serviceResult, Phase
    <2>6. serviceResult'[r] = IF pc'[r] = "new" THEN NoResult ELSE result[r]
      BY <1>1, <2>1, <2>2 DEF serviceResult, Phase
    <2>7. pc[r] \in {"called", "queued", "awaiting"} => result[r] = NoResult
      BY Own DEF ResultOK
    <2> QED
      BY <2>1, <2>2, <2>4, <2>5, <2>6, <2>7
  <1>5. servicePhase' = [r \in Requests |->
                           IF servicePhase[r] \in {"called", "handled"} THEN "lost" ELSE servicePhase[r]]
    <2>1. servicePhase' = [r \in Requests |-> servicePhase'[r]]
      BY DEF servicePhase
    <2> QED
      BY <1>4, <2>1
  <1>6. serviceResult' = serviceResult
    <2>1. /\ serviceResult' = [r \in Requests |-> serviceResult'[r]]
          /\ serviceResult = [r \in Requests |-> serviceResult[r]]
      BY DEF serviceResult
    <2> QED
      BY <1>4, <2>1
  <1>7. Table' = Table
    BY <1>1 DEF Table
  <1>8. Service!Restart
    <2>1. Service!Fresh'
      BY <1>3 DEF Service!Fresh, serviceCount
    <2> QED
      BY <1>5, <1>6, <1>7, <2>1 DEF Service!Restart, servicePhase, serviceResult
  <1> QED
    BY <1>8 DEF Service!Next

\* Whichever language it is written in, a server gives each request its effect at
\* one moment between arrival and answer, all of it or nothing, and no state read
\* shows an effect half done.
THEOREM ServersImplementService == Spec => ImplementsService
  <1>1. Init => Service!Init
    <2> SUFFICES ASSUME Init PROVE Service!Init
      OBVIOUS
    <2>1. Table \subseteq Commands
      BY DEF Table, Commands
    <2>2. \A r \in Requests : Phase(r) = "new"
      BY DEF Init, Phase
    <2>3. /\ servicePhase = [r \in Requests |-> "new"]
          /\ serviceResult = [r \in Requests |-> NoResult]
      BY <2>2 DEF servicePhase, serviceResult
    <2>4. serviceCount = [c \in Commands |-> 0] /\ last = [c \in Commands |-> NoText]
      BY DEF Init, serviceCount, NoCounts, NoTexts
    <2> QED
      BY <2>1, <2>3, <2>4
         DEF Service!Init, Service!Fresh, Service!NoResult, NoResult,
             servicePhase, serviceResult, serviceCount
  <1>2. EInv /\ EInv' /\ [Next]_vars => [Service!Next]_(Service!service)
    <2> SUFFICES ASSUME EInv, EInv', [Next]_vars
                 PROVE  Service!Next \/ UNCHANGED Service!service
      OBVIOUS
    <2>1. CASE TsDie
      BY <2>1, DieMaps
    <2>2. ASSUME NEW r \in Requests, Call(r) \/ Step(r)
          PROVE  Service!Next \/ UNCHANGED Service!service
      BY <2>2, AsideMaps, HiddenMaps, WritesMap, ReadsMap, PyEndsMap, TsMaps
         DEF Step, GoStep, PyStep
    <2>3. CASE UNCHANGED vars
      <3>1. UNCHANGED <<server, pc, result, count, last, holder>>
        BY <2>3 DEF vars, data, locks
      <3> QED
        BY <3>1, ServiceSame DEF servicePhase, serviceResult, serviceCount, Phase
    <2> QED
      BY <2>1, <2>2, <2>3 DEF Next
  <1> QED
    BY <1>1, <1>2, ServersInvariance, PTL DEF Spec, ImplementsService, Service!Spec
==============================================================================
