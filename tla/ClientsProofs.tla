---------------------------- MODULE ClientsProofs ----------------------------
(***************************************************************************)
(* Proofs about the programs that open streams: for every cast of them,    *)
(* all forms and amounts, and any number of submissions, failures and      *)
(* seconds.                                                                *)
(*                                                                         *)
(* A program learns what became of a transaction from its receipt, and may *)
(* have given up by then; so the invariant speaks of transactions in the   *)
(* pool as much as of programs.  A transaction that belongs to the present *)
(* attempt of its sender is the one the sender waits for, there is one of  *)
(* these at most, and whatever still waits to be funded, by a transaction  *)
(* or by a program that will send one, has not been funded and is waited   *)
(* for once.                                                               *)
(***************************************************************************)
EXTENDS EmployerClients, AmountLemmas

\* Where in its program p creates its stream and funds it.
CreateAt(p) == IF p = "demo" THEN 3 ELSE 2
FundAt(p)   == IF p \in {"page", "settle"} THEN 4 ELSE 5

\* What p may deposit.
Funds(p) == IF p = "page" THEN {f.fund : f \in Forms} ELSE {FUND}

Receipts == [success : BOOLEAN, id : Nat]

Jobs ==
    [state : {"off", "running", "done", "failed"}, at : Nat, attempt : Nat,
     sent : BOOLEAN, receipt : Receipts \cup {None}, id : Nat \cup {None},
     draft : Drafts \cup {None}, sealed : Drafts \cup {None}, fund : Nat,
     issuedAt : Nat, auth : Authorizations \cup {None}, seen : [Balances -> Nat]]

Transactions ==
    [op : Calls, by : Programs, attempt : Nat, id : Nat \cup {None},
     commitment : Drafts, sealed : Drafts, amount : Nat, auth : Authorizations \cup {None}]

------------------------------------------------------------------------------
(* The vault and the token *)

Creations == [by : Programs, sealed : Drafts]
Pots == [id \in StreamIds |-> Held(id)]

LedgerTypeOK ==
    /\ created \in Seq(Creations) /\ Len(created) <= MaxStreams
    /\ streams \in [StreamIds -> LedgerStreams(Drafts) \cup {Absent}]
    /\ tokens \in [Holders -> Nat]
    /\ allowance \in Nat
    /\ refunded \in [StreamIds -> Nat]

StreamOK(id) ==
    /\ streams[id] = Absent <=> id > Len(created)
    /\ streams[id] # Absent =>
         /\ streams[id].commitment = created[id].sealed
         /\ streams[id].funded \in {0} \cup Funds(created[id].by)
         /\ streams[id].withdrawn <= streams[id].funded
    /\ streams[id] = Absent \/ ~streams[id].cancelled => refunded[id] = 0

NoneOfE2e == \A id \in 1..Len(created) : created[id].by # "e2e"

\* The recipient of e2e is a new account: it has what the stream paid.
FreshOK ==
    /\ NoneOfE2e => tokens["fresh"] = 0
    /\ \A id \in 1..Len(created) :
         created[id].by = "e2e" =>
             /\ streams[id].withdrawn = tokens["fresh"]
             /\ \A i \in 1..Len(created) : created[i].by = "e2e" => i = id

TokensConserved == SumFunction(tokens) + SumFunction(Pots) = Endowment

LedgerOK ==
    /\ LedgerTypeOK
    /\ \A id \in StreamIds : StreamOK(id)
    /\ FreshOK
    /\ TokensConserved

------------------------------------------------------------------------------
(* The programs *)

\* Stream id was created by p with this draft.
Owned(p, id, draft) ==
    /\ id \in 1..Len(created)
    /\ created[id].by = p
    /\ created[id].sealed = draft

\* p has created stream id and has not sent its deposit.
Pending(p, id) ==
    \/ /\ job[p].at = CreateAt(p)
       /\ job[p].receipt # None
       /\ job[p].receipt.success
       /\ id = job[p].receipt.id
    \/ /\ job[p].at > CreateAt(p)
       /\ job[p].state # "done"
       /\ job[p].at < FundAt(p) \/ (job[p].at = FundAt(p) /\ ~job[p].sent)
       /\ id = job[p].id

Asked(p) == (p = "e2e" /\ job[p].at > 7) \/ (p = "settle" /\ job[p].at > 8)

JobTypeOK(p) ==
    /\ job[p] \in Jobs
    /\ job[p].at \in 1..Len(Program(p))
    /\ job[p].state = "off" => job[p] = Off
    /\ p # "page" => job[p].attempt = 0
    /\ job[p].receipt # None => job[p].sent
    /\ job[p].sent => Op(p) \in Calls
    /\ job[p].at >= CreateAt(p) => job[p].sealed = job[p].draft /\ job[p].draft \in Drafts
    /\ p = "page" /\ job[p].state # "off" => job[p].draft \in Drafts
    /\ job[p].state # "off" => job[p].fund \in Funds(p)
    /\ Asked(p) => job[p].auth \in Authorizations

JobLedgerOK(p) ==
    /\ job[p].id # None => Owned(p, job[p].id, job[p].draft) /\ job[p].at >= CreateAt(p)
    /\ job[p].at > CreateAt(p) => job[p].id # None
    /\ \A id \in Nat : Pending(p, id) =>
         Owned(p, id, job[p].draft) /\ streams[id].funded = 0
    /\ Op(p) = "reveal" /\ job[p].receipt # None /\ job[p].receipt.success
         => job[p].id \in revealed

\* What the end-to-end test has made sure of by now.
E2eOK ==
    LET j == job["e2e"] IN
    /\ j.at <= 2 /\ ~j.sent => NoneOfE2e
    /\ j.at > 9 => j.seen["recBefore"] = 0
    /\ j.at > 11 => tokens["fresh"] = j.auth.accrued
    /\ j.state = "done" => j.at = 12 /\ j.id \in revealed

JobOK(p) == JobTypeOK(p) /\ JobLedgerOK(p) /\ (p = "e2e" => E2eOK)

------------------------------------------------------------------------------
(* The transactions *)

\* The transaction its sender waits for, or has given up on in this attempt.
Present(tx) ==
    /\ job[tx.by].sent
    /\ job[tx.by].receipt = None
    /\ tx.op = Op(tx.by)
    /\ tx.id = job[tx.by].id
    /\ tx.commitment = job[tx.by].draft

TxOK(tx) ==
    /\ tx \in Transactions
    /\ tx.by \in DOMAIN job
    /\ tx.attempt <= job[tx.by].attempt
    /\ tx.attempt = job[tx.by].attempt => Present(tx)
    /\ tx.sealed = tx.commitment
    /\ tx.amount \in Funds(tx.by)
    /\ tx.op \notin {"create", "approve"} => Owned(tx.by, tx.id, tx.commitment)
    /\ tx.op = "create" /\ tx.by = "e2e" => NoneOfE2e
    /\ tx.op = "fund" => /\ streams[tx.id].funded = 0
                         /\ \A p \in DOMAIN job : ~Pending(p, tx.id)
    /\ tx.op \in {"withdraw", "cancel"} => tx.auth \in Authorizations
    /\ tx.op = "withdraw" => tx.by = "e2e"
    /\ tx.op = "cancel" => tx.by = "settle"

PoolOK ==
    /\ pool \in Seq(Transactions)
    /\ \A i \in DOMAIN pool : TxOK(pool[i])
    /\ \A i, j \in DOMAIN pool :
         i # j => /\ pool[i].by = pool[j].by => pool[i].attempt # pool[j].attempt
                  /\ pool[i].op = "fund" /\ pool[j].op = "fund" => pool[i].id # pool[j].id

WorldOK ==
    /\ DOMAIN job \subseteq Programs
    /\ "page" \in DOMAIN job => form \in Forms
    /\ port \in {"nobody", "serve", "e2e"}
    /\ clock \in Nat /\ clock >= BACKDATE

CInv ==
    /\ WorldOK
    /\ LedgerOK
    /\ \A p \in DOMAIN job : JobOK(p)
    /\ PoolOK

------------------------------------------------------------------------------
(* Where the programs do what *)

\* Which step of submit is which.
LEMMA PageFacts ==
    ASSUME NEW n \in 1..4
    PROVE  /\ PageProgram[n] = "seal" <=> n = 1
           /\ PageProgram[n] = "create" <=> n = 2
           /\ PageProgram[n] = "fund" <=> n = 4
           /\ PageProgram[n] \in Calls => n >= 2
           /\ PageProgram[n] \notin {"ask", "withdraw", "cancel", "reveal", "sleep", "listen", "close"}
           /\ PageProgram[n] \notin Reads
  BY DEF PageProgram, Calls, Reads, Balances

\* Which step of create-demo-stream.ts is which.
LEMMA DemoFacts ==
    ASSUME NEW n \in 1..6
    PROVE  /\ DemoProgram[n] = "seal" <=> n = 2
           /\ DemoProgram[n] = "create" <=> n = 3
           /\ DemoProgram[n] = "fund" <=> n = 5
           /\ DemoProgram[n] \in Calls => n >= 3
           /\ DemoProgram[n] \notin {"ask", "withdraw", "cancel", "sleep", "listen", "close"}
  BY DEF DemoProgram, Calls

\* Which step of e2e-coston2.ts is which.
LEMMA E2eFacts ==
    ASSUME NEW n \in 1..12
    PROVE  /\ E2eProgram[n] = "seal" <=> n = 1
           /\ E2eProgram[n] = "create" <=> n = 2
           /\ E2eProgram[n] = "fund" <=> n = 5
           /\ E2eProgram[n] = "ask" <=> n = 7
           /\ E2eProgram[n] = "recBefore" <=> n = 9
           /\ E2eProgram[n] = "withdraw" <=> n = 10
           /\ E2eProgram[n] = "recAfter" <=> n = 11
           /\ E2eProgram[n] = "reveal" <=> n = 12
           /\ E2eProgram[n] \in Calls => n >= 2
           /\ E2eProgram[n] \notin {"cancel", "sleep"}
  BY DEF E2eProgram, Calls

\* Which step of test-settle.ts is which.
LEMMA SettleFacts ==
    ASSUME NEW n \in 1..12
    PROVE  /\ SettleProgram[n] = "seal" <=> n = 1
           /\ SettleProgram[n] = "create" <=> n = 2
           /\ SettleProgram[n] = "fund" <=> n = 4
           /\ SettleProgram[n] = "ask" <=> n = 8
           /\ SettleProgram[n] = "cancel" <=> n = 9
           /\ SettleProgram[n] \in Calls => n >= 2
           /\ SettleProgram[n] \notin {"withdraw", "reveal", "listen", "close"}
  BY DEF SettleProgram, Calls

\* How many steps each program has.
LEMMA Lengths ==
    /\ Len(PageProgram) = 4 /\ Len(E2eProgram) = 12
    /\ Len(SettleProgram) = 12 /\ Len(DemoProgram) = 6
    /\ Program("page") = PageProgram /\ Program("e2e") = E2eProgram
    /\ Program("settle") = SettleProgram /\ Program("demo") = DemoProgram
  BY DEF PageProgram, E2eProgram, SettleProgram, DemoProgram, Program

\* The places CreateAt and FundAt are inside the programs, in this order.
LEMMA Places ==
    ASSUME NEW p \in Programs
    PROVE  /\ CreateAt(p) \in {2, 3} /\ FundAt(p) \in {4, 5}
           /\ Len(Program(p)) \in Nat /\ Len(Program(p)) >= FundAt(p)
           /\ 1 \in 1..Len(Program(p))
           /\ p = "e2e" => CreateAt(p) = 2 /\ FundAt(p) = 5 /\ Len(Program(p)) = 12
           /\ p = "page" => CreateAt(p) = 2 /\ FundAt(p) = 4 /\ Len(Program(p)) = 4
  <1>1. CASE p = "page"
    <2>1. Len(Program(p)) = 4
      BY <1>1, Lengths
    <2>2. CreateAt(p) = 2 /\ FundAt(p) = 4
      BY <1>1 DEF CreateAt, FundAt
    <2> QED
      BY <1>1, <2>1, <2>2
  <1>2. CASE p = "e2e"
    <2>1. Len(Program(p)) = 12
      BY <1>2, Lengths
    <2>2. CreateAt(p) = 2 /\ FundAt(p) = 5
      BY <1>2 DEF CreateAt, FundAt
    <2>3. p # "page"
      BY <1>2
    <2> QED
      BY <2>1, <2>2, <2>3
  <1>3. CASE p = "settle"
    <2>1. Len(Program(p)) = 12
      BY <1>3, Lengths
    <2>2. CreateAt(p) = 2 /\ FundAt(p) = 4
      BY <1>3 DEF CreateAt, FundAt
    <2>3. p # "page" /\ p # "e2e"
      BY <1>3
    <2> QED
      BY <2>1, <2>2, <2>3
  <1>4. CASE p = "demo"
    <2>1. Len(Program(p)) = 6
      BY <1>4, Lengths
    <2>2. CreateAt(p) = 3 /\ FundAt(p) = 5
      BY <1>4 DEF CreateAt, FundAt
    <2>3. p # "page" /\ p # "e2e"
      BY <1>4
    <2> QED
      BY <2>1, <2>2, <2>3
  <1> QED
    BY <1>1, <1>2, <1>3, <1>4 DEF Programs

\* The same facts for any program, by what it does at a step.
LEMMA ProgramFacts ==
    ASSUME NEW p \in Programs, NEW n \in 1..Len(Program(p))
    PROVE  /\ Len(Program(p)) \in Nat /\ n \in Nat /\ FundAt(p) <= Len(Program(p))
           /\ Program(p)[n] = "seal" <=> n = CreateAt(p) - 1
           /\ Program(p)[n] = "create" <=> n = CreateAt(p)
           /\ Program(p)[n] = "fund" <=> n = FundAt(p)
           /\ Program(p)[n] \in Calls => n >= CreateAt(p)
           /\ Program(p)[n] = "ask" <=> (p = "e2e" /\ n = 7) \/ (p = "settle" /\ n = 8)
           /\ Program(p)[n] = "withdraw" <=> p = "e2e" /\ n = 10
           /\ Program(p)[n] = "cancel" => p = "settle" /\ n = 9
           /\ Program(p)[n] \in {"withdraw", "cancel"} => p # "page"
           /\ p = "e2e" => /\ Program(p)[n] = "recBefore" <=> n = 9
                           /\ Program(p)[n] = "recAfter" <=> n = 11
                           /\ Program(p)[n] = "reveal" <=> n = 12
  <1>1. CASE p = "page"
    <2>1. n \in 1..4 /\ Program(p) = PageProgram /\ CreateAt(p) = 2 /\ FundAt(p) = 4
      BY <1>1, Lengths DEF CreateAt, FundAt
    <2> QED
      BY <1>1, <2>1, PageFacts, Lengths
  <1>2. CASE p = "e2e"
    <2>1. n \in 1..12 /\ Program(p) = E2eProgram /\ CreateAt(p) = 2 /\ FundAt(p) = 5
      BY <1>2, Lengths DEF CreateAt, FundAt
    <2> QED
      BY <1>2, <2>1, E2eFacts, Lengths
  <1>3. CASE p = "settle"
    <2>1. n \in 1..12 /\ Program(p) = SettleProgram /\ CreateAt(p) = 2 /\ FundAt(p) = 4
      BY <1>3, Lengths DEF CreateAt, FundAt
    <2>2. p # "e2e" /\ p # "page" /\ Len(Program(p)) \in Nat /\ FundAt(p) <= Len(Program(p))
      <3>1. Len(SettleProgram) = 12
        BY Lengths
      <3> QED
        BY <1>3, <2>1, <3>1
    <2>3. Program(p)[n] # "withdraw" /\ (Program(p)[n] = "cancel" => p = "settle" /\ n = 9)
      BY <1>3, <2>1, SettleFacts
    <2>4. /\ SettleProgram[n] = "seal" <=> n = 1
          /\ SettleProgram[n] = "create" <=> n = 2
          /\ SettleProgram[n] = "fund" <=> n = 4
          /\ SettleProgram[n] \in Calls => n >= 2
          /\ SettleProgram[n] = "ask" <=> n = 8
      BY <2>1, SettleFacts
    <2>5. Program(p)[n] = "ask" <=> (p = "e2e" /\ n = 7) \/ (p = "settle" /\ n = 8)
      BY <1>3, <2>1, <2>2, <2>4
    <2> QED
      BY <2>1, <2>2, <2>3, <2>4, <2>5
  <1>4. CASE p = "demo"
    <2>1. n \in 1..6 /\ Program(p) = DemoProgram /\ CreateAt(p) = 3 /\ FundAt(p) = 5
      BY <1>4, Lengths DEF CreateAt, FundAt
    <2>2. p # "e2e" /\ p # "page" /\ Len(Program(p)) \in Nat /\ FundAt(p) <= Len(Program(p))
      BY <1>4, <2>1, Lengths
    <2>3. Program(p)[n] # "withdraw" /\ Program(p)[n] # "cancel"
      BY <1>4, <2>1, DemoFacts
    <2> QED
      BY <1>4, <2>1, <2>2, <2>3, DemoFacts
  <1> QED
    BY <1>1, <1>2, <1>3, <1>4 DEF Programs

------------------------------------------------------------------------------
(* Types *)

\* What the assumptions say, in the form the proofs use.
LEMMA Constants ==
    /\ {FUND, BACKDATE, SETTLE_AFTER_SECONDS, Endowment, MaxAttempts, MaxStreams, MaxTime,
        MaxFaults} \subseteq Nat
    /\ None \notin Nat /\ None \notin Receipts /\ Absent \notin LedgerStreams(Drafts)
    /\ \A d \in Drafts : HasAccrual(d.terms)
    /\ \A p : Funds(p) \subseteq Nat
    /\ \A f \in Forms : f.fund \in Funds("page") /\ [of |-> "page", terms |-> f.terms] \in Drafts
    /\ IsFiniteSet(StreamIds)
  <1>1. \A d \in Drafts : HasAccrual(d.terms)
    BY ClientsAssumption DEF Drafts, HasAccrual
  <1>2. \A p : Funds(p) \subseteq Nat
    BY ClientsAssumption DEF Funds
  <1>3. \A f \in Forms : f.fund \in Funds("page") /\ [of |-> "page", terms |-> f.terms] \in Drafts
    BY DEF Funds, Drafts, Programs
  <1>4. IsFiniteSet(StreamIds)
    BY ClientsAssumption, FS_Interval DEF StreamIds
  <1> QED
    BY <1>1, <1>2, <1>3, <1>4, ClientsAssumption DEF Receipts

\* There are finitely many balances to add up.
LEMMA HoldersFinite == IsFiniteSet(Holders)
  <1>1. IsFiniteSet({"employer"})
    BY FS_Singleton
  <1>2. IsFiniteSet({"employer"} \cup {"alice"})
    BY <1>1, FS_AddElement
  <1>3. IsFiniteSet(({"employer"} \cup {"alice"}) \cup {"fresh"})
    BY <1>2, FS_AddElement
  <1>4. IsFiniteSet((({"employer"} \cup {"alice"}) \cup {"fresh"}) \cup {"payee"})
    BY <1>3, FS_AddElement
  <1>5. (({"employer"} \cup {"alice"}) \cup {"fresh"}) \cup {"payee"} = Holders
    BY DEF Holders
  <1> QED
    BY <1>4, <1>5

\* A program that has not started, field by field.
LEMMA OffFields ==
    /\ Off \in Jobs
    /\ Off.state = "off" /\ Off.at = 1 /\ Off.attempt = 0 /\ Off.sent = FALSE
    /\ Off.receipt = None /\ Off.id = None /\ Off.draft = None /\ Off.sealed = None
    /\ Off.fund = FUND /\ Off.issuedAt = 0 /\ Off.auth = None
    /\ Off.seen = [b \in Balances |-> 0]
  BY Constants DEF Off, Jobs

\* What is known of a program's local variables.
LEMMA JobFields ==
    ASSUME CInv, NEW p \in DOMAIN job
    PROVE  /\ p \in Programs
           /\ JobTypeOK(p) /\ JobLedgerOK(p) /\ (p = "e2e" => E2eOK)
           /\ job[p].state \in {"off", "running", "done", "failed"}
           /\ job[p].at \in Nat /\ job[p].at \in 1..Len(Program(p))
           /\ job[p].attempt \in Nat /\ job[p].sent \in BOOLEAN
           /\ job[p].receipt \in Receipts \cup {None}
           /\ job[p].id \in Nat \cup {None}
           /\ job[p].draft \in Drafts \cup {None}
           /\ job[p].sealed \in Drafts \cup {None}
           /\ job[p].fund \in Nat /\ job[p].issuedAt \in Nat
           /\ job[p].auth \in Authorizations \cup {None}
           /\ job[p].seen \in [Balances -> Nat]
  <1>1. p \in Programs /\ JobTypeOK(p) /\ JobLedgerOK(p) /\ (p = "e2e" => E2eOK)
    BY DEF CInv, WorldOK, JobOK
  <1>2. job[p] \in Jobs /\ job[p].at \in 1..Len(Program(p))
    BY <1>1 DEF JobTypeOK
  <1> QED
    BY <1>1, <1>2 DEF Jobs

------------------------------------------------------------------------------
(* The beginning *)

\* The vault is empty and the employer has all tokens.
LEMMA InitLedger == Init => LedgerOK
  <1> SUFFICES ASSUME Init PROVE LedgerOK
    OBVIOUS
  <1>1. /\ streams = [id \in StreamIds |-> Absent] /\ created = <<>>
        /\ tokens = [a \in Holders |-> IF a = "employer" THEN Endowment ELSE 0]
        /\ allowance = 0 /\ refunded = [id \in StreamIds |-> 0]
    BY DEF Init
  <1>2. Endowment \in Nat /\ MaxStreams \in Nat
    BY Constants
  <1>3. LedgerTypeOK
    BY <1>1, <1>2 DEF LedgerTypeOK
  <1>4. \A id \in StreamIds : StreamOK(id)
    BY <1>1, <1>2 DEF StreamOK, StreamIds
  <1>5. FreshOK
    BY <1>1 DEF FreshOK, NoneOfE2e, Holders
  <1>6. TokensConserved
    <2> DEFINE zero == [a \in Holders |-> 0]
    <2>1. SumFunction(zero) = 0
      BY HoldersFinite, SumZero
    <2>2. /\ zero \in [Holders -> Int] /\ tokens \in [Holders -> Int] /\ "employer" \in Holders
          /\ \A a \in Holders \ {"employer"} : tokens[a] = zero[a]
          /\ tokens["employer"] = Endowment /\ zero["employer"] = 0
      BY <1>1, <1>2 DEF Holders
    <2> HIDE DEF zero
    <2>3. SumFunction(tokens) = SumFunction(zero) + tokens["employer"] - zero["employer"]
      BY <2>2, HoldersFinite, SumUpdate
    <2>4. Pots \in [StreamIds -> Int] /\ \A id \in StreamIds : Pots[id] = 0
      BY <1>1 DEF Pots, Held
    <2>5. SumFunction(Pots) = 0
      BY <2>4, Constants, SumZero
    <2> QED
      BY <2>1, <2>2, <2>3, <2>5, <1>2 DEF TokensConserved
  <1> QED
    BY <1>3, <1>4, <1>5, <1>6 DEF LedgerOK

\* Every initial state satisfies the invariant.
LEMMA InitHolds == Init => CInv
  <1> SUFFICES ASSUME Init PROVE CInv
    OBVIOUS
  <1>1. LedgerOK
    BY InitLedger
  <1>2. DOMAIN job \subseteq Programs /\ \A p \in DOMAIN job : job[p] = Off
    BY ClientsAssumption DEF Init
  <1>3. created = <<>> /\ pool = <<>>
    BY DEF Init
  <1>4. WorldOK
    BY <1>2, Constants DEF Init, WorldOK
  <1>5. ASSUME NEW p \in DOMAIN job PROVE JobOK(p)
    <2>1. p \in Programs /\ job[p] = Off
      BY <1>2
    <2>2. 1 \in 1..Len(Program(p)) /\ CreateAt(p) \in {2, 3}
      BY <2>1, Places
    <2> DEFINE j == job[p]
    <2>a. /\ j \in Jobs /\ j = Off /\ j.state = "off" /\ j.at = 1 /\ j.attempt = 0 /\ j.sent = FALSE
          /\ j.receipt = None /\ j.id = None
      BY <2>1, OffFields
    <2> HIDE DEF j
    <2>3. JobTypeOK(p)
      BY <2>1, <2>2, <2>a DEF JobTypeOK, Asked, j
    <2>4. JobLedgerOK(p)
      BY <2>2, <2>a DEF JobLedgerOK, Pending, j
    <2>5. p = "e2e" => E2eOK
      BY <1>3, <2>a DEF E2eOK, NoneOfE2e, j
    <2> QED
      BY <2>3, <2>4, <2>5 DEF JobOK
  <1>6. PoolOK
    BY <1>3 DEF PoolOK
  <1> QED
    BY <1>1, <1>4, <1>5, <1>6 DEF CInv

------------------------------------------------------------------------------
(* Steps of a program that touch neither the ledger nor the pool *)

\* The vault's part of the invariant, when the vault does not change.
LEMMA LedgerKept ==
    ASSUME LedgerOK, UNCHANGED ledger
    PROVE  LedgerOK'
  <1>1. /\ streams' = streams /\ created' = created /\ tokens' = tokens
        /\ allowance' = allowance /\ refunded' = refunded
    BY DEF ledger
  <1>2. Pots' = Pots
    BY <1>1 DEF Pots, Held
  <1>3. LedgerTypeOK' /\ FreshOK' /\ TokensConserved'
    BY <1>1, <1>2 DEF LedgerOK, LedgerTypeOK, FreshOK, NoneOfE2e, TokensConserved
  <1>4. \A id \in StreamIds : StreamOK(id)'
    BY <1>1 DEF LedgerOK, StreamOK
  <1> QED
    BY <1>3, <1>4 DEF LedgerOK

\* A program other than the one that moves.
LEMMA OtherKept ==
    ASSUME NEW q, JobOK(q), job'[q] = job[q], UNCHANGED ledger
    PROVE  JobOK(q)'
  <1>1. /\ streams' = streams /\ created' = created /\ tokens' = tokens /\ revealed' = revealed
    BY DEF ledger
  <1>2. JobTypeOK(q)'
    BY DEF JobOK, JobTypeOK, Asked, Op
  <1>3. JobLedgerOK(q)'
    BY <1>1, Zenon DEF JobOK, JobLedgerOK, Owned, Pending, Op
  <1>4. q = "e2e" => E2eOK'
    BY <1>1, Zenon DEF JobOK, E2eOK, NoneOfE2e
  <1> QED
    BY <1>2, <1>3, <1>4 DEF JobOK

\* The attempt goes on and p sends nothing, waits for nothing more and has no
\* stream to fund that it had not before.
Quiet(p) ==
    /\ job'[p].attempt \in Nat /\ job'[p].attempt >= job[p].attempt
    /\ \/ job'[p].attempt # job[p].attempt
       \/ ~job[p].sent
       \/ job[p].receipt # None
       \/ /\ job'[p].sent = job[p].sent /\ job'[p].receipt = job[p].receipt
          /\ job'[p].at = job[p].at /\ job'[p].id = job[p].id /\ job'[p].draft = job[p].draft
    /\ \A id \in Nat : Pending(p, id)' => Pending(p, id)

\* A transaction in the pool, when a program moves quietly.
LEMMA TxKept ==
    ASSUME CInv, NEW p \in DOMAIN job, DOMAIN job' = DOMAIN job,
           \A q \in DOMAIN job \ {p} : job'[q] = job[q],
           Quiet(p), UNCHANGED ledger, NEW tx, TxOK(tx)
    PROVE  TxOK(tx)'
  <1>1. /\ streams' = streams /\ created' = created
    BY DEF ledger
  <1>2. \A q \in DOMAIN job \ {p} : \A id : Pending(q, id)' = Pending(q, id)
    BY DEF Pending
  <1>3. tx.by \in DOMAIN job /\ tx \in Transactions /\ tx.attempt \in Nat
    BY DEF TxOK, Transactions
  <1>4. job[p].attempt \in Nat
    BY JobFields
  <1>5. /\ tx.attempt <= job'[tx.by].attempt
        /\ tx.attempt = job'[tx.by].attempt => Present(tx) /\ job[tx.by].attempt = job'[tx.by].attempt
    <2>1. CASE tx.by = p
      BY <1>3, <1>4, <2>1 DEF TxOK, Quiet
    <2>2. CASE tx.by # p
      BY <1>3, <2>2 DEF TxOK
    <2> QED
      BY <2>1, <2>2
  <1>6. ASSUME tx.attempt = job'[tx.by].attempt
        PROVE  /\ job'[tx.by].sent
               /\ job'[tx.by].receipt = None
               /\ tx.op = Program(tx.by)[job'[tx.by].at]
               /\ tx.id = job'[tx.by].id
               /\ tx.commitment = job'[tx.by].draft
    <2>1. CASE tx.by = p
      BY <1>5, <1>6, <2>1 DEF Present, Quiet, Op
    <2>2. CASE tx.by # p
      BY <1>3, <1>5, <1>6, <2>2 DEF Present, Op
    <2> QED
      BY <2>1, <2>2
  <1>7. tx.op = "fund" => /\ streams[tx.id].funded = 0
                          /\ \A q \in DOMAIN job : ~Pending(q, tx.id)'
    <2>1. tx.op = "fund" => /\ streams[tx.id].funded = 0 /\ tx.id \in Nat
                            /\ \A q \in DOMAIN job : ~Pending(q, tx.id)
      BY DEF TxOK, Owned
    <2> QED
      BY <1>2, <2>1 DEF Quiet
  <1> QED
    BY <1>1, <1>5, <1>6, <1>7 DEF TxOK, Present, Owned, NoneOfE2e, Op

\* The pool, when a program moves quietly.
LEMMA PoolKept ==
    ASSUME CInv, NEW p \in DOMAIN job, DOMAIN job' = DOMAIN job,
           \A q \in DOMAIN job \ {p} : job'[q] = job[q],
           Quiet(p), UNCHANGED <<ledger, pool>>
    PROVE  PoolOK'
  <1>1. \A tx : TxOK(tx) => TxOK(tx)'
    BY TxKept
  <1> QED
    BY <1>1 DEF CInv, PoolOK

\* To take a step quietly and to be in order after it is enough.
LEMMA ProgramStep ==
    ASSUME CInv, NEW p \in DOMAIN job, DOMAIN job' = DOMAIN job,
           \A q \in DOMAIN job \ {p} : job'[q] = job[q],
           Quiet(p), JobOK(p)', UNCHANGED <<form, ledger, pool, clock>>,
           port' \in {"nobody", "serve", "e2e"}
    PROVE  CInv'
  <1>1. LedgerOK'
    BY LedgerKept DEF CInv
  <1>2. \A q \in DOMAIN job' : JobOK(q)'
    BY OtherKept DEF CInv
  <1>3. PoolOK'
    BY PoolKept
  <1>4. WorldOK'
    BY DEF CInv, WorldOK
  <1> QED
    BY <1>1, <1>2, <1>3, <1>4 DEF CInv

\* A program that throws: what it has sent stays sent.
LEMMA DieStep ==
    ASSUME CInv, NEW p \in DOMAIN job, job[p].state = "running", Die(p)
    PROVE  CInv'
  <1> DEFINE n == [job[p] EXCEPT !.state = "failed"]
  <1>1. /\ job' = [job EXCEPT ![p] = n]
        /\ UNCHANGED <<form, pool, ledger, clock>>
        /\ port' \in {"nobody", "serve", "e2e"}
    BY DEF Die, CInv, WorldOK
  <1>2. job[p] \in Jobs
    BY JobFields DEF JobTypeOK
  <1>3. /\ n \in Jobs /\ n.state = "failed" /\ n.at = job[p].at /\ n.attempt = job[p].attempt
        /\ n.sent = job[p].sent /\ n.receipt = job[p].receipt /\ n.id = job[p].id
        /\ n.draft = job[p].draft /\ n.sealed = job[p].sealed /\ n.fund = job[p].fund
        /\ n.auth = job[p].auth /\ n.seen = job[p].seen
    BY <1>2 DEF Jobs
  <1> HIDE DEF n
  <1>4. /\ DOMAIN job' = DOMAIN job /\ job'[p] = n
        /\ \A q \in DOMAIN job \ {p} : job'[q] = job[q]
    BY <1>1
  <1>5. /\ streams' = streams /\ created' = created /\ tokens' = tokens /\ revealed' = revealed
    BY <1>1 DEF ledger
  <1>6. \A id : Pending(p, id)' <=> Pending(p, id)
    BY <1>3, <1>4 DEF Pending
  <1>7. Quiet(p)
    BY <1>3, <1>4, <1>6, JobFields DEF Quiet
  <1>8. JobTypeOK(p)'
    BY <1>3, <1>4, JobFields DEF JobTypeOK, Asked, Op
  <1>9. JobLedgerOK(p)'
    BY <1>3, <1>4, <1>5, <1>6, JobFields DEF JobLedgerOK, Owned, Op
  <1>10. p = "e2e" => E2eOK'
    BY <1>3, <1>4, <1>5, JobFields DEF E2eOK, NoneOfE2e
  <1> QED
    BY <1>1, <1>4, <1>7, <1>8, <1>9, <1>10, ProgramStep DEF JobOK

\* A script is started.
LEMMA StartStep ==
    ASSUME CInv, NEW p \in DOMAIN job, Start(p)
    PROVE  CInv'
  <1> DEFINE n == [Off EXCEPT !.state = "running"]
  <1>1. /\ job[p] = Off
        /\ p # "page"
        /\ job' = [job EXCEPT ![p] = n]
        /\ UNCHANGED <<form, pool, ledger, clock, port>>
    BY JobFields DEF Start, JobTypeOK, world
  <1>3. /\ n \in Jobs /\ n.state = "running" /\ n.at = 1 /\ n.attempt = 0
        /\ n.sent = FALSE /\ n.receipt = None /\ n.id = None
        /\ n.fund = FUND
    BY OffFields DEF Jobs
  <1> HIDE DEF n
  <1>4. /\ DOMAIN job' = DOMAIN job /\ job'[p] = n
        /\ \A q \in DOMAIN job \ {p} : job'[q] = job[q]
    BY <1>1
  <1>5. created' = created
    BY <1>1 DEF ledger
  <1>6. p \in Programs /\ CreateAt(p) \in {2, 3} /\ 1 \in 1..Len(Program(p))
    BY JobFields, Places
  <1>a. \A id : ~Pending(p, id)'
    BY <1>3, <1>4, <1>6 DEF Pending
  <1>7. Quiet(p)
    BY <1>1, <1>3, <1>4, <1>a, OffFields DEF Quiet
  <1>8. JobTypeOK(p)'
    BY <1>1, <1>3, <1>4, <1>6 DEF JobTypeOK, Asked, Op, Funds
  <1>9. JobLedgerOK(p)'
    BY <1>3, <1>4, <1>6, <1>a DEF JobLedgerOK
  <1>10. p = "e2e" => E2eOK'
    BY <1>1, <1>3, <1>4, <1>5, JobFields, OffFields DEF E2eOK, NoneOfE2e
  <1> QED
    BY <1>1, <1>4, <1>7, <1>8, <1>9, <1>10, ProgramStep DEF JobOK, CInv, WorldOK

\* The page is submitted, perhaps once more: its earlier attempt is over.
LEMMA SubmitStep ==
    ASSUME CInv, "page" \in DOMAIN job, Submit
    PROVE  CInv'
  <1> DEFINE p == "page"
             d == [of |-> "page", terms |-> form.terms]
             n == [Off EXCEPT !.state = "running", !.attempt = job["page"].attempt + 1,
                              !.draft = d, !.fund = form.fund]
  <1>1. /\ job' = [job EXCEPT ![p] = n]
        /\ UNCHANGED <<form, pool, ledger, clock, port>>
    BY DEF Submit, world
  <1>2. form.fund \in Funds("page") /\ form.fund \in Nat /\ d \in Drafts
    BY Constants DEF CInv, WorldOK
  <1>b. job[p].attempt \in Nat
    BY JobFields
  <1> HIDE DEF d
  <1>3. /\ n \in Jobs /\ n.state = "running" /\ n.at = 1 /\ n.attempt = job[p].attempt + 1
        /\ n.sent = FALSE /\ n.receipt = None /\ n.id = None
        /\ n.fund \in Funds("page") /\ n.draft \in Drafts
    <2> DEFINE a == [Off EXCEPT !.state = "running"]
               b == [a EXCEPT !.attempt = job["page"].attempt + 1]
               c == [b EXCEPT !.draft = d]
    <2>1. /\ a \in Jobs /\ a.state = "running" /\ a.at = 1 /\ a.sent = FALSE
          /\ a.receipt = None /\ a.id = None
      BY OffFields DEF Jobs
    <2>2. n = [c EXCEPT !.fund = form.fund]
      OBVIOUS
    <2> HIDE DEF a, n
    <2>3. /\ b \in Jobs /\ b.state = "running" /\ b.at = 1 /\ b.sent = FALSE
          /\ b.receipt = None /\ b.id = None /\ b.attempt = job["page"].attempt + 1
      BY <1>b, <2>1 DEF Jobs
    <2> HIDE DEF b
    <2>4. /\ c \in Jobs /\ c.state = "running" /\ c.at = 1 /\ c.sent = FALSE
          /\ c.receipt = None /\ c.id = None /\ c.attempt = job["page"].attempt + 1
          /\ c.draft = d
      BY <1>2, <2>3 DEF Jobs
    <2> HIDE DEF c
    <2> QED
      BY <1>2, <2>2, <2>4 DEF Jobs
  <1> HIDE DEF n
  <1>4. /\ DOMAIN job' = DOMAIN job /\ job'[p] = n
        /\ \A q \in DOMAIN job \ {p} : job'[q] = job[q]
    BY <1>1
  <1>6. CreateAt(p) \in {2, 3} /\ 1 \in 1..Len(Program(p))
    BY Places DEF Programs
  <1>a. \A id : ~Pending(p, id)'
    BY <1>3, <1>4, <1>6 DEF Pending
  <1>7. Quiet(p)
    BY <1>b, <1>3, <1>4, <1>a DEF Quiet
  <1>8. JobTypeOK(p)'
    BY <1>3, <1>4, <1>6 DEF JobTypeOK, Asked, Op
  <1>9. JobLedgerOK(p)'
    BY <1>3, <1>4, <1>6, <1>a DEF JobLedgerOK
  <1> QED
    BY <1>1, <1>4, <1>7, <1>8, <1>9, ProgramStep DEF JobOK, CInv, WorldOK

\* What p takes along when it goes on to its next await.
Carried(p, local) ==
    /\ local.state = "running" /\ local.at = job[p].at /\ local.attempt = job[p].attempt
    /\ local.sent = FALSE /\ local.receipt = None /\ local.fund = job[p].fund
    /\ job[p].at >= CreateAt(p) - 1 => local.sealed = local.draft /\ local.draft \in Drafts
    /\ p = "page" => local.draft \in Drafts
    /\ job[p].at >= CreateAt(p) => local.draft = job[p].draft
    /\ job[p].at = CreateAt(p) =>
         job[p].receipt # None /\ job[p].receipt.success /\ local.id = job[p].receipt.id
    /\ job[p].at # CreateAt(p) => local.id = job[p].id
    /\ (p = "e2e" /\ job[p].at >= 7) \/ (p = "settle" /\ job[p].at >= 8)
         => local.auth \in Authorizations
    /\ p = "e2e" =>
         /\ job[p].at = 9 => local.seen["recBefore"] = 0
         /\ job[p].at > 9 => local.seen["recBefore"] = job[p].seen["recBefore"]
         /\ job[p].at = 11 => tokens["fresh"] = local.auth.accrued
         /\ job[p].at > 11 => local.auth = job[p].auth
         /\ job[p].at = 12 => job[p].receipt # None /\ job[p].receipt.success

\* A program goes on to its next step with new local variables.
LEMMA AdvanceStep ==
    ASSUME CInv, NEW p \in DOMAIN job, job[p].state = "running",
           ~job[p].sent \/ job[p].receipt # None,
           NEW local \in Jobs, Carried(p, local), Advance(p, local),
           UNCHANGED <<form, pool, ledger, clock>>, port' \in {"nobody", "serve", "e2e"}
    PROVE  CInv'
  <1> DEFINE j == job[p]
             ends == j.at = Len(Program(p)) \/ (p = "page" /\ Op(p) = "create" /\ local.fund = 0)
             n == IF ends THEN [local EXCEPT !.state = "done"] ELSE [local EXCEPT !.at = @ + 1]
  <1>1. job' = [job EXCEPT ![p] = n]
    BY DEF Advance
  <1>2. /\ p \in Programs /\ j.at \in Nat /\ j.at \in 1..Len(Program(p)) /\ j.attempt \in Nat
        /\ CreateAt(p) \in {2, 3} /\ FundAt(p) \in {4, 5} /\ Len(Program(p)) \in Nat
        /\ Op(p) = "create" <=> j.at = CreateAt(p)
        /\ p = "e2e" => /\ CreateAt(p) = 2 /\ Len(Program(p)) = 12
                        /\ Op(p) = "reveal" <=> j.at = 12
        /\ Op(p) \in Calls => j.at >= CreateAt(p)
        /\ Len(Program(p)) >= FundAt(p)
    BY JobFields, Places, ProgramFacts DEF Op
  <1>3. /\ local.at = j.at /\ local.state = "running" /\ local.at \in Nat
    BY <1>2 DEF Carried
  <1>4. /\ n \in Jobs /\ n.attempt = local.attempt /\ n.sent = local.sent
        /\ n.receipt = local.receipt /\ n.id = local.id /\ n.draft = local.draft
        /\ n.sealed = local.sealed /\ n.fund = local.fund /\ n.auth = local.auth
        /\ n.seen = local.seen
        /\ IF ends THEN n.state = "done" /\ n.at = j.at ELSE n.state = "running" /\ n.at = j.at + 1
    <2>1. CASE ends
      BY <1>3, <2>1 DEF Jobs
    <2>2. CASE ~ends
      BY <1>3, <2>2 DEF Jobs
    <2> QED
      BY <2>1, <2>2
  <1>5. ends => j.at = Len(Program(p)) \/ (p = "page" /\ j.at = CreateAt(p))
    BY <1>2
  <1>6. ~ends => j.at < Len(Program(p))
    BY <1>2
  <1> HIDE DEF n, ends, j
  <1>7. /\ DOMAIN job' = DOMAIN job /\ job'[p] = n
        /\ \A q \in DOMAIN job \ {p} : job'[q] = job[q]
    BY <1>1
  <1>8. /\ streams' = streams /\ created' = created /\ tokens' = tokens /\ revealed' = revealed
    BY DEF ledger
  <1>9. /\ n.sent = FALSE /\ n.receipt = None /\ n.attempt = j.attempt
    BY <1>4 DEF Carried, j
  <1>10. ASSUME NEW id, Pending(p, id)'
         PROVE  Pending(p, id) /\ j.at >= CreateAt(p)
    <2>1. /\ n.at > CreateAt(p) /\ n.state # "done"
          /\ n.at < FundAt(p) \/ n.at = FundAt(p)
          /\ id = n.id
      BY <1>7, <1>9, <1>10 DEF Pending
    <2>2. /\ n.at = j.at + 1 /\ j.at >= CreateAt(p) /\ j.at < FundAt(p)
      BY <1>2, <1>4, <2>1
    <2>3. CASE j.at = CreateAt(p)
      <3>1. j.receipt # None /\ j.receipt.success /\ id = j.receipt.id
        BY <1>4, <2>1, <2>3 DEF Carried, j
      <3> QED
        BY <2>2, <2>3, <3>1 DEF Pending, j
    <2>4. CASE j.at # CreateAt(p)
      BY <1>2, <1>4, <2>1, <2>2, <2>4 DEF Carried, Pending, j
    <2> QED
      BY <2>2, <2>3, <2>4
  <1>11. Quiet(p)
    BY <1>2, <1>7, <1>9, <1>10 DEF Quiet, j
  <1>12. JobTypeOK(p) /\ JobLedgerOK(p) /\ (p = "e2e" => E2eOK)
    BY JobFields
  <1>13. JobTypeOK(p)'
    <2>1. n.at \in 1..Len(Program(p)) /\ n.state # "off"
      BY <1>2, <1>4, <1>6
    <2>2. n.at >= CreateAt(p) => n.sealed = n.draft /\ n.draft \in Drafts
      BY <1>2, <1>4 DEF Carried, j
    <2>3. p = "page" => n.draft \in Drafts
      BY <1>4 DEF Carried
    <2>4. n.fund \in Funds(p) /\ (p # "page" => n.attempt = 0)
      BY <1>4, <1>12 DEF Carried, JobTypeOK
    <2>5. (p = "e2e" /\ n.at > 7) \/ (p = "settle" /\ n.at > 8) => n.auth \in Authorizations
      <3>1. n.at > 7 => j.at >= 7
        BY <1>2, <1>4
      <3>2. n.at > 8 => j.at >= 8
        BY <1>2, <1>4
      <3> QED
        BY <1>4, <3>1, <3>2 DEF Carried, j
    <2> QED
      BY <1>4, <1>7, <1>9, <2>1, <2>2, <2>3, <2>4, <2>5 DEF JobTypeOK, Asked
  <1>14. JobLedgerOK(p)'
    <2>1. j.at = CreateAt(p) => /\ Pending(p, n.id) /\ n.id \in Nat
      BY <1>4, JobFields DEF Carried, Pending, j, Receipts
    <2>2. n.id # None => Owned(p, n.id, n.draft) /\ n.at >= CreateAt(p)
      <3>1. CASE j.at = CreateAt(p)
        BY <1>2, <1>4, <1>12, <2>1, <3>1 DEF JobLedgerOK, Carried, j
      <3>2. CASE j.at # CreateAt(p)
        BY <1>2, <1>4, <1>12, <3>2 DEF JobLedgerOK, Carried, j
      <3> QED
        BY <3>1, <3>2
    <2>3. n.at > CreateAt(p) => n.id # None
      <3>1. CASE j.at = CreateAt(p)
        BY <2>1, <3>1, Constants
      <3>2. CASE j.at # CreateAt(p)
        BY <1>2, <1>4, <1>12, <3>2 DEF JobLedgerOK, Carried, j
      <3> QED
        BY <3>1, <3>2
    <2>4. \A id \in Nat : Pending(p, id)' => Owned(p, id, n.draft) /\ streams[id].funded = 0
      BY <1>4, <1>10, <1>12 DEF JobLedgerOK, Carried, j
    <2> QED
      BY <1>7, <1>8, <1>9, <2>2, <2>3, <2>4 DEF JobLedgerOK, Owned
  <1>15. p = "e2e" => E2eOK'
    <2> SUFFICES ASSUME p = "e2e" PROVE E2eOK'
      OBVIOUS
    <2>0. /\ CreateAt(p) = 2 /\ Len(Program(p)) = 12 /\ (ends => j.at = 12)
          /\ j.at \in Nat /\ (Op(p) = "reveal" <=> j.at = 12)
          /\ j.sent => j.at >= 2
      BY <1>2, <1>5, <1>12 DEF JobTypeOK, j
    <2>1. n.at <= 2 => NoneOfE2e
      <3>1. n.at <= 2 => j.at <= 1 /\ ~j.sent
        BY <1>4, <2>0
      <3> QED
        BY <1>12, <3>1, <2>0 DEF E2eOK, j
    <2>2. n.at > 9 => n.seen["recBefore"] = 0
      <3>1. n.at > 9 => j.at >= 9
        BY <1>4, <2>0
      <3> QED
        BY <1>4, <1>12, <2>0, <3>1 DEF E2eOK, Carried, j
    <2>3. n.at > 11 => tokens["fresh"] = n.auth.accrued
      <3>1. n.at > 11 => j.at >= 11
        BY <1>4, <2>0
      <3> QED
        BY <1>4, <1>12, <2>0, <3>1 DEF E2eOK, Carried, j
    <2>4. n.state = "done" => n.at = 12 /\ n.id \in revealed
      <3>1. n.state = "done" => n.at = 12 /\ j.at = 12
        BY <1>4, <2>0
      <3> QED
        BY <1>4, <1>12, <2>0, <3>1 DEF JobLedgerOK, Carried, j
    <2> QED
      BY <1>7, <1>8, <2>1, <2>2, <2>3, <2>4 DEF E2eOK, NoneOfE2e
  <1> QED
    BY <1>7, <1>11, <1>13, <1>14, <1>15, ProgramStep DEF JobOK

\* An await that leaves drafts, ids and receipts alone.
LEMMA CarriedPlain ==
    ASSUME CInv, NEW p \in DOMAIN job, job[p].state = "running", ~job[p].sent,
           Op(p) \notin {"seal", "create", "reveal"},
           NEW local \in Jobs,
           local.state = job[p].state, local.at = job[p].at, local.attempt = job[p].attempt,
           local.sent = job[p].sent, local.receipt = job[p].receipt, local.id = job[p].id,
           local.draft = job[p].draft, local.sealed = job[p].sealed, local.fund = job[p].fund,
           IF Op(p) = "ask" THEN local.auth \in Authorizations ELSE local.auth = job[p].auth,
           Op(p) # "recBefore" => local.seen["recBefore"] = job[p].seen["recBefore"],
           p = "e2e" => /\ Op(p) = "recBefore" => local.seen["recBefore"] = 0
                        /\ Op(p) = "recAfter" => tokens["fresh"] = local.auth.accrued
    PROVE  Carried(p, local)
  <1>1. /\ p \in Programs /\ job[p].at \in Nat /\ CreateAt(p) \in {2, 3}
        /\ job[p].at # CreateAt(p) - 1 /\ job[p].at # CreateAt(p)
        /\ Op(p) = "ask" <=> (p = "e2e" /\ job[p].at = 7) \/ (p = "settle" /\ job[p].at = 8)
        /\ p = "e2e" => /\ Op(p) = "recBefore" <=> job[p].at = 9
                        /\ Op(p) = "recAfter" <=> job[p].at = 11
                        /\ job[p].at # 12
    BY JobFields, Places, ProgramFacts DEF Op
  <1>2. JobTypeOK(p)
    BY JobFields
  <1>3. local.receipt = None /\ local.sent = FALSE
    BY <1>2, JobFields DEF JobTypeOK
  <1>4. job[p].at >= CreateAt(p) - 1 => local.sealed = local.draft /\ local.draft \in Drafts
    BY <1>1, <1>2 DEF JobTypeOK
  <1>5. p = "page" => local.draft \in Drafts
    BY <1>2 DEF JobTypeOK
  <1>6. (p = "e2e" /\ job[p].at >= 7) \/ (p = "settle" /\ job[p].at >= 8)
          => local.auth \in Authorizations
    BY <1>1, <1>2 DEF JobTypeOK, Asked
  <1>7. p = "e2e" => /\ job[p].at > 9 => Op(p) # "recBefore"
                     /\ job[p].at > 11 => Op(p) # "ask"
    BY <1>1
  <1> QED
    BY <1>1, <1>3, <1>4, <1>5, <1>6, <1>7 DEF Carried

\* The terms are sealed: from here on sealed and draft agree.
LEMMA SealStep ==
    ASSUME CInv, NEW p \in DOMAIN job, Seal(p)
    PROVE  CInv'
  <1> DEFINE d == IF p = "page" THEN job[p].draft ELSE ScriptDraft(p)
             local == [job[p] EXCEPT !.draft = d, !.sealed = d]
  <1>1. /\ job[p].state = "running" /\ Op(p) = "seal" /\ ~job[p].sent
        /\ Advance(p, local) /\ UNCHANGED <<form, pool, ledger, clock, port>>
    BY DEF Seal, Running, world
  <1>2. /\ p \in Programs /\ JobTypeOK(p) /\ job[p].at = CreateAt(p) - 1 /\ CreateAt(p) \in {2, 3}
    BY <1>1, JobFields, Places, ProgramFacts DEF Op
  <1>3. d \in Drafts
    <2>1. CASE p = "page"
      BY <1>1, <1>2, <2>1 DEF JobTypeOK
    <2>2. CASE p # "page"
      <3>1. clock \in Nat /\ clock - BACKDATE \in Nat /\ RATE_SCALE \in Nat /\ MaxTime \in Nat
        BY Constants, ProtocolAssumption DEF CInv, WorldOK
      <3> QED
        BY <1>2, <2>2, <3>1 DEF ScriptDraft, Drafts
    <2> QED
      BY <2>1, <2>2
  <1> HIDE DEF d
  <1>4. job[p] \in Jobs /\ job[p].receipt = None /\ job[p].sent = FALSE
    BY <1>1, <1>2, JobFields DEF JobTypeOK
  <1>5. /\ local \in Jobs /\ local.state = "running" /\ local.at = job[p].at
        /\ local.attempt = job[p].attempt /\ local.sent = FALSE /\ local.receipt = None
        /\ local.id = job[p].id /\ local.draft = d /\ local.sealed = d /\ local.fund = job[p].fund
    <2> DEFINE a == [job[p] EXCEPT !.draft = d]
    <2>1. /\ a \in Jobs /\ a.state = "running" /\ a.at = job[p].at
          /\ a.attempt = job[p].attempt /\ a.sent = FALSE /\ a.receipt = None
          /\ a.id = job[p].id /\ a.draft = d /\ a.fund = job[p].fund
      BY <1>1, <1>3, <1>4 DEF Jobs
    <2>2. local = [a EXCEPT !.sealed = d]
      OBVIOUS
    <2> HIDE DEF a, local
    <2> QED
      BY <1>3, <2>1, <2>2 DEF Jobs
  <1> HIDE DEF local
  <1>6. Carried(p, local)
    BY <1>2, <1>3, <1>5 DEF Carried
  <1>7. port' \in {"nobody", "serve", "e2e"}
    BY <1>1 DEF CInv, WorldOK
  <1> QED
    BY <1>1, <1>5, <1>6, <1>7, AdvanceStep

\* A program goes on after a receipt, with the stream the receipt is about.
LEMMA ReceiptStep ==
    ASSUME CInv, NEW p \in DOMAIN job, Receipt(p)
    PROVE  CInv'
  <1> DEFINE bad == Checked(p) /\ ~job[p].receipt.success
             id == IF Op(p) = "create" THEN job[p].receipt.id ELSE job[p].id
             local == [job[p] EXCEPT !.sent = FALSE, !.receipt = None, !.id = id]
  <1>1. /\ job[p].state = "running" /\ job[p].receipt # None
        /\ bad => Die(p)
        /\ ~bad => Advance(p, local) /\ UNCHANGED <<form, pool, ledger, clock, port>>
    BY DEF Receipt, world, IdFromLogs
  <1>2. CASE bad
    BY <1>1, <1>2, DieStep
  <1>3. CASE ~bad
    <2>1. /\ p \in Programs /\ JobTypeOK(p) /\ job[p].sent /\ Op(p) \in Calls /\ job[p].at \in Nat
          /\ CreateAt(p) \in {2, 3} /\ job[p].at >= CreateAt(p)
          /\ Op(p) = "create" <=> job[p].at = CreateAt(p)
          /\ p = "e2e" => /\ job[p].at = 12 => Op(p) = "reveal"
                          /\ job[p].at # 9 /\ job[p].at # 11
          /\ Op(p) # "ask"
          /\ Op(p) = "ask" <=> (p = "e2e" /\ job[p].at = 7) \/ (p = "settle" /\ job[p].at = 8)
      <3>1. p \in Programs /\ JobTypeOK(p) /\ job[p].at \in Nat /\ job[p].at \in 1..Len(Program(p))
        BY JobFields
      <3>2. job[p].sent /\ Op(p) \in Calls
        BY <1>1, <3>1 DEF JobTypeOK
      <3>3. Op(p) \notin {"ask", "recBefore", "recAfter"}
        BY <3>2 DEF Calls
      <3> QED
        BY <3>1, <3>2, <3>3, Places, ProgramFacts DEF Op
    <2>2. Op(p) \in {"create", "reveal"} => job[p].receipt.success
      BY <1>3 DEF Checked
    <2>3. /\ job[p] \in Jobs /\ job[p].receipt \in Receipts /\ job[p].receipt.id \in Nat
          /\ id \in Nat \cup {None}
      BY <1>1, <2>1, JobFields DEF JobTypeOK, Receipts
    <2>4. id = IF Op(p) = "create" THEN job[p].receipt.id ELSE job[p].id
      OBVIOUS
    <2> HIDE DEF id
    <2>5. /\ local \in Jobs /\ local.state = "running" /\ local.at = job[p].at
          /\ local.attempt = job[p].attempt /\ local.sent = FALSE /\ local.receipt = None
          /\ local.id = id /\ local.draft = job[p].draft /\ local.sealed = job[p].sealed
          /\ local.fund = job[p].fund /\ local.auth = job[p].auth /\ local.seen = job[p].seen
      <3> DEFINE a == [job[p] EXCEPT !.sent = FALSE]
                 b == [a EXCEPT !.receipt = None]
      <3>1. /\ a \in Jobs /\ a.state = "running" /\ a.at = job[p].at
            /\ a.attempt = job[p].attempt /\ a.sent = FALSE
            /\ a.draft = job[p].draft /\ a.sealed = job[p].sealed
            /\ a.fund = job[p].fund /\ a.auth = job[p].auth /\ a.seen = job[p].seen
        BY <1>1, <2>3 DEF Jobs
      <3>2. local = [b EXCEPT !.id = id]
        OBVIOUS
      <3> HIDE DEF a, local
      <3>3. /\ b \in Jobs /\ b.state = "running" /\ b.at = job[p].at
            /\ b.attempt = job[p].attempt /\ b.sent = FALSE /\ b.receipt = None
            /\ b.draft = job[p].draft /\ b.sealed = job[p].sealed
            /\ b.fund = job[p].fund /\ b.auth = job[p].auth /\ b.seen = job[p].seen
        BY <3>1 DEF Jobs
      <3> HIDE DEF b
      <3> QED
        BY <2>3, <3>2, <3>3 DEF Jobs
    <2> HIDE DEF local, bad
    <2>6. local.sealed = local.draft /\ local.draft \in Drafts
      BY <2>1, <2>5 DEF JobTypeOK
    <2>7. (p = "e2e" /\ job[p].at >= 7) \/ (p = "settle" /\ job[p].at >= 8)
            => local.auth \in Authorizations
      BY <2>1, <2>5 DEF JobTypeOK, Asked
    <2>8. Carried(p, local)
      BY <1>1, <2>1, <2>2, <2>4, <2>5, <2>6, <2>7 DEF Carried
    <2>9. port' \in {"nobody", "serve", "e2e"}
      BY <1>1, <1>3 DEF CInv, WorldOK
    <2> QED
      BY <1>1, <1>3, <2>5, <2>8, <2>9, AdvanceStep
  <1> QED
    BY <1>2, <1>3

\* Balances that are read are balances.
LEMMA SeenType ==
    ASSUME CInv, NEW p \in DOMAIN job
    PROVE  /\ Seen(p) \in [Balances -> Nat]
           /\ Op(p) # "recBefore" => Seen(p)["recBefore"] = job[p].seen["recBefore"]
           /\ Op(p) = "recAfter" => Seen(p)["recAfter"] = tokens[RecipientOf(p)]
  <1>1. p \in Programs /\ job[p].seen \in [Balances -> Nat] /\ tokens \in [Holders -> Nat]
    BY JobFields DEF CInv, LedgerOK, LedgerTypeOK
  <1>2. RecipientOf(p) \in Holders /\ "employer" \in Holders
    BY <1>1 DEF RecipientOf, Holders, Programs
  <1>3. tokens["employer"] \in Nat /\ tokens[RecipientOf(p)] \in Nat
    BY <1>1, <1>2
  <1>4. "recBefore" \in Balances /\ "recAfter" \in Balances
    BY DEF Balances
  <1> QED
    BY <1>1, <1>3, <1>4 DEF Seen

\* A program reads the chain and makes sure of something, or dies.
LEMMA ReadStep ==
    ASSUME CInv, NEW p \in DOMAIN job, Read(p)
    PROVE  CInv'
  <1> DEFINE local == [job[p] EXCEPT !.seen = Seen(p)]
  <1>1. Op(p) \in Reads /\ job[p].state = "running" /\ ~job[p].sent
    BY DEF Read, Running
  <1>2. CASE Die(p)
    BY <1>1, <1>2, DieStep
  <1>3. CASE Must(p, Seen(p)) /\ Advance(p, local) /\ UNCHANGED world
    <2>1. UNCHANGED <<form, pool, ledger, clock, port>>
      BY <1>3 DEF world
    <2>2. job[p] \in Jobs
      BY JobFields DEF JobTypeOK
    <2>3. /\ local \in Jobs /\ local.state = job[p].state /\ local.at = job[p].at
          /\ local.attempt = job[p].attempt /\ local.sent = job[p].sent
          /\ local.receipt = job[p].receipt /\ local.id = job[p].id
          /\ local.draft = job[p].draft /\ local.sealed = job[p].sealed
          /\ local.fund = job[p].fund /\ local.auth = job[p].auth /\ local.seen = Seen(p)
      BY <2>2, SeenType DEF Jobs
    <2> HIDE DEF local
    <2>4. Op(p) \notin {"seal", "create", "reveal", "ask"}
      BY <1>1 DEF Reads, Balances
    <2>5. ASSUME p = "e2e", Op(p) = "recBefore" PROVE local.seen["recBefore"] = 0
      BY <1>3, <2>3, <2>5 DEF Must
    <2>6. ASSUME p = "e2e", Op(p) = "recAfter" PROVE tokens["fresh"] = local.auth.accrued
      <3>1. PaidAsSigned(p, Seen(p))
        BY <1>3, <2>6 DEF Must
      <3>2. job[p].at = 11 /\ E2eOK
        BY <2>6, JobFields, ProgramFacts DEF Op
      <3>3. Seen(p)["recBefore"] = 0
        BY <2>6, <3>2, SeenType DEF E2eOK
      <3>4. Seen(p)["recAfter"] = tokens["fresh"]
        BY <2>6, SeenType DEF RecipientOf
      <3>5. tokens["fresh"] \in Nat
        BY DEF CInv, LedgerOK, LedgerTypeOK, Holders
      <3> QED
        BY <2>3, <3>1, <3>3, <3>4, <3>5 DEF PaidAsSigned
    <2>7. Carried(p, local)
      BY <1>1, <2>3, <2>4, <2>5, <2>6, SeenType, CarriedPlain
    <2>8. port' \in {"nobody", "serve", "e2e"}
      BY <2>1 DEF CInv, WorldOK
    <2> QED
      BY <1>1, <1>3, <2>1, <2>3, <2>7, <2>8, AdvanceStep
  <1> QED
    BY <1>2, <1>3 DEF Read

\* Sleep, Listen, Ask and Close.
LEMMA PlainStep ==
    ASSUME CInv, NEW p \in DOMAIN job, job[p].state = "running", ~job[p].sent,
           Op(p) \in {"sleep", "listen", "ask", "close"},
           NEW at \in Nat, NEW auth \in Authorizations \cup {None},
           IF Op(p) = "ask" THEN auth \in Authorizations ELSE auth = job[p].auth,
           \/ Advance(p, [job[p] EXCEPT !.issuedAt = at]) /\ auth = job[p].auth
           \/ Advance(p, [job[p] EXCEPT !.auth = auth])
           \/ Advance(p, job[p]) /\ auth = job[p].auth,
           UNCHANGED <<form, pool, ledger, clock>>, port' \in {"nobody", "serve", "e2e"}
    PROVE  CInv'
  <1>1. job[p] \in Jobs
    BY JobFields DEF JobTypeOK
  <1>2. PICK local \in Jobs :
          /\ Advance(p, local)
          /\ local.state = job[p].state /\ local.at = job[p].at
          /\ local.attempt = job[p].attempt /\ local.sent = job[p].sent
          /\ local.receipt = job[p].receipt /\ local.id = job[p].id
          /\ local.draft = job[p].draft /\ local.sealed = job[p].sealed
          /\ local.fund = job[p].fund /\ local.auth = auth /\ local.seen = job[p].seen
    <2>1. CASE Advance(p, [job[p] EXCEPT !.issuedAt = at]) /\ auth = job[p].auth
      <3> DEFINE local == [job[p] EXCEPT !.issuedAt = at]
      <3>1. /\ local \in Jobs
            /\ local.state = job[p].state /\ local.at = job[p].at
            /\ local.attempt = job[p].attempt /\ local.sent = job[p].sent
            /\ local.receipt = job[p].receipt /\ local.id = job[p].id
            /\ local.draft = job[p].draft /\ local.sealed = job[p].sealed
            /\ local.fund = job[p].fund /\ local.auth = auth /\ local.seen = job[p].seen
        BY <1>1, <2>1 DEF Jobs
      <3> HIDE DEF local
      <3> QED
        BY <2>1, <3>1 DEF local
    <2>2. CASE Advance(p, [job[p] EXCEPT !.auth = auth])
      <3> DEFINE local == [job[p] EXCEPT !.auth = auth]
      <3>1. /\ local \in Jobs
            /\ local.state = job[p].state /\ local.at = job[p].at
            /\ local.attempt = job[p].attempt /\ local.sent = job[p].sent
            /\ local.receipt = job[p].receipt /\ local.id = job[p].id
            /\ local.draft = job[p].draft /\ local.sealed = job[p].sealed
            /\ local.fund = job[p].fund /\ local.auth = auth /\ local.seen = job[p].seen
        BY <1>1 DEF Jobs
      <3> HIDE DEF local
      <3> QED
        BY <2>2, <3>1 DEF local
    <2>3. CASE Advance(p, job[p]) /\ auth = job[p].auth
      BY <1>1, <2>3
    <2> QED
      BY <2>1, <2>2, <2>3
  <1>3. Op(p) \notin {"seal", "create", "reveal", "recBefore", "recAfter"}
    OBVIOUS
  <1>4. Carried(p, local)
    BY <1>2, <1>3, CarriedPlain
  <1> QED
    BY <1>2, <1>4, AdvanceStep

\* The enclave's answer is an authorization.
LEMMA AuthorizedType ==
    ASSUME NEW d \in Drafts, NEW t \in Nat
    PROVE  authorizedAt(d.terms, t) \in Authorizations
  <1>1. accruedAt(d.terms, t) \in Nat
    BY Constants, AccruedBounded
  <1> QED
    BY <1>1, ProtocolAssumption DEF authorizedAt, Authorizations

\* test-settle.ts has waited.
LEMMA SleepStep ==
    ASSUME CInv, NEW p \in DOMAIN job, Sleep(p)
    PROVE  CInv'
  <1>1. /\ job[p].state = "running" /\ ~job[p].sent /\ Op(p) = "sleep"
        /\ Advance(p, [job[p] EXCEPT !.issuedAt = clock])
        /\ UNCHANGED <<form, pool, ledger, clock, port>>
    BY DEF Sleep, Running, world
  <1>2. clock \in Nat /\ port \in {"nobody", "serve", "e2e"}
    BY DEF CInv, WorldOK
  <1> QED
    BY <1>1, <1>2, JobFields, PlainStep

\* e2e-coston2.ts starts its server, or finds the port in use.
LEMMA ListenStep ==
    ASSUME CInv, NEW p \in DOMAIN job, Listen(p)
    PROVE  CInv'
  <1>1. /\ job[p].state = "running" /\ ~job[p].sent /\ Op(p) = "listen"
    BY DEF Listen, Running
  <1>2. clock \in Nat
    BY DEF CInv, WorldOK
  <1>3. CASE Die(p)
    BY <1>1, <1>3, DieStep
  <1>4. CASE /\ Advance(p, [job[p] EXCEPT !.issuedAt = clock])
             /\ port' = "e2e"
             /\ UNCHANGED <<form, pool, ledger, clock>>
    BY <1>1, <1>2, <1>4, JobFields, PlainStep
  <1> QED
    BY <1>3, <1>4 DEF Listen

\* A script asks the enclave.
LEMMA AskStep ==
    ASSUME CInv, NEW p \in DOMAIN job, Ask(p)
    PROVE  CInv'
  <1> DEFINE auth == authorizedAt(job[p].sealed.terms, clock)
  <1>1. /\ job[p].state = "running" /\ ~job[p].sent /\ Op(p) = "ask"
    BY DEF Ask, Running
  <1>2. clock \in Nat /\ port \in {"nobody", "serve", "e2e"}
    BY DEF CInv, WorldOK
  <1>3. CASE Die(p)
    BY <1>1, <1>3, DieStep
  <1>4. CASE /\ Advance(p, [job[p] EXCEPT !.auth = auth])
             /\ UNCHANGED world
    <2>1. job[p].at >= CreateAt(p)
      BY <1>1, JobFields, Places, ProgramFacts DEF Op
    <2>2. job[p].sealed \in Drafts
      BY <2>1, JobFields DEF JobTypeOK
    <2>3. auth \in Authorizations
      BY <1>2, <2>2, AuthorizedType
    <2> HIDE DEF auth
    <2>4. UNCHANGED <<form, pool, ledger, clock, port>>
      BY <1>4 DEF world
    <2> QED
      BY <1>1, <1>2, <1>4, <2>3, <2>4, PlainStep
  <1> QED
    BY <1>3, <1>4 DEF Ask

\* e2e-coston2.ts closes its server.
LEMMA CloseStep ==
    ASSUME CInv, NEW p \in DOMAIN job, Close(p)
    PROVE  CInv'
  <1>1. /\ job[p].state = "running" /\ ~job[p].sent /\ Op(p) = "close"
        /\ Advance(p, job[p]) /\ port' = "nobody" /\ UNCHANGED <<form, pool, ledger, clock>>
    BY DEF Close, Running
  <1>2. clock \in Nat
    BY DEF CInv, WorldOK
  <1> QED
    BY <1>1, <1>2, JobFields, PlainStep

------------------------------------------------------------------------------
(* Sending a transaction *)

\* The sender of a transaction is in order after sending it.
LEMMA SendJob ==
    ASSUME CInv, NEW p \in DOMAIN job, Send(p)
    PROVE  /\ DOMAIN job' = DOMAIN job
           /\ \A q \in DOMAIN job \ {p} : job'[q] = job[q]
           /\ job'[p].sent /\ job'[p].receipt = None /\ job'[p].at = job[p].at
           /\ job'[p].attempt = job[p].attempt /\ job'[p].id = job[p].id
           /\ job'[p].draft = job[p].draft
           /\ Quiet(p) /\ JobOK(p)'
           /\ \A id : Pending(p, id)' => job[p].at # FundAt(p)
  <1> DEFINE a == [job[p] EXCEPT !.sent = TRUE]
             n == [a EXCEPT !.receipt = None]
  <1>1. /\ job' = [job EXCEPT ![p] = n]
        /\ Op(p) \in Calls /\ job[p].state = "running" /\ ~job[p].sent
        /\ UNCHANGED ledger
    BY DEF Send, Running
  <1>2. job[p] \in Jobs
    BY JobFields DEF JobTypeOK
  <1>3. /\ a \in Jobs /\ a.state = "running" /\ a.at = job[p].at /\ a.attempt = job[p].attempt
        /\ a.sent = TRUE /\ a.id = job[p].id
        /\ a.draft = job[p].draft /\ a.sealed = job[p].sealed /\ a.fund = job[p].fund
        /\ a.auth = job[p].auth /\ a.seen = job[p].seen
    BY <1>1, <1>2 DEF Jobs
  <1> HIDE DEF a
  <1>4. /\ n \in Jobs /\ n.state = "running" /\ n.at = job[p].at /\ n.attempt = job[p].attempt
        /\ n.sent = TRUE /\ n.receipt = None /\ n.id = job[p].id
        /\ n.draft = job[p].draft /\ n.sealed = job[p].sealed /\ n.fund = job[p].fund
        /\ n.auth = job[p].auth /\ n.seen = job[p].seen
    BY <1>3 DEF Jobs
  <1> HIDE DEF n
  <1>5. /\ DOMAIN job' = DOMAIN job /\ job'[p] = n
        /\ \A q \in DOMAIN job \ {p} : job'[q] = job[q]
    BY <1>1
  <1>6. /\ streams' = streams /\ created' = created /\ tokens' = tokens /\ revealed' = revealed
    BY <1>1 DEF ledger
  <1>7. p \in Programs /\ FundAt(p) \in {4, 5} /\ job[p].at \in Nat
    BY JobFields, Places
  <1>8. ASSUME NEW id, Pending(p, id)' PROVE Pending(p, id) /\ job[p].at # FundAt(p)
    BY <1>1, <1>4, <1>5, <1>7, <1>8 DEF Pending
  <1>9. Quiet(p)
    BY <1>1, <1>4, <1>5, <1>8, JobFields DEF Quiet
  <1>10. JobTypeOK(p)'
    BY <1>1, <1>4, <1>5, JobFields DEF JobTypeOK, Asked, Op
  <1>11. JobLedgerOK(p)'
    BY <1>4, <1>5, <1>6, <1>8, JobFields DEF JobLedgerOK, Owned
  <1>12. p = "e2e" => E2eOK'
    BY <1>1, <1>4, <1>5, <1>6, JobFields DEF E2eOK, NoneOfE2e
  <1> QED
    BY <1>4, <1>5, <1>8, <1>9, <1>10, <1>11, <1>12 DEF JobOK

\* What is sent is in order.
LEMMA SentOK ==
    ASSUME CInv, NEW p \in DOMAIN job, Send(p)
    PROVE  \E tx : /\ TxOK(tx)' /\ tx \in Transactions
                   /\ pool' = Append(pool, tx)
                   /\ tx.by = p /\ tx.attempt = job[p].attempt
                   /\ tx.op = "fund" => tx.id \in Nat /\ Pending(p, tx.id)
  <1>1. PICK tx : tx = [op |-> Op(p), by |-> p, attempt |-> job[p].attempt, id |-> job[p].id,
                        commitment |-> job[p].draft, sealed |-> job[p].sealed,
                        amount |-> job[p].fund, auth |-> job[p].auth]
    OBVIOUS
  <1>2. /\ pool' = Append(pool, tx) /\ UNCHANGED ledger
        /\ Op(p) \in Calls /\ job[p].state = "running" /\ ~job[p].sent
    BY <1>1 DEF Send, Running, Committed
  <1>3. /\ p \in Programs /\ JobTypeOK(p) /\ JobLedgerOK(p) /\ (p = "e2e" => E2eOK)
        /\ job[p].at \in Nat /\ job[p].at >= CreateAt(p) /\ CreateAt(p) \in {2, 3}
        /\ FundAt(p) \in {4, 5}
        /\ Op(p) # "create" => job[p].at > CreateAt(p)
        /\ Op(p) = "create" /\ p = "e2e" => job[p].at <= 2
        /\ Op(p) = "fund" => job[p].at = FundAt(p)
        /\ Op(p) = "withdraw" => p = "e2e" /\ job[p].at > 7
        /\ Op(p) = "cancel" => p = "settle" /\ job[p].at > 8
    BY <1>2, JobFields, Places, ProgramFacts DEF Op
  <1>4. /\ job[p].sealed = job[p].draft /\ job[p].draft \in Drafts
        /\ job[p].fund \in Funds(p) /\ job[p].fund \in Nat
        /\ Op(p) \in {"withdraw", "cancel"} => job[p].auth \in Authorizations
    BY <1>2, <1>3, JobFields DEF JobTypeOK, Asked
  <1>5. /\ tx \in Transactions /\ tx.op = Op(p) /\ tx.by = p /\ tx.attempt = job[p].attempt
        /\ tx.id = job[p].id /\ tx.commitment = job[p].draft /\ tx.sealed = job[p].draft
        /\ tx.amount = job[p].fund /\ tx.auth = job[p].auth
    BY <1>1, <1>2, <1>3, <1>4, JobFields DEF Transactions
  <1>6. Op(p) \notin {"create", "approve"} => Owned(p, job[p].id, job[p].draft)
    BY <1>3 DEF JobLedgerOK
  <1>7. Op(p) = "create" /\ p = "e2e" => NoneOfE2e
    BY <1>2, <1>3 DEF E2eOK
  <1>8. ASSUME Op(p) = "fund"
        PROVE  /\ job[p].id \in Nat /\ Pending(p, job[p].id) /\ streams[job[p].id].funded = 0
               /\ \A q \in DOMAIN job : ~Pending(q, tx.id)'
    <2>1. job[p].id \in Nat /\ created[job[p].id].by = p
      BY <1>6, <1>8 DEF Owned
    <2>2. Pending(p, job[p].id)
      BY <1>2, <1>3, <1>8 DEF Pending
    <2>3. ASSUME NEW q \in DOMAIN job, Pending(q, tx.id)' PROVE FALSE
      <3>1. CASE q = p
        BY <1>3, <1>8, <2>3, <3>1, SendJob
      <3>2. CASE q # p
        <4>1. Pending(q, tx.id)
          BY <2>3, <3>2, SendJob DEF Pending
        <4>2. created[tx.id].by = q
          BY <1>5, <2>1, <4>1, JobFields DEF JobLedgerOK, Owned
        <4> QED
          BY <1>5, <2>1, <3>2, <4>2
      <3> QED
        BY <3>1, <3>2
    <2> QED
      BY <1>3, <2>1, <2>2, <2>3 DEF JobLedgerOK
  <1>9. /\ streams' = streams /\ created' = created
    BY <1>2 DEF ledger
  <1>10. tx.op = Program(p)[job'[p].at] /\ tx.attempt = job'[p].attempt /\ p \in DOMAIN job'
         /\ job'[p].sent /\ job'[p].receipt = None /\ tx.id = job'[p].id
         /\ tx.commitment = job'[p].draft /\ tx.attempt <= job'[p].attempt
    BY <1>5, SendJob, JobFields DEF Op
  <1>11. TxOK(tx)'
    BY <1>3, <1>4, <1>5, <1>6, <1>7, <1>8, <1>9, <1>10, SendJob
    DEF TxOK, Present, Owned, NoneOfE2e, Op
  <1> QED
    BY <1>2, <1>5, <1>8, <1>11

\* A transaction joins the pool; those already in it stay in order.
LEMMA SendStep ==
    ASSUME CInv, NEW p \in DOMAIN job, Send(p)
    PROVE  CInv'
  <1>1. PICK tx : /\ TxOK(tx)' /\ tx \in Transactions
                  /\ pool' = Append(pool, tx)
                  /\ tx.by = p /\ tx.attempt = job[p].attempt
                  /\ tx.op = "fund" => tx.id \in Nat /\ Pending(p, tx.id)
    BY SentOK
  <1>2. UNCHANGED <<form, ledger, port, clock>> /\ ~job[p].sent
    BY DEF Send, Running
  <1>3. pool \in Seq(Transactions) /\ \A i \in DOMAIN pool : TxOK(pool[i])
    BY DEF CInv, PoolOK
  <1>4. /\ pool' \in Seq(Transactions) /\ Len(pool') = Len(pool) + 1 /\ Len(pool) \in Nat
        /\ \A i \in 1..Len(pool) : pool'[i] = pool[i]
        /\ pool'[Len(pool) + 1] = tx
        /\ DOMAIN pool' = 1..(Len(pool) + 1) /\ DOMAIN pool = 1..Len(pool)
    BY <1>1, <1>3
  <1>5. ASSUME NEW i \in 1..Len(pool)
        PROVE  /\ pool[i].by = p => pool[i].attempt # tx.attempt
               /\ pool[i].op = "fund" /\ tx.op = "fund" => pool[i].id # tx.id
    <2>1. TxOK(pool[i])
      BY <1>3, <1>4
    <2> QED
      BY <1>1, <1>2, <2>1 DEF TxOK, Present
  <1>6. PoolOK'
    <2>1. \A t : TxOK(t) => TxOK(t)'
      BY <1>2, SendJob, TxKept
    <2>2. \A i \in DOMAIN pool' : TxOK(pool[i])'
      BY <1>1, <1>3, <1>4, <2>1
    <2>3. \A i, j \in DOMAIN pool' :
            i # j => /\ pool'[i].by = pool'[j].by => pool'[i].attempt # pool'[j].attempt
                     /\ pool'[i].op = "fund" /\ pool'[j].op = "fund" => pool'[i].id # pool'[j].id
      <3> SUFFICES ASSUME NEW i \in DOMAIN pool', NEW j \in DOMAIN pool', i # j
                   PROVE  /\ pool'[i].by = pool'[j].by => pool'[i].attempt # pool'[j].attempt
                          /\ pool'[i].op = "fund" /\ pool'[j].op = "fund" => pool'[i].id # pool'[j].id
        OBVIOUS
      <3>1. CASE i \in 1..Len(pool) /\ j \in 1..Len(pool)
        BY <1>4, <3>1 DEF CInv, PoolOK
      <3>2. CASE i \in 1..Len(pool) /\ j = Len(pool) + 1
        BY <1>1, <1>4, <1>5, <3>2
      <3>3. CASE i = Len(pool) + 1 /\ j \in 1..Len(pool)
        BY <1>1, <1>4, <1>5, <3>3
      <3> QED
        BY <1>4, <3>1, <3>2, <3>3
    <2> QED
      BY <1>4, <2>2, <2>3 DEF PoolOK
  <1>7. LedgerOK'
    BY <1>2, LedgerKept DEF CInv
  <1>8. \A q \in DOMAIN job' : JobOK(q)'
    BY <1>2, SendJob, OtherKept DEF CInv
  <1>9. WorldOK'
    BY <1>2, SendJob DEF CInv, WorldOK
  <1> QED
    BY <1>6, <1>7, <1>8, <1>9 DEF CInv

------------------------------------------------------------------------------
(* What a transaction does to the ledger *)

\* What the invariant says of the vault, stream by stream.
LEMMA LedgerFacts ==
    ASSUME CInv
    PROVE  /\ LedgerTypeOK /\ FreshOK /\ TokensConserved
           /\ \A id \in StreamIds : StreamOK(id)
           /\ Len(created) \in Nat /\ MaxStreams \in Nat /\ StreamIds = 1..MaxStreams
           /\ \A id \in 1..Len(created) :
                /\ id \in StreamIds /\ id \in Nat
                /\ streams[id] \in LedgerStreams(Drafts) /\ streams[id] # Absent
                /\ created[id] \in Creations
                /\ streams[id].commitment = created[id].sealed
                /\ streams[id].funded \in Nat /\ streams[id].withdrawn \in Nat
                /\ streams[id].cancelled \in BOOLEAN
                /\ streams[id].withdrawn <= streams[id].funded
                /\ ~streams[id].cancelled => refunded[id] = 0
  <1>1. /\ LedgerTypeOK /\ FreshOK /\ TokensConserved /\ \A id \in StreamIds : StreamOK(id)
        /\ MaxStreams \in Nat /\ StreamIds = 1..MaxStreams
    BY Constants DEF CInv, LedgerOK, StreamIds
  <1>2. /\ created \in Seq(Creations) /\ Len(created) <= MaxStreams /\ Len(created) \in Nat
    BY <1>1 DEF LedgerTypeOK
  <1>3. ASSUME NEW id \in 1..Len(created)
        PROVE  /\ id \in StreamIds /\ id \in Nat /\ streams[id] \in LedgerStreams(Drafts)
               /\ streams[id] # Absent /\ created[id] \in Creations /\ StreamOK(id)
    <2>1. id \in StreamIds /\ id \in Nat /\ ~(id > Len(created)) /\ created[id] \in Creations
      BY <1>1, <1>2
    <2> QED
      BY <1>1, <2>1 DEF StreamOK, LedgerTypeOK
  <1> QED
    BY <1>1, <1>2, <1>3 DEF StreamOK, LedgerStreams

\* What a withdrawal and a settlement make of a stream's record.
LEMMA RecordAfter ==
    ASSUME NEW s \in LedgerStreams(Drafts), s.withdrawn <= s.funded,
           NEW auth \in Authorizations, NEW now
    PROVE  /\ AfterCancel(s, auth) \in LedgerStreams(Drafts)
           /\ AfterCancel(s, auth).commitment = s.commitment
           /\ AfterCancel(s, auth).funded = s.funded
           /\ AfterCancel(s, auth).cancelled
           /\ s.withdrawn <= AfterCancel(s, auth).withdrawn
           /\ AfterCancel(s, auth).withdrawn <= s.funded
           /\ CanWithdraw(s, auth, now) =>
                /\ AfterWithdraw(s, auth) \in LedgerStreams(Drafts)
                /\ AfterWithdraw(s, auth).commitment = s.commitment
                /\ AfterWithdraw(s, auth).funded = s.funded
                /\ AfterWithdraw(s, auth).cancelled = s.cancelled
                /\ AfterWithdraw(s, auth).withdrawn = AfterCancel(s, auth).withdrawn
                /\ s.withdrawn < AfterWithdraw(s, auth).withdrawn
  <1>1. /\ s.funded \in Nat /\ s.withdrawn \in Nat /\ s.commitment \in Drafts
        /\ s.cancelled \in BOOLEAN /\ auth.accrued \in Nat
    BY DEF LedgerStreams, Authorizations
  <1>2. CapOf(s, auth) \in Nat /\ CapOf(s, auth) <= s.funded
    BY <1>1 DEF CapOf
  <1> DEFINE w == IF CapOf(s, auth) > s.withdrawn THEN CapOf(s, auth) ELSE s.withdrawn
             a == [s EXCEPT !.cancelled = TRUE]
  <1>3. w \in Nat /\ s.withdrawn <= w /\ w <= s.funded
    BY <1>1, <1>2
  <1>4. AfterCancel(s, auth) = [a EXCEPT !.withdrawn = w]
    BY DEF AfterCancel, LedgerStreams
  <1>w. CanWithdraw(s, auth, now) => CapOf(s, auth) > s.withdrawn /\ w = CapOf(s, auth)
    BY DEF CanWithdraw
  <1> HIDE DEF w
  <1>5. a \in LedgerStreams(Drafts) /\ a.commitment = s.commitment /\ a.funded = s.funded /\ a.cancelled
    BY <1>1 DEF LedgerStreams
  <1> HIDE DEF a
  <1>6. /\ AfterCancel(s, auth) \in LedgerStreams(Drafts)
        /\ AfterCancel(s, auth).commitment = s.commitment
        /\ AfterCancel(s, auth).funded = s.funded
        /\ AfterCancel(s, auth).cancelled
        /\ AfterCancel(s, auth).withdrawn = w
    BY <1>3, <1>4, <1>5 DEF LedgerStreams
  <1>7. /\ AfterWithdraw(s, auth) \in LedgerStreams(Drafts)
        /\ AfterWithdraw(s, auth).commitment = s.commitment
        /\ AfterWithdraw(s, auth).funded = s.funded
        /\ AfterWithdraw(s, auth).cancelled = s.cancelled
        /\ AfterWithdraw(s, auth).withdrawn = CapOf(s, auth)
    BY <1>1, <1>2 DEF AfterWithdraw, LedgerStreams
  <1> QED
    BY <1>1, <1>2, <1>3, <1>6, <1>7, <1>w

\* The pots are integers.
LEMMA PotsInt ==
    ASSUME LedgerTypeOK
    PROVE  Pots \in [StreamIds -> Int]
  BY DEF LedgerTypeOK, Pots, Held, LedgerStreams

\* One stream's record changes.
LEMMA PotUpdate ==
    ASSUME LedgerTypeOK, LedgerTypeOK', NEW id \in StreamIds,
           \A i \in StreamIds \ {id} : streams'[i] = streams[i]
    PROVE  SumFunction(Pots') = SumFunction(Pots) + Held(id)' - Held(id)
  <1>1. Pots \in [StreamIds -> Int] /\ Pots' \in [StreamIds -> Int]
    BY DEF LedgerTypeOK, Pots, Held, LedgerStreams
  <1>2. /\ Pots[id] = Held(id) /\ Pots'[id] = Held(id)'
        /\ \A i \in StreamIds \ {id} : Pots'[i] = Pots[i]
    BY DEF Pots, Held
  <1>3. SumFunction(Pots') = SumFunction(Pots) + Pots'[id] - Pots[id]
    BY <1>1, <1>2, Constants, SumUpdate
  <1> QED
    BY <1>2, <1>3

\* The sum of the balances when one account's changes.
LEMMA TokenUpdate ==
    ASSUME NEW old \in [Holders -> Nat], NEW new \in [Holders -> Nat], NEW a \in Holders,
           \A b \in Holders \ {a} : new[b] = old[b]
    PROVE  SumFunction(new) = SumFunction(old) + new[a] - old[a]
  <1>1. old \in [Holders -> Int] /\ new \in [Holders -> Int]
    OBVIOUS
  <1> QED
    BY <1>1, HoldersFinite, SumUpdate

\* Both sums are integers.
LEMMA SumsAreInts ==
    ASSUME LedgerTypeOK
    PROVE  SumFunction(tokens) \in Int /\ SumFunction(Pots) \in Int
  <1>1. tokens \in [Holders -> Int] /\ Pots \in [StreamIds -> Int]
    BY PotsInt DEF LedgerTypeOK
  <1> QED
    BY <1>1, HoldersFinite, Constants, SumInt

\* One stream's record becomes s.
Changes(id, s) ==
    /\ streams' = [streams EXCEPT ![id] = s]
    /\ created' = created
    /\ s.commitment = streams[id].commitment
    /\ s.funded \in {0} \cup Funds(created[id].by)
    /\ s.withdrawn <= s.funded
    /\ refunded' \in [StreamIds -> Nat]
    /\ \A i \in StreamIds \ {id} : refunded'[i] = refunded[i]
    /\ ~s.cancelled => refunded'[id] = 0
    /\ allowance' \in Nat
    /\ tokens' \in [Holders -> Nat]

\* The vault stays in order when one stream's record and the balances change together.
LEMMA ChangedLedger ==
    ASSUME CInv, NEW id \in 1..Len(created), NEW s \in LedgerStreams(Drafts), Changes(id, s),
           SumFunction(tokens') - SumFunction(tokens) = Held(id) - Held(id)',
           IF created[id].by = "e2e" THEN s.withdrawn = tokens'["fresh"]
                                           /\ tokens["fresh"] <= tokens'["fresh"]
           ELSE tokens'["fresh"] = tokens["fresh"]
    PROVE  LedgerOK'
  <1>1. LedgerTypeOK'
    BY LedgerFacts DEF LedgerTypeOK, Changes
  <1>2. s # Absent /\ streams'[id] = s /\ \A i \in StreamIds \ {id} : streams'[i] = streams[i]
    BY LedgerFacts, Constants DEF Changes, LedgerTypeOK
  <1>3. ASSUME NEW i \in StreamIds PROVE StreamOK(i)'
    <2>1. CASE i = id
      BY <1>2, <2>1, LedgerFacts DEF StreamOK, Changes
    <2>2. CASE i # id
      BY <1>2, <2>2, LedgerFacts DEF StreamOK, Changes
    <2> QED
      BY <2>1, <2>2
  <1>4. FreshOK'
    <2>1. created' = created
      BY DEF Changes
    <2>2. CASE created[id].by = "e2e"
      BY <1>2, <2>1, <2>2, LedgerFacts DEF FreshOK, NoneOfE2e
    <2>3. CASE created[id].by # "e2e"
      BY <1>2, <2>1, <2>3, LedgerFacts DEF FreshOK, NoneOfE2e
    <2> QED
      BY <2>2, <2>3
  <1>5. TokensConserved'
    <2>1. SumFunction(Pots') = SumFunction(Pots) + Held(id)' - Held(id)
      BY <1>1, <1>2, LedgerFacts, PotUpdate
    <2>2. SumFunction(tokens) \in Int /\ SumFunction(Pots) \in Int
      BY LedgerFacts, SumsAreInts
    <2>3. SumFunction(tokens') \in Int /\ SumFunction(Pots') \in Int
      <3>1. tokens' \in [Holders -> Int] /\ Pots' \in [StreamIds -> Int]
        BY <1>1 DEF LedgerTypeOK, Pots, Held, LedgerStreams
      <3> QED
        BY <3>1, HoldersFinite, Constants, SumInt
    <2>4. Held(id) \in Int /\ Held(id)' \in Int
      BY <1>2, LedgerFacts DEF Held, LedgerStreams
    <2> QED
      BY <2>1, <2>2, <2>3, <2>4, LedgerFacts DEF TokensConserved
  <1> QED
    BY <1>1, <1>3, <1>4, <1>5 DEF LedgerOK

\* How the ledger may change, and what only a transaction like tx can do to it.
Effects(tx) ==
    /\ LedgerOK'
    /\ Len(created') \in Nat /\ Len(created) <= Len(created')
    /\ \A i \in 1..Len(created) : created'[i] = created[i]
    /\ revealed \subseteq revealed'
    /\ \A i \in 1..Len(created) :
         streams'[i].funded = streams[i].funded \/ (tx.op = "fund" /\ i = tx.id)
    /\ tokens'["fresh"] = tokens["fresh"] \/ tx.op = "withdraw"
    /\ NoneOfE2e => NoneOfE2e' \/ (tx.op = "create" /\ tx.by = "e2e")

\* createStream: the new stream is the sender's and is not funded.
LEMMA CreateEffects ==
    ASSUME CInv, NEW tx, TxOK(tx), tx.op = "create", Len(created) < MaxStreams, Execute(tx)
    PROVE  /\ Effects(tx)
           /\ Len(created') = Len(created) + 1
           /\ \A id : id = Len(created') =>
                Owned(tx.by, id, tx.commitment)' /\ streams'[id].funded = 0
  <1>a. PICK id : id = Len(created) + 1
    OBVIOUS
  <1> DEFINE c == [by |-> tx.by, sealed |-> tx.sealed]
             s == Opened(tx.commitment)
  <1>0. /\ created' = Append(created, c)
        /\ streams' = [streams EXCEPT ![Len(created')] = s]
        /\ UNCHANGED <<revealed, tokens, allowance, refunded>>
    BY DEF Execute
  <1>1. /\ tx.by \in Programs /\ tx.sealed = tx.commitment /\ tx.commitment \in Drafts
        /\ tx.by = "e2e" => NoneOfE2e
    BY DEF TxOK, Transactions
  <1>2. /\ created \in Seq(Creations) /\ Len(created) \in Nat /\ Len(created) <= MaxStreams
        /\ MaxStreams \in Nat /\ StreamIds = 1..MaxStreams /\ id \in StreamIds /\ id \in Nat
        /\ c \in Creations
    BY <1>1, <1>a, LedgerFacts DEF LedgerTypeOK, Creations
  <1>3. c.by = tx.by /\ c.sealed = tx.commitment
    BY <1>1
  <1> HIDE DEF c
  <1>4. /\ created' \in Seq(Creations) /\ Len(created') = id
        /\ \A i \in 1..Len(created) : created'[i] = created[i]
        /\ created'[id] = c
    BY <1>0, <1>2, <1>a
  <1>5. /\ s \in LedgerStreams(Drafts) /\ s # Absent /\ s.commitment = tx.commitment
        /\ s.funded = 0 /\ s.withdrawn = 0 /\ s.cancelled = FALSE
    <2>1. s \in LedgerStreams(Drafts)
      BY <1>1 DEF Opened, LedgerStreams
    <2>2. s # Absent
      BY <2>1, Constants
    <2> QED
      BY <2>1, <2>2 DEF Opened
  <1> HIDE DEF s
  <1>6. streams \in [StreamIds -> LedgerStreams(Drafts) \cup {Absent}]
    BY LedgerFacts DEF LedgerTypeOK
  <1>7. /\ streams' \in [StreamIds -> LedgerStreams(Drafts) \cup {Absent}]
        /\ streams'[id] = s /\ \A i \in StreamIds \ {id} : streams'[i] = streams[i]
    BY <1>0, <1>2, <1>4, <1>5, <1>6
  <1>8. LedgerTypeOK'
    BY <1>0, <1>2, <1>4, <1>7, LedgerFacts DEF LedgerTypeOK
  <1>9. StreamOK(id) /\ streams[id] = Absent /\ refunded[id] = 0
    BY <1>2, <1>a, LedgerFacts DEF StreamOK
  <1>10. ASSUME NEW i \in StreamIds PROVE StreamOK(i)'
    <2>1. CASE i = id
      BY <1>0, <1>2, <1>3, <1>4, <1>5, <1>7, <1>9, <2>1 DEF StreamOK
    <2>2. CASE i # id
      <3>1. i > Len(created) <=> i > Len(created')
        BY <1>2, <1>4, <1>a, <2>2
      <3>2. ~(i > Len(created)) => created'[i] = created[i]
        BY <1>2, <1>4, <1>a
      <3> QED
        BY <1>0, <1>7, <2>2, <3>1, <3>2, LedgerFacts DEF StreamOK
    <2> QED
      BY <2>1, <2>2
  <1>11. FreshOK'
    <2>1. tokens'["fresh"] = tokens["fresh"]
      BY <1>0
    <2>2. \A i \in 1..Len(created) : i \in StreamIds \ {id} /\ streams'[i] = streams[i]
      BY <1>2, <1>7, <1>a
    <2>3. \A i \in 1..Len(created') : i \in 1..Len(created) \/ i = id
      BY <1>2, <1>4, <1>a
    <2>a. 1..Len(created) \subseteq 1..Len(created') /\ id \in 1..Len(created')
      BY <1>2, <1>4, <1>a
    <2>4. CASE tx.by = "e2e"
      <3>1. NoneOfE2e /\ tokens["fresh"] = 0
        BY <1>1, <2>4, LedgerFacts DEF FreshOK
      <3>2. \A i \in 1..Len(created') : created'[i].by = "e2e" => i = id
        BY <1>4, <2>3, <3>1 DEF NoneOfE2e
      <3>3. ~NoneOfE2e'
        BY <1>3, <1>4, <2>4, <2>a DEF NoneOfE2e
      <3> QED
        BY <1>5, <1>7, <2>1, <3>1, <3>2, <3>3 DEF FreshOK
    <2>5. CASE tx.by # "e2e"
      <3>1. NoneOfE2e' => NoneOfE2e
        BY <1>4, <2>a DEF NoneOfE2e
      <3>2. \A i \in 1..Len(created') : created'[i].by = "e2e" =>
              i \in 1..Len(created) /\ created[i].by = "e2e"
        BY <1>3, <1>4, <2>3, <2>5
      <3> QED
        BY <2>1, <2>2, <3>1, <3>2, LedgerFacts DEF FreshOK
    <2> QED
      BY <2>4, <2>5
  <1>12. TokensConserved'
    <2>1. SumFunction(Pots') = SumFunction(Pots) + Held(id)' - Held(id)
      BY <1>2, <1>7, <1>8, LedgerFacts, PotUpdate
    <2>2. Held(id) = 0 /\ Held(id)' = 0
      BY <1>5, <1>7, <1>9 DEF Held
    <2>3. SumFunction(Pots) \in Int
      BY LedgerFacts, SumsAreInts
    <2> QED
      BY <1>0, <2>1, <2>2, <2>3, LedgerFacts DEF TokensConserved
  <1>13. LedgerOK'
    BY <1>8, <1>10, <1>11, <1>12 DEF LedgerOK
  <1>14. \A i \in 1..Len(created) : streams'[i] = streams[i]
    BY <1>2, <1>7, <1>a
  <1>15. NoneOfE2e => NoneOfE2e' \/ tx.by = "e2e"
    <2>1. \A i \in 1..Len(created') : i \in 1..Len(created) \/ i = id
      BY <1>2, <1>4, <1>a
    <2> QED
      BY <1>3, <1>4, <2>1 DEF NoneOfE2e
  <1>16. Effects(tx)
    BY <1>0, <1>2, <1>4, <1>a, <1>13, <1>14, <1>15 DEF Effects
  <1> QED
    BY <1>2, <1>3, <1>4, <1>5, <1>7, <1>a, <1>16 DEF Owned

\* fund: the deposit leaves the employer and is in the pot, for the first time.
LEMMA FundEffects ==
    ASSUME CInv, NEW tx, TxOK(tx), tx.op = "fund", CanFund(tx), Execute(tx)
    PROVE  Effects(tx)
  <1> DEFINE id == tx.id
             s == AfterFund(streams[id], tx.amount)
  <1>0. /\ streams' = [streams EXCEPT ![id] = s]
        /\ tokens' = [tokens EXCEPT !["employer"] = @ - tx.amount]
        /\ allowance' = allowance - tx.amount
        /\ UNCHANGED <<created, revealed, refunded>>
    <2>1. id \in StreamIds
      BY LedgerFacts DEF TxOK, Owned
    <2> QED
      BY <2>1, LedgerFacts DEF Execute, LedgerTypeOK
  <1>1. /\ id \in 1..Len(created) /\ created[id].by = tx.by
        /\ tx.amount \in Funds(tx.by) /\ tx.amount \in Nat /\ streams[id].funded = 0
    BY Constants DEF TxOK, Owned
  <1>2. /\ ~streams[id].cancelled /\ tx.amount > 0 /\ allowance >= tx.amount
        /\ tokens["employer"] >= tx.amount
    BY DEF CanFund, IsOpen
  <1>3. /\ streams[id] \in LedgerStreams(Drafts) /\ streams[id].withdrawn = 0
        /\ streams[id] # Absent /\ id \in StreamIds /\ refunded[id] = 0
        /\ streams[id].withdrawn <= streams[id].funded
    BY <1>1, <1>2, LedgerFacts
  <1>4. /\ s \in LedgerStreams(Drafts) /\ s.commitment = streams[id].commitment
        /\ s.funded = tx.amount /\ s.withdrawn = 0 /\ s.cancelled = FALSE
    BY <1>1, <1>2, <1>3 DEF AfterFund, LedgerStreams
  <1> HIDE DEF s
  <1>5. tokens \in [Holders -> Nat] /\ "employer" \in Holders /\ "fresh" \in Holders
    BY LedgerFacts DEF LedgerTypeOK, Holders
  <1>6. /\ tokens' \in [Holders -> Nat] /\ \A a \in Holders \ {"employer"} : tokens'[a] = tokens[a]
        /\ tokens'["employer"] = tokens["employer"] - tx.amount
    BY <1>0, <1>1, <1>2, <1>5
  <1>7. allowance' \in Nat
    BY <1>0, <1>1, <1>2, LedgerFacts DEF LedgerTypeOK
  <1>8. Changes(id, s)
    BY <1>0, <1>1, <1>3, <1>4, <1>6, <1>7, LedgerFacts DEF Changes, LedgerTypeOK
  <1>9. /\ Held(id) = 0 /\ Held(id)' = tx.amount
    <2>1. streams'[id] = s /\ s # Absent
      BY <1>0, <1>3, <1>4, LedgerFacts, Constants DEF LedgerTypeOK
    <2> QED
      BY <1>1, <1>2, <1>3, <1>4, <2>1 DEF Held
  <1>10. SumFunction(tokens') - SumFunction(tokens) = Held(id) - Held(id)'
    <2>1. SumFunction(tokens') = SumFunction(tokens) + tokens'["employer"] - tokens["employer"]
      BY <1>5, <1>6, TokenUpdate
    <2>2. SumFunction(tokens) \in Int
      BY LedgerFacts, SumsAreInts
    <2> QED
      BY <1>1, <1>5, <1>6, <1>9, <2>1, <2>2
  <1>11. tokens'["fresh"] = tokens["fresh"] /\ tokens["fresh"] \in Nat
    BY <1>5, <1>6
  <1>12. created[id].by = "e2e" => s.withdrawn = tokens'["fresh"]
    BY <1>1, <1>3, <1>4, <1>11, LedgerFacts DEF FreshOK
  <1>13. LedgerOK'
    BY <1>1, <1>4, <1>8, <1>10, <1>11, <1>12, ChangedLedger
  <1>14. \A i \in 1..Len(created) : i # id => streams'[i] = streams[i]
    BY <1>0, LedgerFacts DEF LedgerTypeOK
  <1> QED
    BY <1>0, <1>11, <1>13, <1>14, LedgerFacts DEF Effects, NoneOfE2e

\* Paying what was signed: by a withdrawal of e2e or of Alice.
LEMMA WithdrawEffects ==
    ASSUME CInv, NEW id \in 1..Len(created), NEW auth \in Authorizations,
           NEW tx, NEW a \in {"fresh", "alice"},
           a = "fresh" => created[id].by = "e2e" /\ tx.op = "withdraw",
           a = "alice" => created[id].by # "e2e",
           CanWithdraw(streams[id], auth, clock),
           streams' = [streams EXCEPT ![id] = AfterWithdraw(@, auth)],
           tokens' = [tokens EXCEPT ![a] = @ + Pays(id, auth)],
           UNCHANGED <<created, revealed, allowance, refunded>>
    PROVE  Effects(tx)
  <1> DEFINE s == AfterWithdraw(streams[id], auth)
             pays == Pays(id, auth)
  <1>1. /\ streams[id] \in LedgerStreams(Drafts) /\ streams[id] # Absent /\ id \in StreamIds
        /\ streams[id].withdrawn <= streams[id].funded
        /\ streams[id].funded \in Nat /\ streams[id].withdrawn \in Nat
        /\ streams[id].funded \in {0} \cup Funds(created[id].by)
    BY LedgerFacts DEF StreamOK
  <1>2. ~streams[id].cancelled /\ refunded[id] = 0
    BY LedgerFacts DEF CanWithdraw, IsOpen
  <1>3. /\ s \in LedgerStreams(Drafts) /\ s.commitment = streams[id].commitment
        /\ s.funded = streams[id].funded /\ s.cancelled = streams[id].cancelled
        /\ s.withdrawn = AfterCancel(streams[id], auth).withdrawn
        /\ streams[id].withdrawn < s.withdrawn
        /\ AfterCancel(streams[id], auth).withdrawn <= streams[id].funded
    BY <1>1, RecordAfter
  <1>4. pays = s.withdrawn - streams[id].withdrawn /\ s.withdrawn \in Nat /\ pays \in Nat
    BY <1>1, <1>3 DEF Pays, LedgerStreams
  <1>5. streams \in [StreamIds -> LedgerStreams(Drafts) \cup {Absent}]
    BY LedgerFacts DEF LedgerTypeOK
  <1>6. streams' = [streams EXCEPT ![id] = s]
    BY <1>1, <1>5
  <1> HIDE DEF s, pays
  <1>7. tokens \in [Holders -> Nat] /\ a \in Holders /\ "fresh" \in Holders
    BY LedgerFacts DEF LedgerTypeOK, Holders
  <1>8. tokens' = [tokens EXCEPT ![a] = @ + pays]
    BY DEF pays
  <1>9. /\ tokens' \in [Holders -> Nat] /\ \A b \in Holders \ {a} : tokens'[b] = tokens[b]
        /\ tokens'[a] = tokens[a] + pays
    BY <1>4, <1>7, <1>8
  <1>10. Changes(id, s)
    BY <1>1, <1>2, <1>3, <1>4, <1>6, <1>9, LedgerFacts DEF Changes, LedgerTypeOK
  <1>11. /\ streams'[id] = s /\ s # Absent
    BY <1>1, <1>3, <1>5, <1>6, Constants
  <1>12. Held(id) - Held(id)' = pays
    BY <1>1, <1>2, <1>3, <1>4, <1>11 DEF Held
  <1>13. SumFunction(tokens') - SumFunction(tokens) = pays
    <2>1. SumFunction(tokens') = SumFunction(tokens) + tokens'[a] - tokens[a]
      BY <1>7, <1>9, TokenUpdate
    <2>2. SumFunction(tokens) \in Int /\ tokens[a] \in Nat
      BY <1>7, LedgerFacts, SumsAreInts
    <2> QED
      BY <1>4, <1>9, <2>1, <2>2
  <1>14. IF created[id].by = "e2e" THEN s.withdrawn = tokens'["fresh"]
                                         /\ tokens["fresh"] <= tokens'["fresh"]
         ELSE tokens'["fresh"] = tokens["fresh"]
    <2>1. CASE a = "fresh"
      <3>1. tokens["fresh"] = streams[id].withdrawn
        BY <2>1, LedgerFacts DEF FreshOK
      <3> QED
        BY <1>1, <1>4, <1>9, <2>1, <3>1
    <2>2. CASE a = "alice"
      BY <1>7, <1>9, <2>2
    <2> QED
      BY <2>1, <2>2
  <1>15. LedgerOK'
    BY <1>3, <1>10, <1>12, <1>13, <1>14, ChangedLedger
  <1>16. \A i \in 1..Len(created) : streams'[i].funded = streams[i].funded
    BY <1>3, <1>5, <1>6, <1>11, LedgerFacts
  <1>17. tokens'["fresh"] = tokens["fresh"] \/ tx.op = "withdraw"
    BY <1>7, <1>9
  <1> QED
    BY <1>15, <1>16, <1>17, LedgerFacts DEF Effects, NoneOfE2e

\* cancelStream: the pot is split between recipient and employer.
LEMMA CancelEffects ==
    ASSUME CInv, NEW tx, TxOK(tx), tx.op = "cancel",
           CanCancel(streams[tx.id], tx.auth, clock), Execute(tx)
    PROVE  Effects(tx)
  <1> DEFINE id == tx.id
             s == AfterCancel(streams[id], tx.auth)
             back == s.funded - s.withdrawn
             pays == s.withdrawn - streams[id].withdrawn
  <1>0. /\ streams' = [streams EXCEPT ![id] = s]
        /\ refunded' = [refunded EXCEPT ![id] = back]
        /\ tokens' = [tokens EXCEPT !["employer"] = @ + s.funded - s.withdrawn,
                                    !["alice"] = @ + pays]
        /\ UNCHANGED <<created, revealed, allowance>>
    BY DEF Execute, Pays, TxOK, RecipientOf
  <1>1. /\ id \in 1..Len(created) /\ created[id].by = "settle" /\ tx.auth \in Authorizations
    BY DEF TxOK, Owned
  <1>2. /\ streams[id] \in LedgerStreams(Drafts) /\ streams[id] # Absent /\ id \in StreamIds
        /\ streams[id].withdrawn <= streams[id].funded
        /\ streams[id].funded \in Nat /\ streams[id].withdrawn \in Nat
        /\ streams[id].funded \in {0} \cup Funds(created[id].by)
    BY <1>1, LedgerFacts DEF StreamOK
  <1>3. ~streams[id].cancelled
    BY DEF CanCancel, IsOpen
  <1>4. /\ s \in LedgerStreams(Drafts) /\ s.commitment = streams[id].commitment
        /\ s.funded = streams[id].funded /\ s.cancelled
        /\ streams[id].withdrawn <= s.withdrawn /\ s.withdrawn <= streams[id].funded
    BY <1>1, <1>2, RecordAfter
  <1>5. s.withdrawn \in Nat /\ s.funded \in Nat /\ back \in Nat /\ pays \in Nat
    BY <1>2, <1>4 DEF LedgerStreams
  <1>6. back + pays = streams[id].funded - streams[id].withdrawn
    BY <1>2, <1>4, <1>5
  <1>7. tokens \in [Holders -> Nat] /\ {"employer", "alice", "fresh"} \subseteq Holders
    BY LedgerFacts DEF LedgerTypeOK, Holders
  <1> DEFINE mid == [tokens EXCEPT !["employer"] = @ + s.funded - s.withdrawn]
  <1>8. /\ mid \in [Holders -> Nat] /\ \A b \in Holders \ {"employer"} : mid[b] = tokens[b]
        /\ mid["employer"] = tokens["employer"] + back
    BY <1>5, <1>7
  <1>9. tokens' = [mid EXCEPT !["alice"] = @ + pays]
    BY <1>0
  <1>10. created' = created /\ revealed' = revealed /\ allowance' = allowance
    BY <1>0
  <1>11. streams' = [streams EXCEPT ![id] = s] /\ refunded' = [refunded EXCEPT ![id] = back]
    BY <1>0
  <1> HIDE DEF s, back, pays, mid
  <1>12. /\ tokens' \in [Holders -> Nat] /\ \A b \in Holders \ {"alice"} : tokens'[b] = mid[b]
         /\ tokens'["alice"] = mid["alice"] + pays
    BY <1>5, <1>7, <1>8, <1>9
  <1>13. streams \in [StreamIds -> LedgerStreams(Drafts) \cup {Absent}]
         /\ refunded \in [StreamIds -> Nat] /\ allowance \in Nat
    BY LedgerFacts DEF LedgerTypeOK
  <1>14. Changes(id, s)
    BY <1>2, <1>4, <1>5, <1>10, <1>11, <1>12, <1>13 DEF Changes
  <1>15. streams'[id] = s /\ s # Absent
    BY <1>2, <1>4, <1>11, <1>13, Constants
  <1>16. Held(id) - Held(id)' = back + pays
    BY <1>2, <1>3, <1>4, <1>5, <1>6, <1>15 DEF Held
  <1>17. SumFunction(tokens') - SumFunction(tokens) = back + pays
    <2>1. SumFunction(mid) = SumFunction(tokens) + mid["employer"] - tokens["employer"]
      BY <1>7, <1>8, TokenUpdate
    <2>2. SumFunction(tokens') = SumFunction(mid) + tokens'["alice"] - mid["alice"]
      BY <1>7, <1>8, <1>12, TokenUpdate
    <2>3. SumFunction(tokens) \in Int /\ tokens["employer"] \in Nat /\ mid["alice"] \in Nat
      BY <1>7, <1>8, LedgerFacts, SumsAreInts
    <2> QED
      BY <1>5, <1>8, <1>12, <2>1, <2>2, <2>3
  <1>18. tokens'["fresh"] = tokens["fresh"]
    BY <1>7, <1>8, <1>12
  <1>19. LedgerOK'
    BY <1>1, <1>4, <1>14, <1>16, <1>17, <1>18, ChangedLedger
  <1>20. \A i \in 1..Len(created) : streams'[i].funded = streams[i].funded
    BY <1>4, <1>11, <1>13, <1>15, LedgerFacts
  <1> QED
    BY <1>10, <1>18, <1>19, <1>20, LedgerFacts DEF Effects, NoneOfE2e

------------------------------------------------------------------------------
(* What it does to the programs and to the other transactions *)

\* A program that the mined transaction is not news to stays in order.
LEMMA JobSurvives ==
    ASSUME CInv, NEW q \in DOMAIN job, job'[q] = job[q], NEW tx, Effects(tx),
           \A i \in Nat : Pending(q, i) => ~(tx.op = "fund" /\ i = tx.id),
           q = "e2e" /\ job[q].at > 11 => tx.op # "withdraw",
           q = "e2e" /\ job[q].at <= 2 /\ ~job[q].sent => ~(tx.op = "create" /\ tx.by = "e2e")
    PROVE  JobOK(q)'
  <1>1. /\ Len(created) \in Nat /\ Len(created') \in Nat /\ Len(created) <= Len(created')
        /\ \A i \in 1..Len(created) : created'[i] = created[i]
    BY LedgerFacts DEF Effects
  <1>2. \A i, d : Owned(q, i, d) => Owned(q, i, d)'
    BY <1>1 DEF Owned
  <1>3. \A i : Pending(q, i)' <=> Pending(q, i)
    BY DEF Pending
  <1>4. JobTypeOK(q)'
    BY JobFields DEF JobTypeOK, Asked, Op
  <1>5. \A i \in Nat : Pending(q, i)' => Owned(q, i, job[q].draft)' /\ streams'[i].funded = 0
    <2> SUFFICES ASSUME NEW i \in Nat, Pending(q, i)
                 PROVE  Owned(q, i, job[q].draft)' /\ streams'[i].funded = 0
      BY <1>3
    <2>1. Owned(q, i, job[q].draft) /\ streams[i].funded = 0
      BY JobFields DEF JobLedgerOK
    <2>2. PICK d : d = job[q].draft
      OBVIOUS
    <2>3. Owned(q, i, d)'
      BY <1>2, <2>1, <2>2
    <2> QED
      BY <2>1, <2>2, <2>3 DEF Effects, Owned
  <1>6. JobLedgerOK(q)'
    <2>1. PICK d, id : d = job[q].draft /\ id = job[q].id
      OBVIOUS
    <2>2. id # None => Owned(q, id, d)' /\ job[q].at >= CreateAt(q)
      BY <1>2, <2>1, JobFields DEF JobLedgerOK
    <2>3. job[q].at > CreateAt(q) => job[q].id # None
      BY JobFields DEF JobLedgerOK
    <2>4. Op(q) = "reveal" /\ job[q].receipt # None /\ job[q].receipt.success
            => job[q].id \in revealed'
      BY JobFields DEF JobLedgerOK, Effects
    <2> QED
      BY <1>5, <2>1, <2>2, <2>3, <2>4 DEF JobLedgerOK, Owned, Op
  <1>7. q = "e2e" => E2eOK'
    <2> SUFFICES ASSUME q = "e2e" PROVE E2eOK'
      OBVIOUS
    <2>1. E2eOK
      BY JobFields
    <2>2. job[q].at <= 2 /\ ~job[q].sent => NoneOfE2e'
      BY <2>1 DEF E2eOK, Effects
    <2>3. job[q].at > 11 => tokens'["fresh"] = tokens["fresh"]
      BY DEF Effects
    <2> QED
      BY <2>1, <2>2, <2>3 DEF E2eOK, Effects
  <1> QED
    BY <1>4, <1>6, <1>7 DEF JobOK

\* A transaction stays in order when another one is mined.
LEMMA TxSurvives ==
    ASSUME CInv, NEW t, TxOK(t), DOMAIN job' = DOMAIN job,
           job'[t.by].attempt = job[t.by].attempt,
           t.attempt = job[t.by].attempt => job'[t.by] = job[t.by],
           NEW tx, Effects(tx),
           t.op = "fund" => /\ ~(tx.op = "fund" /\ t.id = tx.id)
                            /\ \A q \in DOMAIN job : ~Pending(q, t.id)',
           t.op = "create" /\ t.by = "e2e" => ~(tx.op = "create" /\ tx.by = "e2e")
    PROVE  TxOK(t)'
  <1>1. /\ Len(created) \in Nat /\ Len(created') \in Nat /\ Len(created) <= Len(created')
        /\ \A i \in 1..Len(created) : created'[i] = created[i]
    BY LedgerFacts DEF Effects
  <1>2. Owned(t.by, t.id, t.commitment) => Owned(t.by, t.id, t.commitment)'
    BY <1>1 DEF Owned
  <1>3. t.op = "fund" => streams'[t.id].funded = 0
    BY DEF TxOK, Owned, Effects
  <1>4. t.op = "create" /\ t.by = "e2e" => NoneOfE2e'
    BY DEF TxOK, Effects
  <1>5. t.attempt = job'[t.by].attempt => Present(t)'
    BY DEF TxOK, Present, Op
  <1> QED
    BY <1>2, <1>3, <1>4, <1>5 DEF TxOK

\* The programs and the rest of the pool after the first transaction is mined.
LEMMA MineWorld ==
    ASSUME CInv, Mine, NEW tx, tx = Head(pool), Effects(tx),
           CanExecute(tx) /\ tx.op = "create" =>
              /\ Len(created') = Len(created) + 1
              /\ \A id : id = Len(created') =>
                   Owned(tx.by, id, tx.commitment)' /\ streams'[id].funded = 0,
           CanExecute(tx) /\ tx.op = "reveal" => tx.id \in revealed'
    PROVE  CInv'
  <1> DEFINE awaited == /\ job[tx.by].state = "running" /\ job[tx.by].sent
                        /\ job[tx.by].attempt = tx.attempt
             r == [success |-> CanExecute(tx), id |-> Len(created')]
  <1>1. /\ pool # <<>> /\ pool' = Tail(pool)
        /\ job' = IF awaited THEN [job EXCEPT ![tx.by].receipt = r] ELSE job
        /\ UNCHANGED <<form, port, clock>>
    BY DEF Mine
  <1>2. /\ pool \in Seq(Transactions) /\ Len(pool) \in Nat /\ Len(pool) >= 1 /\ tx = pool[1]
        /\ 1 \in DOMAIN pool
        /\ pool' \in Seq(Transactions) /\ DOMAIN pool' = 1..(Len(pool) - 1)
        /\ \A i \in 1..(Len(pool) - 1) : i + 1 \in DOMAIN pool /\ pool'[i] = pool[i + 1]
    BY <1>1 DEF CInv, PoolOK
  <1>3. TxOK(tx) /\ tx.by \in DOMAIN job /\ \A i \in DOMAIN pool : TxOK(pool[i])
    BY <1>2 DEF CInv, PoolOK, TxOK
  <1>4. r \in Receipts /\ r # None /\ r.id = Len(created') /\ r.success = CanExecute(tx)
    <2>1. tx.op \in Calls
      BY <1>3 DEF TxOK, Transactions
    <2>2. CanExecute(tx) \in BOOLEAN
      BY <2>1 DEF CanExecute, CanFund, CanWithdraw, CanCancel, IsOpen, Calls
    <2>3. Len(created') \in Nat
      BY DEF Effects
    <2> QED
      BY <2>2, <2>3, Constants DEF Receipts
  <1>5. DOMAIN job' = DOMAIN job /\ \A q \in DOMAIN job \ {tx.by} : job'[q] = job[q]
    BY <1>1
  <1>6. ~awaited => job' = job
    BY <1>1
  <1>7. awaited => /\ Present(tx)
                   /\ job'[tx.by] = [job[tx.by] EXCEPT !.receipt = r]
    BY <1>1, <1>3 DEF TxOK
  <1> HIDE DEF r
  <1>8. awaited => /\ job'[tx.by] \in Jobs /\ job'[tx.by].state = job[tx.by].state
                   /\ job'[tx.by].at = job[tx.by].at /\ job'[tx.by].attempt = job[tx.by].attempt
                   /\ job'[tx.by].sent = job[tx.by].sent /\ job'[tx.by].receipt = r
                   /\ job'[tx.by].id = job[tx.by].id /\ job'[tx.by].draft = job[tx.by].draft
                   /\ job'[tx.by].sealed = job[tx.by].sealed /\ job'[tx.by].fund = job[tx.by].fund
                   /\ job'[tx.by].auth = job[tx.by].auth /\ job'[tx.by].seen = job[tx.by].seen
    <2>1. job[tx.by] \in Jobs
      BY <1>3, JobFields DEF JobTypeOK
    <2> QED
      BY <1>4, <1>7, <2>1 DEF Jobs
  <1>9. \A q \in DOMAIN job : job'[q].attempt = job[q].attempt
    BY <1>5, <1>6, <1>8
  <1> HIDE DEF awaited
  \* What tx, a transaction of its sender's present attempt if a script sent it, cannot be.
  <1>10. tx.by = "e2e" => Present(tx)
    <2>1. tx.by = "e2e" => job[tx.by].attempt = 0
      BY <1>3, JobFields DEF JobTypeOK
    <2>2. tx.attempt \in Nat /\ tx.attempt <= job[tx.by].attempt
      BY <1>3 DEF TxOK, Transactions
    <2> QED
      BY <1>3, <2>1, <2>2 DEF TxOK
  <1>11. tx.op = "withdraw" => tx.by = "e2e" /\ job["e2e"].at = 10
    <2>1. tx.op = "withdraw" => tx.by = "e2e"
      BY <1>3 DEF TxOK
    <2> QED
      BY <1>3, <1>10, <2>1, JobFields, ProgramFacts DEF Present, Op
  <1>12. \A q \in DOMAIN job : \A i \in Nat : Pending(q, i) => ~(tx.op = "fund" /\ i = tx.id)
    BY <1>3 DEF TxOK
  \* The stream that p has now, if its creation was mined.
  <1>13. ASSUME NEW q \in DOMAIN job, NEW i, Pending(q, i)'
         PROVE  \/ Pending(q, i)
                \/ /\ q = tx.by /\ awaited /\ tx.op = "create" /\ CanExecute(tx)
                   /\ i = Len(created')
    <2>1. CASE q # tx.by \/ ~awaited
      BY <1>5, <1>6, <1>13, <2>1 DEF Pending
    <2>2. CASE q = tx.by /\ awaited
      <3>1. CASE job'[q].at = CreateAt(q) /\ job'[q].receipt.success /\ i = job'[q].receipt.id
        <4>1. Op(q) = "create"
          BY <1>8, <2>2, <3>1, JobFields, ProgramFacts DEF Op
        <4> QED
          BY <1>4, <1>7, <1>8, <2>2, <3>1, <4>1 DEF Present
      <3>2. CASE ~(job'[q].at = CreateAt(q) /\ job'[q].receipt.success /\ i = job'[q].receipt.id)
        BY <1>8, <1>13, <2>2, <3>2 DEF Pending
      <3> QED
        BY <3>1, <3>2
    <2> QED
      BY <2>1, <2>2
  <1>14. ASSUME NEW q \in DOMAIN job, q # tx.by \/ ~awaited PROVE JobOK(q)'
    <2>1. job'[q] = job[q]
      BY <1>5, <1>6, <1>14
    <2>2. q = "e2e" /\ job[q].at <= 2 /\ ~job[q].sent => ~(tx.op = "create" /\ tx.by = "e2e")
      BY <1>10 DEF Present
    <2>3. q = "e2e" /\ job[q].at > 11 => tx.op # "withdraw"
      BY <1>11
    <2> QED
      BY <1>12, <2>1, <2>2, <2>3, JobSurvives
  <1>15. ASSUME awaited PROVE JobOK(tx.by)'
    <2> DEFINE p == tx.by
    <2>1. p \in DOMAIN job /\ JobTypeOK(p) /\ JobLedgerOK(p) /\ (p = "e2e" => E2eOK)
      BY <1>3, JobFields
    <2>2. Present(tx) /\ job[p].sent /\ job[p].state = "running"
      BY <1>7, <1>15 DEF Present, awaited
    <2>3. JobTypeOK(p)'
      BY <1>4, <1>8, <1>15, <2>1, <2>2 DEF JobTypeOK, Asked, Op
    <2>4. /\ Len(created) \in Nat /\ Len(created') \in Nat /\ Len(created) <= Len(created')
          /\ \A i \in 1..Len(created) : created'[i] = created[i]
      BY LedgerFacts DEF Effects
    <2>5. PICK d, id : d = job[p].draft /\ id = job[p].id
      OBVIOUS
    <2>6. \A i : Owned(p, i, d) => Owned(p, i, d)'
      BY <2>4 DEF Owned
    <2>7. id # None => Owned(p, id, d)' /\ job[p].at >= CreateAt(p)
      BY <2>1, <2>5, <2>6 DEF JobLedgerOK
    <2>8. ASSUME NEW i \in Nat, Pending(p, i)' PROVE Owned(p, i, d)' /\ streams'[i].funded = 0
      <3>1. CASE Pending(p, i)
        <4>1. Owned(p, i, d) /\ streams[i].funded = 0
          BY <2>1, <2>5, <3>1 DEF JobLedgerOK
        <4>2. ~(tx.op = "fund" /\ i = tx.id)
          BY <1>12, <2>1, <3>1
        <4> QED
          BY <2>6, <4>1, <4>2 DEF Effects, Owned
      <3>2. CASE tx.op = "create" /\ CanExecute(tx) /\ i = Len(created')
        BY <2>2, <2>5, <3>2 DEF Present
      <3> QED
        BY <1>13, <2>1, <2>8, <3>1, <3>2
    <2>9. Op(p) = "reveal" /\ r.success => id \in revealed'
      BY <1>4, <2>2, <2>5 DEF Present
    <2>10. job[p].at > CreateAt(p) => id # None
      BY <2>1, <2>5 DEF JobLedgerOK
    <2>11. JobLedgerOK(p)'
      BY <1>8, <1>15, <2>5, <2>7, <2>8, <2>9, <2>10 DEF JobLedgerOK, Owned, Op
    <2>12. p = "e2e" => E2eOK'
      <3> SUFFICES ASSUME p = "e2e" PROVE E2eOK'
        OBVIOUS
      <3>1. job[p].at > 11 => tokens'["fresh"] = tokens["fresh"]
        BY <1>11 DEF Effects
      <3> QED
        BY <1>8, <1>15, <2>1, <2>2, <3>1 DEF E2eOK
    <2> QED
      BY <2>3, <2>11, <2>12 DEF JobOK
  <1>16. \A q \in DOMAIN job' : JobOK(q)'
    BY <1>5, <1>14, <1>15
  <1>17. ASSUME NEW i \in DOMAIN pool, i # 1, NEW t, t = pool[i] PROVE TxOK(t)'
    <2>1. /\ TxOK(t) /\ t.by \in DOMAIN job
          /\ t.by = tx.by => t.attempt # tx.attempt
          /\ t.op = "fund" /\ tx.op = "fund" => t.id # tx.id
      <3>1. TxOK(t)
        BY <1>3, <1>17
      <3> QED
        BY <1>2, <1>17, <3>1 DEF CInv, PoolOK, TxOK
    <2>2. t.attempt = job[t.by].attempt => job'[t.by] = job[t.by]
      <3>1. CASE t.by = tx.by /\ awaited
        BY <2>1, <3>1 DEF awaited
      <3>2. CASE ~(t.by = tx.by /\ awaited)
        BY <1>5, <1>6, <2>1, <3>2
      <3> QED
        BY <3>1, <3>2
    <2>3. t.op = "fund" => \A q \in DOMAIN job : ~Pending(q, t.id)'
      <3> SUFFICES ASSUME t.op = "fund", NEW q \in DOMAIN job, Pending(q, t.id)' PROVE FALSE
        OBVIOUS
      <3>1. t.id \in 1..Len(created) /\ ~Pending(q, t.id)
        BY <2>1 DEF TxOK, Owned
      <3>2. tx.op = "create" /\ CanExecute(tx) /\ t.id = Len(created')
        BY <1>13, <3>1
      <3> QED
        BY <3>1, <3>2, LedgerFacts
    <2>4. t.op = "create" /\ t.by = "e2e" => ~(tx.op = "create" /\ tx.by = "e2e")
      <3>1. tx.by = "e2e" => tx.attempt = 0
        <4>1. tx.by = "e2e" => job[tx.by].attempt = 0
          BY <1>3, JobFields DEF JobTypeOK
        <4> QED
          BY <1>3, <4>1 DEF TxOK, Transactions
      <3>2. t.by = "e2e" => t.attempt = 0
        <4>1. t.by = "e2e" => job[t.by].attempt = 0
          BY <2>1, JobFields DEF JobTypeOK
        <4> QED
          BY <2>1, <4>1 DEF TxOK, Transactions
      <3> QED
        BY <2>1, <3>1, <3>2
    <2> QED
      BY <1>5, <1>9, <2>1, <2>2, <2>3, <2>4, TxSurvives
  <1>18. PoolOK'
    <2>1. ASSUME NEW i \in DOMAIN pool' PROVE TxOK(pool[i])'
      <3>1. PICK t : t = pool'[i]
        OBVIOUS
      <3>2. i + 1 \in DOMAIN pool /\ i + 1 # 1 /\ t = pool[i + 1]
        BY <1>2, <2>1, <3>1
      <3>3. TxOK(t)'
        BY <1>17, <3>2
      <3> QED
        BY <3>1, <3>3
    <2>2. \A i, j \in DOMAIN pool' :
            i # j => /\ pool'[i].by = pool'[j].by => pool'[i].attempt # pool'[j].attempt
                     /\ pool'[i].op = "fund" /\ pool'[j].op = "fund" => pool'[i].id # pool'[j].id
      <3> SUFFICES ASSUME NEW i \in DOMAIN pool', NEW j \in DOMAIN pool', i # j
                   PROVE  /\ pool'[i].by = pool'[j].by => pool'[i].attempt # pool'[j].attempt
                          /\ pool'[i].op = "fund" /\ pool'[j].op = "fund" => pool'[i].id # pool'[j].id
        OBVIOUS
      <3>1. /\ i + 1 \in DOMAIN pool /\ j + 1 \in DOMAIN pool /\ i + 1 # j + 1
            /\ pool'[i] = pool[i + 1] /\ pool'[j] = pool[j + 1]
        BY <1>2
      <3> QED
        BY <3>1 DEF CInv, PoolOK
    <2> QED
      BY <1>2, <2>1, <2>2 DEF PoolOK
  <1>19. WorldOK'
    BY <1>1, <1>5 DEF CInv, WorldOK
  <1> QED
    BY <1>16, <1>18, <1>19 DEF CInv, Effects

\* The first transaction of the pool is mined, executed or reverted.
LEMMA MineStep ==
    ASSUME CInv, Mine
    PROVE  CInv'
  <1>1. PICK tx : tx = Head(pool)
    OBVIOUS
  <1>2. TxOK(tx) /\ tx.op \in Calls
    BY <1>1 DEF Mine, CInv, PoolOK, TxOK, Transactions
  <1>3. IF CanExecute(tx) THEN Execute(tx) ELSE UNCHANGED ledger
    BY <1>1 DEF Mine
  <1>4. ASSUME ~CanExecute(tx) PROVE Effects(tx)
    <2>1. UNCHANGED ledger
      BY <1>3, <1>4
    <2>2. LedgerOK'
      BY <2>1, LedgerKept DEF CInv
    <2> QED
      BY <2>1, <2>2, LedgerFacts DEF Effects, ledger, NoneOfE2e
  <1>5. ASSUME CanExecute(tx), tx.op = "create"
        PROVE  /\ Effects(tx)
               /\ Len(created') = Len(created) + 1
               /\ \A id : id = Len(created') =>
                    Owned(tx.by, id, tx.commitment)' /\ streams'[id].funded = 0
    <2>1. Len(created) < MaxStreams
      BY <1>1, <1>5 DEF Mine
    <2> QED
      BY <1>2, <1>3, <1>5, <2>1, CreateEffects
  <1>6. ASSUME CanExecute(tx), tx.op = "approve" PROVE Effects(tx)
    <2>1. allowance' = tx.amount /\ UNCHANGED <<streams, created, revealed, tokens, refunded>>
      BY <1>3, <1>6 DEF Execute
    <2>2. tx.amount \in Nat
      BY <1>2 DEF TxOK, Transactions
    <2>3. LedgerOK'
      BY <2>1, <2>2, LedgerFacts DEF LedgerOK, LedgerTypeOK, StreamOK, FreshOK, NoneOfE2e,
            TokensConserved, Pots, Held
    <2> QED
      BY <2>1, <2>3, LedgerFacts DEF Effects, NoneOfE2e
  <1>7. ASSUME CanExecute(tx), tx.op = "fund" PROVE Effects(tx)
    BY <1>2, <1>3, <1>7, FundEffects DEF CanExecute
  <1>8. ASSUME CanExecute(tx), tx.op = "withdraw" PROVE Effects(tx)
    <2>1. tx.by = "e2e" /\ tx.id \in 1..Len(created) /\ created[tx.id].by = "e2e"
      BY <1>2, <1>8 DEF TxOK, Owned
    <2>2. RecipientOf(tx.by) = "fresh"
      BY <2>1 DEF RecipientOf
    <2>3. tx.auth \in Authorizations
      BY <1>2, <1>8 DEF TxOK
    <2>4. CanWithdraw(streams[tx.id], tx.auth, clock)
      BY <1>8 DEF CanExecute
    <2>5. /\ streams' = [streams EXCEPT ![tx.id] = AfterWithdraw(@, tx.auth)]
          /\ tokens' = [tokens EXCEPT !["fresh"] = @ + Pays(tx.id, tx.auth)]
          /\ UNCHANGED <<created, revealed, allowance, refunded>>
      BY <1>3, <1>8, <2>2 DEF Execute
    <2> QED
      BY <1>8, <2>1, <2>3, <2>4, <2>5, WithdrawEffects
  <1>9. ASSUME CanExecute(tx), tx.op = "cancel" PROVE Effects(tx)
    BY <1>2, <1>3, <1>9, CancelEffects DEF CanExecute
  <1>10. ASSUME CanExecute(tx), tx.op = "reveal" PROVE Effects(tx) /\ tx.id \in revealed'
    <2>1. /\ revealed' = revealed \cup {tx.id}
          /\ UNCHANGED <<streams, created, tokens, allowance, refunded>>
      BY <1>3, <1>10 DEF Execute
    <2>2. LedgerOK'
      BY <2>1, LedgerFacts DEF LedgerOK, LedgerTypeOK, StreamOK, FreshOK, NoneOfE2e,
            TokensConserved, Pots, Held
    <2> QED
      BY <2>1, <2>2, LedgerFacts DEF Effects, NoneOfE2e
  <1>11. Effects(tx)
    BY <1>2, <1>4, <1>5, <1>6, <1>7, <1>8, <1>9, <1>10 DEF Calls
  <1> QED
    BY <1>1, <1>5, <1>10, <1>11, MineWorld

\* A withdrawal by Alice touches nothing that a program or a transaction counts on.
LEMMA AliceStep ==
    ASSUME CInv, NEW id \in 1..Len(created), NEW t \in BACKDATE..clock, AliceWithdraws(id, t)
    PROVE  CInv'
  <1> DEFINE auth == authorizedAt(created[id].sealed.terms, t)
             tx == [op |-> "none", by |-> "page", id |-> 0]
  <1>1. created[id].by \in Programs /\ created[id].sealed \in Drafts
    BY LedgerFacts DEF Creations
  <1>2. created[id].by # "e2e"
    BY <1>1 DEF AliceWithdraws, RecipientOf, Programs
  <1>3. t \in Nat
    BY Constants DEF CInv, WorldOK
  <1>4. auth \in Authorizations
    BY <1>1, <1>3, AuthorizedType
  <1>5. /\ CanWithdraw(streams[id], auth, clock)
        /\ streams' = [streams EXCEPT ![id] = AfterWithdraw(@, auth)]
        /\ tokens' = [tokens EXCEPT !["alice"] = @ + Pays(id, auth)]
        /\ UNCHANGED <<created, revealed, allowance, refunded>>
        /\ UNCHANGED <<job, form, pool, port, clock>>
    BY DEF AliceWithdraws
  <1> HIDE DEF auth
  <1>6. tx.op = "none" /\ tx.by = "page" /\ tx.id = 0
    OBVIOUS
  <1> HIDE DEF tx
  <1>7. tx.op # "fund" /\ tx.op # "withdraw" /\ tx.op # "create"
    BY <1>6
  <1>8. Effects(tx)
    BY <1>2, <1>4, <1>5, WithdrawEffects
  <1>9. ASSUME NEW q \in DOMAIN job PROVE JobOK(q)'
    BY <1>5, <1>7, <1>8, JobSurvives
  <1>10. ASSUME NEW i \in DOMAIN pool PROVE TxOK(pool[i])'
    <2>1. PICK x : x = pool[i]
      OBVIOUS
    <2>2. TxOK(x) /\ x.by \in DOMAIN job
      BY <2>1 DEF CInv, PoolOK, TxOK
    <2>3. x.op = "fund" => \A q \in DOMAIN job : ~Pending(q, x.id)'
      BY <1>5, <2>2 DEF TxOK, Pending
    <2>4. TxOK(x)'
      BY <1>5, <1>7, <1>8, <2>2, <2>3, TxSurvives
    <2> QED
      BY <1>5, <2>1, <2>4
  <1>11. PoolOK'
    BY <1>5, <1>10 DEF CInv, PoolOK
  <1>12. WorldOK'
    BY <1>5 DEF CInv, WorldOK
  <1> QED
    BY <1>5, <1>8, <1>9, <1>11, <1>12 DEF CInv, Effects

\* Steps of none of the programs, and no steps at all.
LEMMA StillStep ==
    ASSUME CInv, UNCHANGED <<job, pool, ledger>>, WorldOK'
    PROVE  CInv'
  <1>1. LedgerOK'
    BY LedgerKept DEF CInv
  <1>2. \A q \in DOMAIN job' : JobOK(q)'
    BY OtherKept DEF CInv
  <1>3. \A tx : TxOK(tx) => TxOK(tx)'
    BY Zenon DEF TxOK, Present, Owned, Pending, NoneOfE2e, Op, ledger
  <1>4. PoolOK'
    BY <1>3 DEF CInv, PoolOK
  <1> QED
    BY <1>1, <1>2, <1>4 DEF CInv

\* Every step keeps the invariant.
LEMMA NextStep ==
    ASSUME CInv, [Next]_vars
    PROVE  CInv'
  <1>1. ASSUME NEW p \in DOMAIN job, Step(p) PROVE CInv'
    <2>1. CASE Throw(p)
      BY <2>1, DieStep DEF Throw
    <2> QED
      BY <1>1, <2>1, StartStep, SealStep, SendStep, ReceiptStep, ReadStep, SleepStep,
         ListenStep, AskStep, CloseStep DEF Step
  <1>2. ASSUME "page" \in DOMAIN job, Submit \/ Edit \/ NotInAbi PROVE CInv'
    <2>1. CASE Edit
      <3>1. WorldOK'
        BY <2>1 DEF Edit, CInv, WorldOK
      <3> QED
        BY <2>1, <3>1, StillStep DEF Edit
    <2>2. CASE NotInAbi
      BY <1>2, <2>2, DieStep DEF NotInAbi, Running
    <2> QED
      BY <1>2, <2>1, <2>2, SubmitStep
  <1>3. CASE Serve
    <2>1. WorldOK'
      BY <1>3 DEF Serve, CInv, WorldOK
    <2> QED
      BY <1>3, <2>1, StillStep DEF Serve
  <1>4. CASE Tick
    <2>1. WorldOK'
      BY <1>4, Constants DEF Tick, CInv, WorldOK
    <2> QED
      BY <1>4, <2>1, StillStep DEF Tick
  <1>5. CASE UNCHANGED vars
    <2>1. UNCHANGED <<job, pool, ledger>> /\ UNCHANGED <<form, port, clock>>
      BY <1>5 DEF vars, world
    <2>2. WorldOK'
      BY <2>1 DEF CInv, WorldOK
    <2> QED
      BY <2>1, <2>2, StillStep
  <1> QED
    BY <1>1, <1>2, <1>3, <1>4, <1>5, MineStep, AliceStep DEF Next

\* The inductive invariant, for every cast of programs: what the vault, the token, the
\* programs and the transactions on their way know of each other fits together.
THEOREM ClientsInvariance == Spec => []CInv
  BY InitHolds, NextStep, PTL DEF Spec

------------------------------------------------------------------------------
(* What follows for the properties *)

\* Programs are in a step they have, no stream pays more than was deposited in it, and
\* the token's balances and the vault's open streams add up to what the employer had
\* (fund, withdraw and cancelStream of the contract, as their clients call them).
THEOREM ClientsTypes == Spec => []ClientsTypeOK
  <1>1. CInv => ClientsTypeOK
    <2> SUFFICES ASSUME CInv PROVE ClientsTypeOK
      OBVIOUS
    <2>1. \A p \in DOMAIN job :
            /\ job[p].state \in {"off", "running", "done", "failed"}
            /\ job[p].at \in 1..Len(Program(p))
            /\ job[p].receipt # None => job[p].sent
      BY JobFields DEF JobTypeOK
    <2>2. \A id \in 1..Len(created) : streams[id].withdrawn \in 0..streams[id].funded
      BY LedgerFacts
    <2>3. Len(created) <= MaxStreams /\ port \in {"nobody", "serve", "e2e"}
      BY LedgerFacts DEF LedgerTypeOK, CInv, WorldOK
    <2> QED
      BY <2>1, <2>2, <2>3, LedgerFacts DEF ClientsTypeOK, TokensConserved, Pots
  <1> QED
    BY <1>1, ClientsInvariance, PTL

\* A program goes on with the stream it created and no other, although transactions of
\* attempts that were given up are still mined; and a stream is funded by its creator,
\* once or not at all (the id comes from the logs of createStream's own receipt, and
\* fund is sent once, by the page and the scripts alike).
THEOREM OwnStreamHolds == Spec => []OwnStream
  <1>1. CInv => OwnStream
    <2> SUFFICES ASSUME CInv PROVE OwnStream
      OBVIOUS
    <2>1. ASSUME NEW p \in DOMAIN job, job[p].id # None
          PROVE  created[job[p].id].by = p /\ streams[job[p].id].commitment = job[p].draft
      BY <2>1, JobFields, LedgerFacts DEF JobLedgerOK, Owned
    <2>2. \A id \in 1..Len(created) : streams[id].funded \in {0} \cup Funds(created[id].by)
      BY LedgerFacts DEF StreamOK
    <2> QED
      BY <2>1, <2>2 DEF OwnStream, Funds
  <1> QED
    BY <1>1, ClientsInvariance, PTL

\* What was sealed for the enclave is what the vault has the commitment of, for every
\* stream and whatever the form says by then (submit of the page and main of each
\* script seal and commit to one draft).
THEOREM SealedMatchesHolds == Spec => []SealedMatchesCommitment
  <1>1. CInv => SealedMatchesCommitment
    BY LedgerFacts DEF SealedMatchesCommitment
  <1> QED
    BY <1>1, ClientsInvariance, PTL

\* When e2e-coston2.ts reports success, its recipient has the signed figure, all of it
\* from this stream, and the terms are revealed, whoever else used the account.
THEOREM E2eVerdictHolds == Spec => []E2eVerdict
  <1>1. CInv => E2eVerdict
    <2> SUFFICES ASSUME CInv, "e2e" \in DOMAIN job, job["e2e"].state = "done"
                 PROVE  /\ tokens["fresh"] = job["e2e"].auth.accrued
                        /\ streams[job["e2e"].id].withdrawn = job["e2e"].auth.accrued
                        /\ job["e2e"].id \in revealed
      BY DEF E2eVerdict
    <2>1. /\ job["e2e"].at = 12 /\ job["e2e"].id \in revealed
          /\ tokens["fresh"] = job["e2e"].auth.accrued
      BY JobFields DEF E2eOK
    <2>2. job["e2e"].id \in 1..Len(created) /\ created[job["e2e"].id].by = "e2e"
      BY <2>1, JobFields DEF JobLedgerOK, Owned, CreateAt
    <2> QED
      BY <2>1, <2>2, LedgerFacts DEF FreshOK
  <1> QED
    BY <1>1, ClientsInvariance, PTL

------------------------------------------------------------------------------
(* The vault's records as the escrow of IdealStreams *)

\* Stream i stays as it is, or is created.
Still(i) ==
    /\ refunded'[i] = refunded[i]
    /\ \/ streams'[i] = streams[i]
       \/ /\ streams[i] = Absent
          /\ IsOpen(streams'[i])
          /\ streams'[i].funded = 0
          /\ streams'[i].withdrawn = 0

\* An open stream is funded, pays, or is settled.
Moves(i) ==
    /\ i \in 1..Len(created)
    /\ IsOpen(streams[i])
    /\ streams'[i] # Absent
    /\ \/ /\ ~streams'[i].cancelled /\ refunded'[i] = refunded[i]
          /\ streams'[i].funded \in Nat /\ streams'[i].funded > streams[i].funded
          /\ streams'[i].withdrawn = streams[i].withdrawn
       \/ /\ ~streams'[i].cancelled /\ refunded'[i] = refunded[i]
          /\ streams'[i].funded = streams[i].funded
          /\ streams'[i].withdrawn \in Nat /\ streams'[i].withdrawn > streams[i].withdrawn
       \/ /\ streams'[i].cancelled
          /\ streams'[i].funded = streams[i].funded
          /\ streams'[i].withdrawn \in Nat /\ streams'[i].withdrawn >= streams[i].withdrawn
          /\ streams'[i].withdrawn <= streams'[i].funded
          /\ refunded'[i] = streams'[i].funded - streams'[i].withdrawn

Movement ==
    \/ \A i \in StreamIds : Still(i)
    \/ \E id \in StreamIds : Moves(id) /\ \A i \in StreamIds \ {id} : Still(i)

\* One stream gets a new record, and the refunds of the others stay.
LEMMA OneMoves ==
    ASSUME CInv, NEW id \in 1..Len(created), NEW s, streams' = [streams EXCEPT ![id] = s],
           \A i \in StreamIds \ {id} : refunded'[i] = refunded[i],
           streams'[id] = s => Moves(id)
    PROVE  Movement
  <1>1. id \in StreamIds /\ streams'[id] = s /\ \A i \in StreamIds \ {id} : streams'[i] = streams[i]
    BY LedgerFacts DEF LedgerTypeOK
  <1> QED
    BY <1>1 DEF Movement, Still

\* A withdrawal pays from one stream.
LEMMA WithdrawMoves ==
    ASSUME CInv, NEW id \in 1..Len(created), NEW auth \in Authorizations, NEW now,
           CanWithdraw(streams[id], auth, now),
           streams' = [streams EXCEPT ![id] = AfterWithdraw(@, auth)], refunded' = refunded
    PROVE  Movement
  <1> DEFINE s == AfterWithdraw(streams[id], auth)
  <1>1. /\ streams[id] \in LedgerStreams(Drafts) /\ streams[id].withdrawn <= streams[id].funded
        /\ id \in StreamIds
    BY LedgerFacts
  <1>2. IsOpen(streams[id])
    BY DEF CanWithdraw
  <1>3. /\ s \in LedgerStreams(Drafts) /\ s.funded = streams[id].funded
        /\ s.cancelled = streams[id].cancelled /\ s.withdrawn > streams[id].withdrawn
    <2>1. streams[id].withdrawn < s.withdrawn
      BY <1>1, RecordAfter
    <2>2. s.withdrawn \in Nat /\ streams[id].withdrawn \in Nat
      BY <1>1, RecordAfter DEF LedgerStreams
    <2> QED
      BY <1>1, <2>1, <2>2, RecordAfter
  <1>4. streams' = [streams EXCEPT ![id] = s]
    BY <1>1, LedgerFacts DEF LedgerTypeOK
  <1>5. s.withdrawn \in Nat /\ s # Absent
    BY <1>3, Constants DEF LedgerStreams
  <1> HIDE DEF s
  <1>6. streams'[id] = s => Moves(id)
    BY <1>2, <1>3, <1>5 DEF Moves, IsOpen
  <1> QED
    BY <1>4, <1>6, OneMoves

\* A transaction that executes changes one stream, as the escrow may.
LEMMA ExecuteMoves ==
    ASSUME CInv, NEW tx, TxOK(tx), tx.op = "create" => Len(created) < MaxStreams,
           CanExecute(tx), Execute(tx)
    PROVE  Movement
  <1>1. tx.op \in Calls
    BY DEF TxOK, Transactions
  <1>2. CASE tx.op = "create"
    <2>1. PICK id : id = Len(created) + 1
      OBVIOUS
    <2>2. Len(created') = id
      BY <1>2, <2>1, LedgerFacts DEF Execute, LedgerTypeOK
    <2>3. /\ id \in StreamIds /\ streams[id] = Absent
          /\ streams \in [StreamIds -> LedgerStreams(Drafts) \cup {Absent}]
      <3>1. id \in StreamIds /\ id > Len(created) /\ LedgerTypeOK
        BY <1>2, <2>1, LedgerFacts
      <3>2. StreamOK(id)
        BY <3>1, LedgerFacts
      <3> QED
        BY <3>1, <3>2 DEF StreamOK, LedgerTypeOK
    <2>4. streams' = [streams EXCEPT ![id] = Opened(tx.commitment)] /\ refunded' = refunded
      BY <1>2, <2>2 DEF Execute
    <2>5. tx.commitment \in Drafts
      BY DEF TxOK, Transactions
    <2>6. IsOpen(Opened(tx.commitment)) /\ Opened(tx.commitment).funded = 0
          /\ Opened(tx.commitment).withdrawn = 0
      <3>1. Opened(tx.commitment) \in LedgerStreams(Drafts)
        BY <2>5 DEF Opened, LedgerStreams
      <3>2. Opened(tx.commitment) # Absent
        BY <3>1, Constants
      <3> QED
        BY <3>2 DEF IsOpen, Opened
    <2> QED
      BY <2>3, <2>4, <2>6 DEF Movement, Still
  <1>3. CASE tx.op \in {"approve", "reveal"}
    BY <1>3 DEF Execute, Movement, Still
  <1>4. CASE tx.op = "fund"
    <2>1. PICK id : id = tx.id
      OBVIOUS
    <2>2. id \in 1..Len(created) /\ tx.amount \in Nat /\ tx.amount > 0 /\ IsOpen(streams[id])
      BY <1>4, <2>1 DEF TxOK, Transactions, Owned, CanExecute, CanFund
    <2>3. PICK s : s = AfterFund(streams[id], tx.amount)
      OBVIOUS
    <2>4. /\ s \in LedgerStreams(Drafts) /\ s.funded = streams[id].funded + tx.amount
          /\ s.withdrawn = streams[id].withdrawn /\ s.cancelled = streams[id].cancelled
          /\ streams[id].funded \in Nat
      <3>1. streams[id] \in LedgerStreams(Drafts)
        BY <2>2, LedgerFacts
      <3> QED
        BY <2>2, <2>3, <3>1 DEF AfterFund, LedgerStreams
    <2>5. streams' = [streams EXCEPT ![id] = s] /\ refunded' = refunded
      BY <1>4, <2>1, <2>2, <2>3, LedgerFacts DEF Execute, LedgerTypeOK
    <2>6. s # Absent /\ s.funded \in Nat /\ s.funded > streams[id].funded
      BY <2>2, <2>4, Constants DEF LedgerStreams
    <2>7. streams'[id] = s => Moves(id)
      BY <2>2, <2>4, <2>5, <2>6 DEF Moves, IsOpen
    <2> QED
      BY <2>2, <2>5, <2>7, OneMoves
  <1>5. CASE tx.op = "withdraw"
    <2>1. tx.id \in 1..Len(created) /\ tx.auth \in Authorizations
      BY <1>5 DEF TxOK, Owned
    <2>2. CanWithdraw(streams[tx.id], tx.auth, clock)
      BY <1>5 DEF CanExecute
    <2>3. streams' = [streams EXCEPT ![tx.id] = AfterWithdraw(@, tx.auth)] /\ refunded' = refunded
      BY <1>5 DEF Execute
    <2> QED
      BY <2>1, <2>2, <2>3, WithdrawMoves
  <1>6. CASE tx.op = "cancel"
    <2>1. PICK id, s : id = tx.id /\ s = AfterCancel(streams[id], tx.auth)
      OBVIOUS
    <2>2. id \in 1..Len(created) /\ tx.auth \in Authorizations
      BY <1>6, <2>1 DEF TxOK, Owned
    <2>3. IsOpen(streams[id])
      BY <1>6, <2>1 DEF CanExecute, CanCancel
    <2>4. /\ streams' = [streams EXCEPT ![id] = s]
          /\ refunded' = [refunded EXCEPT ![id] = s.funded - s.withdrawn]
      BY <1>6, <2>1 DEF Execute
    <2>5. /\ s \in LedgerStreams(Drafts) /\ s.funded = streams[id].funded /\ s.cancelled
          /\ streams[id].withdrawn <= s.withdrawn /\ s.withdrawn <= streams[id].funded
      BY <2>1, <2>2, LedgerFacts, RecordAfter
    <2>6. /\ s # Absent /\ s.withdrawn \in Nat /\ s.withdrawn >= streams[id].withdrawn
          /\ s.withdrawn <= s.funded
      BY <2>2, <2>5, LedgerFacts, Constants DEF LedgerStreams
    <2>7. /\ refunded'[id] = s.funded - s.withdrawn
          /\ \A i \in StreamIds \ {id} : refunded'[i] = refunded[i]
      BY <2>2, <2>4, LedgerFacts DEF LedgerTypeOK
    <2>8. streams'[id] = s => Moves(id)
      BY <2>2, <2>3, <2>5, <2>6, <2>7 DEF Moves
    <2> QED
      BY <2>2, <2>4, <2>7, <2>8, OneMoves
  <1> QED
    BY <1>1, <1>2, <1>3, <1>4, <1>5, <1>6 DEF Calls

\* Every step changes one stream as the escrow may, or none.
LEMMA NextMoves ==
    ASSUME CInv, [Next]_vars
    PROVE  Movement
  <1>1. ASSUME UNCHANGED ledger PROVE Movement
    BY <1>1 DEF ledger, Movement, Still
  <1>2. ASSUME NEW p \in DOMAIN job, Step(p) PROVE Movement
    <2>1. UNCHANGED ledger
      BY <1>2 DEF Step, Start, Throw, Die, Seal, Send, Receipt, Read, Sleep, Listen, Ask,
            Close, world
    <2> QED
      BY <1>1, <2>1
  <1>3. CASE Mine
    <2>1. PICK tx : tx = Head(pool)
      OBVIOUS
    <2>2. TxOK(tx) /\ (tx.op = "create" => Len(created) < MaxStreams)
      BY <1>3, <2>1 DEF Mine, CInv, PoolOK
    <2>3. IF CanExecute(tx) THEN Execute(tx) ELSE UNCHANGED ledger
      BY <1>3, <2>1 DEF Mine
    <2> QED
      BY <1>1, <2>2, <2>3, ExecuteMoves
  <1>4. ASSUME NEW id \in 1..Len(created), NEW t \in BACKDATE..clock, AliceWithdraws(id, t)
        PROVE  Movement
    <2>1. created[id].sealed \in Drafts
      BY LedgerFacts DEF Creations
    <2>2. PICK auth : auth = authorizedAt(created[id].sealed.terms, t)
      OBVIOUS
    <2>3. t \in Nat
      BY Constants DEF CInv, WorldOK
    <2>4. auth \in Authorizations
      BY <2>1, <2>2, <2>3, AuthorizedType
    <2>5. /\ CanWithdraw(streams[id], auth, clock)
          /\ streams' = [streams EXCEPT ![id] = AfterWithdraw(@, auth)] /\ refunded' = refunded
      BY <1>4, <2>2 DEF AliceWithdraws
    <2> QED
      BY <2>4, <2>5, WithdrawMoves
  <1>5. CASE Submit \/ Edit \/ NotInAbi \/ Serve \/ Tick \/ UNCHANGED vars
    <2>1. UNCHANGED ledger
      BY <1>5 DEF Submit, Edit, NotInAbi, Die, Serve, Tick, vars, world
    <2> QED
      BY <1>1, <2>1
  <1> QED
    BY <1>2, <1>3, <1>4, <1>5 DEF Next

\* What the clients see of the vault is the escrow of IdealStreams too: each step of
\* theirs that changes a record is Open, or Deposit, Pay or Close of that stream.
THEOREM LedgerRefinement == Spec => LedgerImplementsIdealStreams
  <1>1. Init => Ideal!Init
    BY DEF Init, Ideal!Init, Held
  <1>2. ASSUME CInv, [Next]_vars PROVE Ideal!Next
    <2>1. ASSUME NEW i \in StreamIds, Still(i)
          PROVE  Ideal!MoneyKept({i}) /\ Ideal!PhasesKept({i})
      BY <2>1 DEF Still, Held, IsOpen, Ideal!MoneyKept, Ideal!PhasesKept, Ideal!Opened
    <2>2. ASSUME NEW i \in StreamIds, Moves(i)
          PROVE  Ideal!Deposit(i) \/ Ideal!Pay(i) \/ Ideal!Close(i)
      <3>1. /\ streams[i].funded \in Nat /\ streams[i].withdrawn \in Nat
            /\ streams[i].withdrawn <= streams[i].funded
            /\ streams[i] # Absent /\ ~streams[i].cancelled /\ refunded[i] = 0
        BY <1>2, <2>2, LedgerFacts DEF Moves, IsOpen
      <3> QED
        BY <2>2, <3>1 DEF Moves, Held, Ideal!Deposit, Ideal!Pay, Ideal!Close
    <2>3. CASE \A i \in StreamIds : Still(i)
      BY <2>1, <2>3 DEF Ideal!Next, Ideal!Open, Ideal!MoneyKept, Ideal!PhasesKept
    <2>4. CASE \E id \in StreamIds : Moves(id) /\ \A i \in StreamIds \ {id} : Still(i)
      <3>1. PICK id \in StreamIds : Moves(id) /\ \A i \in StreamIds \ {id} : Still(i)
        BY <2>4
      <3>2. Ideal!MoneyKept(StreamIds \ {id}) /\ Ideal!PhasesKept(StreamIds \ {id})
        BY <2>1, <3>1 DEF Ideal!MoneyKept, Ideal!PhasesKept
      <3> QED
        BY <2>2, <3>1, <3>2 DEF Ideal!Next
    <2> QED
      BY <1>2, <2>3, <2>4, NextMoves DEF Movement
  <1> QED
    BY <1>1, <1>2, ClientsInvariance, PTL DEF Spec, LedgerImplementsIdealStreams, Ideal!Spec

------------------------------------------------------------------------------
(* The settlement test *)

\* The deposit of the settlement test lasts for as long as it may run ("solvent:
\* 1 FXRP funds ~10 days", test-settle.ts).
DepositOutlasts == MaxTime <= BACKDATE + FUND

\* Local record j says that step n had a successful receipt.
Did(j, n) == j.at > n \/ (j.at = n /\ j.receipt # None /\ j.receipt.success)

\* What the test knows by itself: its terms pay one token a second from when it was
\* started, and it goes on after recAfter only when the balances it read add up.
SettleLocal(j, now) ==
    /\ now <= BACKDATE \/ now <= MaxTime
    /\ j.at > 1 => /\ j.draft.terms.ratePerSecond = RATE_SCALE
                   /\ j.draft.terms.startTime >= BACKDATE
    /\ j.at > 8 => j.auth.accrued = 0 \/ j.auth.accrued + BACKDATE <= MaxTime
    /\ j.at > 11 => (j.seen["empAfter"] - j.seen["empBefore"]) + j.auth.accrued = FUND
    /\ j.state = "done" => j.at = 12

\* What the ledger says of its stream s, which gave back so much, and of the employer,
\* whose balance nothing but this refund increases.
SettleLedger(j, s, back, balance) ==
    /\ Did(j, 4) => s.funded = FUND
    /\ j.at > 5 => balance <= j.seen["empBefore"] + back
    /\ Did(j, 9) => /\ s.cancelled
                    /\ s.withdrawn >= CapOf(s, j.auth)
                    /\ back + s.withdrawn = FUND
    /\ j.at > 10 => j.seen["empAfter"] <= j.seen["empBefore"] + back

\* The settlement on its way has the authorization that the test was given.
CancelOK == \A i \in DOMAIN pool : pool[i].op = "cancel" => pool[i].auth = job["settle"].auth

SettleOK ==
    "settle" \in DOMAIN job =>
        /\ SettleLocal(job["settle"], clock)
        /\ SettleLedger(job["settle"], streams[job["settle"].id],
                        refunded[job["settle"].id], tokens["employer"])
        /\ CancelOK

\* The stream is settled at the signed figure as far as it is funded, whatever the
\* figure was.
SettledAtCap ==
    "settle" \in DOMAIN job /\ job["settle"].state = "done"
        => LET s == streams[job["settle"].id]
           IN  /\ s.cancelled
               /\ s.withdrawn = CapOf(s, job["settle"].auth)
               /\ refunded[job["settle"].id] + s.withdrawn = job["settle"].fund

\* Where the settlement test reads and sends what.
LEMMA SettlePlaces ==
    ASSUME CInv, "settle" \in DOMAIN job
    PROVE  /\ job["settle"].at \in 1..12 /\ Len(Program("settle")) = 12
           /\ Op("settle") = SettleProgram[job["settle"].at]
           /\ Op("settle") = "seal" <=> job["settle"].at = 1
           /\ Op("settle") = "create" <=> job["settle"].at = 2
           /\ Op("settle") = "fund" <=> job["settle"].at = 4
           /\ Op("settle") = "empBefore" <=> job["settle"].at = 5
           /\ Op("settle") = "sleep" <=> job["settle"].at = 7
           /\ Op("settle") = "ask" <=> job["settle"].at = 8
           /\ Op("settle") = "cancel" <=> job["settle"].at = 9
           /\ Op("settle") = "empAfter" <=> job["settle"].at = 10
           /\ Op("settle") = "recAfter" <=> job["settle"].at = 11
           /\ Op("settle") \in Calls <=> job["settle"].at \in {2, 3, 4, 9}
           /\ Op("settle") \in Reads <=> job["settle"].at \in {5, 6, 10, 11, 12}
           /\ Op("settle") \notin {"listen", "close"}
  <1>1. job["settle"].at \in 1..12 /\ Len(Program("settle")) = 12
    BY JobFields, Lengths
  <1>2. Op("settle") = SettleProgram[job["settle"].at]
    BY Lengths DEF Op
  <1> QED
    BY <1>1, <1>2 DEF SettleProgram, Calls, Reads, Balances

\* A transaction of the settlement test is the one it waits for or has given up on.
LEMMA SettleSends ==
    ASSUME CInv, NEW tx, TxOK(tx), tx.by = "settle"
    PROVE  "settle" \in DOMAIN job /\ Present(tx)
  <1>1. tx.by \in DOMAIN job /\ tx.attempt \in Nat /\ tx.attempt <= job[tx.by].attempt
    BY DEF TxOK, Transactions
  <1>2. job["settle"].attempt = 0
    <2>1. JobTypeOK("settle")
      BY <1>1, JobFields
    <2> QED
      BY <2>1 DEF JobTypeOK
  <1>3. tx.attempt = job[tx.by].attempt
    BY <1>1, <1>2
  <1> QED
    BY <1>1, <1>3 DEF TxOK

\* While the test waits for nothing, no settlement is on its way.
LEMMA NoCancel ==
    ASSUME CInv, "settle" \in DOMAIN job,
           ~job["settle"].sent \/ job["settle"].receipt # None
    PROVE  \A i \in DOMAIN pool : pool[i].op # "cancel"
  <1> SUFFICES ASSUME NEW i \in DOMAIN pool, pool[i].op = "cancel" PROVE FALSE
    OBVIOUS
  <1>1. TxOK(pool[i])
    BY DEF CInv, PoolOK
  <1>2. pool[i].by = "settle"
    BY <1>1 DEF TxOK
  <1>3. Present(pool[i])
    BY <1>1, <1>2, SettleSends
  <1> QED
    BY <1>2, <1>3 DEF Present

\* To start with, the test is off.
LEMMA InitSettles == Init => SettleOK
  <1> SUFFICES ASSUME Init, "settle" \in DOMAIN job
               PROVE  /\ SettleLocal(job["settle"], clock)
                      /\ SettleLedger(job["settle"], streams[job["settle"].id],
                                      refunded[job["settle"].id], tokens["employer"])
                      /\ CancelOK
    BY DEF SettleOK
  <1>1. job["settle"] = Off /\ clock = BACKDATE /\ pool = <<>>
    BY DEF Init
  <1>2. BACKDATE \in Nat
    BY Constants
  <1> QED
    BY <1>1, <1>2, OffFields DEF SettleLocal, SettleLedger, Did, CancelOK

\* The test and its stream stay as they are, or the open stream pays, and nobody gives
\* the employer anything.
LEMMA SettleStays ==
    ASSUME CInv, SettleOK, "settle" \in DOMAIN job, job'["settle"] = job["settle"],
           clock' <= BACKDATE \/ clock' <= MaxTime,
           tokens'["employer"] \in Nat, tokens'["employer"] <= tokens["employer"],
           \A i \in DOMAIN pool' : pool'[i].op = "cancel" =>
               \E k \in DOMAIN pool : pool'[i] = pool[k],
           \A i \in 1..Len(created) : created[i].by = "settle" =>
               /\ refunded'[i] = refunded[i]
               /\ streams'[i] = streams[i]
                  \/ (IsOpen(streams[i]) /\ streams'[i].funded = streams[i].funded)
    PROVE  SettleOK'
  <1>1. PICK j, id : j = job["settle"] /\ id = j.id
    OBVIOUS
  <1>2. /\ SettleLocal(j, clock) /\ CancelOK
        /\ SettleLedger(j, streams[id], refunded[id], tokens["employer"])
    BY <1>1 DEF SettleOK
  <1>3. j.at \in Nat /\ j.seen \in [Balances -> Nat]
    BY <1>1, JobFields
  <1>4. SettleLocal(j, clock')
    BY <1>2 DEF SettleLocal
  <1>5. CancelOK'
    BY <1>2 DEF CancelOK
  <1>6. j.at > 2 => /\ id \in 1..Len(created) /\ created[id].by = "settle"
                    /\ refunded[id] \in Nat /\ refunded'[id] = refunded[id]
    <2> SUFFICES ASSUME j.at > 2
                 PROVE  /\ id \in 1..Len(created) /\ created[id].by = "settle"
                        /\ refunded[id] \in Nat
      OBVIOUS
    <2>1. JobLedgerOK("settle")
      BY JobFields
    <2>2. id \in 1..Len(created) /\ created[id].by = "settle"
      BY <1>1, <2>1 DEF JobLedgerOK, CreateAt, Owned
    <2> QED
      BY <2>2, LedgerFacts DEF LedgerTypeOK
  <1>7. Did(j, 9) \/ Did(j, 4) => j.at > 2
    BY <1>3 DEF Did
  <1>8. Did(j, 9) => streams'[id] = streams[id]
    BY <1>2, <1>6, <1>7 DEF SettleLedger, IsOpen
  <1>9. Did(j, 4) => streams'[id].funded = streams[id].funded
    BY <1>6, <1>7
  <1>10. j.at > 5 => tokens'["employer"] <= j.seen["empBefore"] + refunded'[id]
    <2>1. tokens["employer"] \in Nat
      BY LedgerFacts DEF LedgerTypeOK, Holders
    <2>2. j.seen["empBefore"] \in Nat
      BY <1>3 DEF Balances
    <2>3. j.at > 5 => tokens["employer"] <= j.seen["empBefore"] + refunded[id]
      BY <1>2 DEF SettleLedger
    <2> QED
      BY <1>3, <1>6, <2>1, <2>2, <2>3
  <1>11. j.at > 10 => refunded'[id] = refunded[id]
    BY <1>3, <1>6
  <1>12. SettleLedger(j, streams'[id], refunded'[id], tokens'["employer"])
    BY <1>2, <1>6, <1>7, <1>8, <1>9, <1>10, <1>11 DEF SettleLedger
  <1> QED
    BY <1>1, <1>4, <1>5, <1>12 DEF SettleOK

\* What the test's local variables have to be when it goes on from a step.
Settles(local) ==
    LET j == job["settle"] IN
    /\ local.state = "running" /\ local.at = j.at /\ local.receipt = None
    /\ j.at # 2 => local.id = j.id
    /\ j.at > 1 => local.draft = j.draft
    /\ j.at = 1 => /\ local.draft.terms.ratePerSecond = RATE_SCALE
                   /\ local.draft.terms.startTime >= BACKDATE
    /\ j.at \in {4, 9} => j.receipt # None /\ j.receipt.success
    /\ j.at # 8 => local.auth = j.auth
    /\ j.at = 8 => local.auth.accrued = 0 \/ local.auth.accrued + BACKDATE <= MaxTime
    /\ \A b \in Balances : Op("settle") # b => local.seen[b] = j.seen[b]
    /\ j.at \in {5, 10} => local.seen[Op("settle")] = tokens["employer"]
    /\ j.at = 11 => (local.seen["empAfter"] - local.seen["empBefore"]) + local.auth.accrued = FUND

\* The test goes on to its next step.
LEMMA SettleAdvance ==
    ASSUME CInv, SettleOK, "settle" \in DOMAIN job,
           ~job["settle"].sent \/ job["settle"].receipt # None,
           NEW local \in Jobs, Settles(local), Advance("settle", local),
           UNCHANGED <<pool, ledger, clock>>
    PROVE  SettleOK'
  <1>1. PICK j, n : /\ j = job["settle"]
                    /\ n = IF j.at = 12 THEN [local EXCEPT !.state = "done"]
                           ELSE [local EXCEPT !.at = @ + 1]
    OBVIOUS
  <1>2. job' = [job EXCEPT !["settle"] = n]
    BY <1>1, SettlePlaces DEF Advance
  <1>3. j.at \in 1..12 /\ j.at \in Nat
    BY <1>1, SettlePlaces
  <1>4. /\ n.at = IF j.at = 12 THEN 12 ELSE j.at + 1
        /\ n.state = IF j.at = 12 THEN "done" ELSE "running"
        /\ n.receipt = None /\ n.id = local.id /\ n.draft = local.draft
        /\ n.auth = local.auth /\ n.seen = local.seen
    <2>1. local.at = j.at /\ local.state = "running" /\ local.receipt = None
      BY <1>1 DEF Settles
    <2>2. CASE j.at = 12
      BY <1>1, <2>1, <2>2 DEF Jobs
    <2>3. CASE j.at # 12
      BY <1>1, <2>1, <2>3 DEF Jobs
    <2> QED
      BY <2>2, <2>3
  <1>5. n.at \in Nat /\ n.at > 1 /\ (n.at = 12 \/ n.at = j.at + 1)
    BY <1>3, <1>4
  <1>6. /\ streams' = streams /\ refunded' = refunded /\ tokens' = tokens
        /\ pool' = pool /\ clock' = clock
    BY DEF ledger
  <1>7. /\ SettleLocal(j, clock)
        /\ SettleLedger(j, streams[j.id], refunded[j.id], tokens["employer"])
    BY <1>1 DEF SettleOK
  <1>8. SettleLocal(n, clock)
    <2>1. /\ n.draft.terms.ratePerSecond = RATE_SCALE
          /\ n.draft.terms.startTime >= BACKDATE
      BY <1>1, <1>3, <1>4, <1>7 DEF SettleLocal, Settles
    <2>2. n.at > 8 => n.auth.accrued = 0 \/ n.auth.accrued + BACKDATE <= MaxTime
      <3>1. CASE j.at = 8
        BY <1>1, <1>4, <3>1 DEF Settles
      <3>2. CASE j.at # 8
        <4>1. n.at > 8 => j.at > 8 /\ n.auth = j.auth
          BY <1>1, <1>3, <1>4, <3>2 DEF Settles
        <4> QED
          BY <1>7, <4>1 DEF SettleLocal
      <3> QED
        BY <3>1, <3>2
    <2>3. n.at > 11 => (n.seen["empAfter"] - n.seen["empBefore"]) + n.auth.accrued = FUND
      <3>1. CASE j.at = 11
        BY <1>1, <1>4, <3>1 DEF Settles
      <3>2. CASE j.at = 12
        <4>1. Op("settle") \notin {"empAfter", "empBefore"}
          BY <1>1, <3>2, SettlePlaces
        <4>2. /\ n.seen["empAfter"] = j.seen["empAfter"]
              /\ n.seen["empBefore"] = j.seen["empBefore"] /\ n.auth = j.auth
          BY <1>1, <1>4, <3>2, <4>1 DEF Settles, Balances
        <4> QED
          BY <1>7, <3>2, <4>2 DEF SettleLocal
      <3>3. CASE j.at < 11
        BY <1>3, <1>4, <3>3
      <3> QED
        BY <1>3, <3>1, <3>2, <3>3
    <2>4. n.state = "done" => n.at = 12
      BY <1>4
    <2> QED
      BY <1>7, <2>1, <2>2, <2>3, <2>4 DEF SettleLocal
  <1>9. SettleLedger(n, streams[n.id], refunded[n.id], tokens["employer"])
    <2>1. CASE j.at <= 3
      BY <1>3, <1>4, <2>1 DEF SettleLedger, Did
    <2>2. CASE j.at > 3
      <3>1. n.id = j.id /\ n.at > 4
        BY <1>1, <1>3, <1>4, <2>2 DEF Settles
      <3>2. streams[n.id].funded = FUND
        <4>1. Did(j, 4)
          BY <1>1, <1>3, <2>2 DEF Settles, Did
        <4> QED
          BY <1>7, <3>1, <4>1 DEF SettleLedger
      <3>3. /\ refunded[n.id] \in Nat /\ tokens["employer"] \in Nat
            /\ n.seen \in [Balances -> Nat] /\ j.seen \in [Balances -> Nat]
        <4>1. j.id \in 1..Len(created)
          <5>1. JobLedgerOK("settle")
            BY JobFields
          <5> QED
            BY <1>1, <1>3, <2>2, <5>1 DEF JobLedgerOK, CreateAt, Owned
        <4>2. j.id \in StreamIds /\ tokens \in [Holders -> Nat] /\ refunded \in [StreamIds -> Nat]
          BY <4>1, LedgerFacts DEF LedgerTypeOK
        <4>3. "employer" \in Holders
          BY DEF Holders
        <4>4. n.seen \in [Balances -> Nat]
          BY <1>4 DEF Jobs
        <4> QED
          BY <1>1, <3>1, <4>2, <4>3, <4>4, JobFields
      <3>4. n.at > 5 => tokens["employer"] <= n.seen["empBefore"] + refunded[n.id]
        <4>1. CASE j.at = 5
          <5>1. n.seen["empBefore"] = tokens["employer"]
            BY <1>1, <1>4, <4>1, SettlePlaces DEF Settles
          <5> QED
            BY <3>3, <5>1
        <4>2. CASE j.at # 5
          <5>1. n.seen["empBefore"] = j.seen["empBefore"]
            BY <1>1, <1>4, <4>2, SettlePlaces DEF Settles, Balances
          <5>2. n.at > 5 => j.at > 5
            BY <1>3, <1>4, <4>2
          <5> QED
            BY <1>7, <3>1, <5>1, <5>2 DEF SettleLedger
        <4> QED
          BY <4>1, <4>2
      <3>5. Did(n, 9) => Did(j, 9) /\ n.auth = j.auth
        <4>1. Did(n, 9) => j.at >= 9
          BY <1>3, <1>4 DEF Did
        <4> QED
          BY <1>1, <1>3, <1>4, <4>1 DEF Settles, Did
      <3>6. n.at > 10 => n.seen["empAfter"] <= n.seen["empBefore"] + refunded[n.id]
        <4>1. CASE j.at = 10
          <5>1. n.seen["empAfter"] = tokens["employer"]
            BY <1>1, <1>4, <4>1, SettlePlaces DEF Settles
          <5> QED
            BY <1>4, <3>4, <4>1, <5>1
        <4>2. CASE j.at > 10
          <5>1. Op("settle") \notin {"empAfter", "empBefore"}
            BY <1>1, <4>2, SettlePlaces
          <5>2. /\ n.seen["empAfter"] = j.seen["empAfter"]
                /\ n.seen["empBefore"] = j.seen["empBefore"]
            BY <1>1, <1>4, <5>1 DEF Settles, Balances
          <5> QED
            BY <1>7, <3>1, <4>2, <5>2 DEF SettleLedger
        <4>3. CASE j.at < 10
          BY <1>3, <1>4, <4>3
        <4> QED
          BY <1>3, <4>1, <4>2, <4>3
      <3> QED
        BY <1>7, <3>1, <3>2, <3>4, <3>5, <3>6 DEF SettleLedger
    <2> QED
      BY <1>3, <2>1, <2>2
  <1>10. CancelOK'
    BY <1>6, NoCancel DEF CancelOK
  <1>11. job'["settle"] = n
    BY <1>2
  <1> QED
    BY <1>6, <1>8, <1>9, <1>10, <1>11 DEF SettleOK

\* The test is started, sends, or dies where it is.
LEMMA SettleHolds ==
    ASSUME CInv, SettleOK, "settle" \in DOMAIN job, NEW n,
           job' = [job EXCEPT !["settle"] = n],
           n.at = job["settle"].at, n.id = job["settle"].id, n.draft = job["settle"].draft,
           n.auth = job["settle"].auth, n.seen = job["settle"].seen,
           n.state = "done" => job["settle"].state = "done",
           n.receipt \in {None, job["settle"].receipt},
           UNCHANGED <<ledger, clock>>, CancelOK'
    PROVE  SettleOK'
  <1>1. PICK j : j = job["settle"]
    OBVIOUS
  <1>2. /\ SettleLocal(j, clock)
        /\ SettleLedger(j, streams[j.id], refunded[j.id], tokens["employer"])
    BY <1>1 DEF SettleOK
  <1>3. \A k : Did(n, k) => Did(j, k)
    BY <1>1 DEF Did
  <1>4. SettleLocal(n, clock)
    BY <1>1, <1>2 DEF SettleLocal
  <1>5. SettleLedger(n, streams[n.id], refunded[n.id], tokens["employer"])
    BY <1>1, <1>2, <1>3 DEF SettleLedger
  <1>6. /\ job'["settle"] = n /\ streams' = streams /\ refunded' = refunded
        /\ tokens' = tokens /\ clock' = clock
    BY DEF ledger
  <1> QED
    BY <1>4, <1>5, <1>6 DEF SettleOK

\* The test is started, throws, or ends because one of its musts fails.
LEMMA SettleState ==
    ASSUME CInv, SettleOK, "settle" \in DOMAIN job, NEW state \in {"running", "failed"},
           job' = [job EXCEPT !["settle"].state = state], UNCHANGED <<pool, ledger, clock>>
    PROVE  SettleOK'
  <1>1. PICK n : n = [job["settle"] EXCEPT !.state = state]
    OBVIOUS
  <1>2. job' = [job EXCEPT !["settle"] = n]
    BY <1>1
  <1>3. job["settle"] \in Jobs
    BY JobFields DEF JobTypeOK
  <1>4. /\ n.at = job["settle"].at /\ n.id = job["settle"].id /\ n.draft = job["settle"].draft
        /\ n.auth = job["settle"].auth /\ n.seen = job["settle"].seen
        /\ n.receipt = job["settle"].receipt /\ n.state # "done"
    BY <1>1, <1>3 DEF Jobs
  <1>5. CancelOK'
    <2>1. CancelOK /\ job'["settle"].auth = job["settle"].auth /\ pool' = pool
      BY <1>2, <1>4 DEF SettleOK
    <2> QED
      BY <2>1 DEF CancelOK
  <1> QED
    BY <1>2, <1>4, <1>5, SettleHolds

\* The test sends a transaction; a settlement has the authorization it was given.
LEMMA SettleSent ==
    ASSUME CInv, SettleOK, "settle" \in DOMAIN job, Send("settle")
    PROVE  SettleOK'
  <1>1. PICK n : n = [[job["settle"] EXCEPT !.sent = TRUE] EXCEPT !.receipt = None]
    OBVIOUS
  <1>2. job["settle"] \in Jobs
    BY JobFields DEF JobTypeOK
  <1>3. job' = [job EXCEPT !["settle"] = n] /\ UNCHANGED <<ledger, clock>>
    BY <1>1 DEF Send
  <1>4. /\ n.at = job["settle"].at /\ n.id = job["settle"].id /\ n.draft = job["settle"].draft
        /\ n.auth = job["settle"].auth /\ n.seen = job["settle"].seen
        /\ n.receipt = None /\ n.state = job["settle"].state
    BY <1>1, <1>2 DEF Jobs
  <1>5. PICK tx : pool' = Append(pool, tx) /\ tx.auth = job["settle"].auth
    BY DEF Send
  <1>6. pool \in Seq(Transactions)
    BY DEF CInv, PoolOK
  <1>7. DOMAIN pool = 1..Len(pool) /\ Len(pool) \in Nat /\ DOMAIN pool' = 1..(Len(pool) + 1)
        /\ \A i \in 1..Len(pool) : pool'[i] = pool[i]
        /\ pool'[Len(pool) + 1] = tx
    BY <1>5, <1>6
  <1>8. CancelOK'
    <2>1. CancelOK /\ job'["settle"].auth = job["settle"].auth
      BY <1>3, <1>4 DEF SettleOK
    <2>2. SUFFICES ASSUME NEW i \in DOMAIN pool', pool'[i].op = "cancel"
                   PROVE  pool'[i].auth = job["settle"].auth
      BY <2>1 DEF CancelOK
    <2>3. CASE i \in 1..Len(pool)
      BY <1>7, <2>1, <2>2, <2>3 DEF CancelOK
    <2>4. CASE i = Len(pool) + 1
      BY <1>5, <1>7, <2>4
    <2> QED
      BY <1>7, <2>3, <2>4
  <1> QED
    BY <1>3, <1>4, <1>8, SettleHolds

\* At one token a second the enclave signs no more than the seconds there are.
LEMMA SettleAccrues ==
    ASSUME NEW t, HasAccrual(t), t.ratePerSecond = RATE_SCALE, t.startTime >= BACKDATE,
           NEW now \in Nat, now <= BACKDATE \/ now <= MaxTime
    PROVE  accruedAt(t, now) = 0 \/ accruedAt(t, now) + BACKDATE <= MaxTime
  <1>1. BACKDATE \in Nat /\ MaxTime \in Nat /\ RATE_SCALE \in Nat \ {0}
    BY Constants, ProtocolAssumption
  <1>2. t.startTime \in Nat /\ t.total \in Nat
    BY DEF HasAccrual
  <1>3. PICK e \in Nat : /\ e = elapsedAt(t, now)
                         /\ e = 0 \/ e + BACKDATE <= MaxTime
    BY <1>1, <1>2 DEF elapsedAt
  <1>4. PICK u : u = uncappedAt(t, now)
    OBVIOUS
  <1>5. u = e
    <2>1. u = (RATE_SCALE * e) \div RATE_SCALE
      BY <1>3, <1>4 DEF uncappedAt
    <2>2. PICK x \in Nat : x = RATE_SCALE * e
      BY <1>1
    <2>3. /\ x \div RATE_SCALE \in Nat /\ (x \div RATE_SCALE) * RATE_SCALE <= x
          /\ x < (x \div RATE_SCALE) * RATE_SCALE + RATE_SCALE
      BY <1>1, DivBounds
    <2>4. PICK q \in Nat : q = u /\ q * RATE_SCALE <= RATE_SCALE * e
                           /\ RATE_SCALE * e < q * RATE_SCALE + RATE_SCALE
      BY <2>1, <2>2, <2>3
    <2>5. ~(q > e)
      <3> SUFFICES ASSUME q > e PROVE FALSE
        OBVIOUS
      <3>1. RATE_SCALE * (e + 1) <= RATE_SCALE * q
        BY <1>1, TimesMonotone
      <3> QED
        BY <1>1, <2>4, <3>1
    <2>6. ~(q < e)
      <3> SUFFICES ASSUME q < e PROVE FALSE
        OBVIOUS
      <3>1. RATE_SCALE * (q + 1) <= RATE_SCALE * e
        BY <1>1, TimesMonotone
      <3> QED
        BY <1>1, <2>4, <3>1
    <2> QED
      BY <2>4, <2>5, <2>6
  <1>6. accruedAt(t, now) <= e /\ accruedAt(t, now) \in Nat
    BY <1>2, <1>4, <1>5 DEF accruedAt
  <1> QED
    BY <1>1, <1>3, <1>6

\* The test makes its terms.
LEMMA SettleSeals ==
    ASSUME CInv, SettleOK, "settle" \in DOMAIN job, Seal("settle")
    PROVE  SettleOK'
  <1>1. PICK j, d : j = job["settle"] /\ d = ScriptDraft("settle")
    OBVIOUS
  <1>2. PICK local : local = [j EXCEPT !.draft = d, !.sealed = d]
    OBVIOUS
  <1>3. /\ Advance("settle", local) /\ UNCHANGED <<pool, ledger, clock>>
        /\ j.state = "running" /\ ~j.sent /\ j.at = 1
    BY <1>1, <1>2, SettlePlaces DEF Seal, Running, world
  <1>4. j \in Jobs /\ j.receipt = None
    BY <1>1, <1>3, JobFields DEF JobTypeOK
  <1>5. clock \in Nat /\ clock >= BACKDATE
    BY DEF CInv, WorldOK
  <1>6. /\ d \in Drafts /\ d.terms.ratePerSecond = RATE_SCALE
        /\ d.terms.startTime >= BACKDATE
    BY <1>1, <1>5, Constants, ProtocolAssumption DEF ScriptDraft, Drafts, Programs
  <1>7. /\ local \in Jobs /\ local.state = "running" /\ local.at = j.at /\ local.receipt = None
        /\ local.id = j.id /\ local.draft = d /\ local.auth = j.auth /\ local.seen = j.seen
    BY <1>2, <1>3, <1>4, <1>6 DEF Jobs
  <1>8. Settles(local)
    BY <1>1, <1>3, <1>6, <1>7 DEF Settles
  <1> QED
    BY <1>1, <1>3, <1>7, <1>8, SettleAdvance

\* The test has a receipt: a failed deposit or settlement ends it.
LEMMA SettleReceipt ==
    ASSUME CInv, SettleOK, "settle" \in DOMAIN job, Receipt("settle")
    PROVE  SettleOK'
  <1>1. PICK j, i : /\ j = job["settle"]
                    /\ i = IF Op("settle") = "create" THEN j.receipt.id ELSE j.id
    OBVIOUS
  <1>2. j \in Jobs /\ j.receipt # None /\ j.state = "running" /\ j.sent
    BY <1>1, JobFields DEF JobTypeOK, Receipt
  <1>3. CASE Checked("settle") /\ ~j.receipt.success
    <2>1. Die("settle")
      BY <1>1, <1>3 DEF Receipt
    <2> QED
      BY <2>1, SettleState DEF Die
  <1>4. CASE ~(Checked("settle") /\ ~j.receipt.success)
    <2>1. PICK local : local = [j EXCEPT !.sent = FALSE, !.receipt = None, !.id = i]
      OBVIOUS
    <2>2. Advance("settle", local) /\ UNCHANGED <<pool, ledger, clock>>
      BY <1>1, <1>4, <2>1 DEF Receipt, IdFromLogs, world
    <2>3. i \in Nat \cup {None}
      BY <1>1, <1>2 DEF Jobs, Receipts
    <2>4. /\ local \in Jobs /\ local.state = "running" /\ local.at = j.at /\ local.receipt = None
          /\ local.id = i /\ local.draft = j.draft /\ local.auth = j.auth
          /\ local.seen = j.seen
      BY <1>2, <2>1, <2>3 DEF Jobs
    <2>5. j.at # 2 => i = j.id
      BY <1>1, SettlePlaces
    <2>6. j.at \in {2, 3, 4, 9}
      BY <1>1, <1>2, SettlePlaces, JobFields DEF JobTypeOK
    <2>7. j.at \in {4, 9} => j.receipt.success
      <3>1. j.at \in {4, 9} => Checked("settle")
        BY <1>1, SettlePlaces DEF Checked
      <3> QED
        BY <1>4, <3>1
    <2>8. Settles(local)
      BY <1>1, <1>2, <2>4, <2>5, <2>6, <2>7 DEF Settles
    <2> QED
      BY <1>1, <1>2, <2>2, <2>4, <2>8, SettleAdvance
  <1> QED
    BY <1>3, <1>4

\* The test reads a balance or its stream, and goes on only if it is as it must be.
LEMMA SettleReads ==
    ASSUME CInv, SettleOK, "settle" \in DOMAIN job, Read("settle")
    PROVE  SettleOK'
  <1>1. PICK j, seen : j = job["settle"] /\ seen = Seen("settle")
    OBVIOUS
  <1>2. j \in Jobs /\ j.state = "running" /\ ~j.sent /\ j.receipt = None
    BY <1>1, JobFields DEF JobTypeOK, Read, Running
  <1>3. CASE Die("settle")
    BY <1>3, SettleState DEF Die
  <1>4. CASE Must("settle", seen) /\ Advance("settle", [j EXCEPT !.seen = seen])
             /\ UNCHANGED world
    <2>1. PICK local : local = [j EXCEPT !.seen = seen]
      OBVIOUS
    <2>2. Advance("settle", local) /\ UNCHANGED <<pool, ledger, clock>>
      BY <1>4, <2>1 DEF world
    <2>3. seen \in [Balances -> Nat]
      BY <1>1, SeenType
    <2>4. /\ local \in Jobs /\ local.state = "running" /\ local.at = j.at /\ local.receipt = None
          /\ local.id = j.id /\ local.draft = j.draft /\ local.auth = j.auth
          /\ local.seen = seen
      BY <1>2, <2>1, <2>3 DEF Jobs
    <2>5. j.at \in {5, 6, 10, 11, 12}
      BY <1>1, SettlePlaces DEF Read
    <2>6. \A b \in Balances : Op("settle") # b => seen[b] = j.seen[b]
      BY <1>1, <1>2 DEF Seen, Jobs
    <2>7. j.at \in {5, 10} => seen[Op("settle")] = tokens["employer"]
      <3>1. j.at \in {5, 10} => Op("settle") \in {"empBefore", "empAfter"}
        BY <1>1, SettlePlaces
      <3> QED
        BY <1>1, <1>2, <3>1 DEF Seen, Balances, Jobs
    <2>8. j.at = 11 => (seen["empAfter"] - seen["empBefore"]) + j.auth.accrued = FUND
      <3> SUFFICES ASSUME j.at = 11
                   PROVE  (seen["empAfter"] - seen["empBefore"]) + j.auth.accrued = FUND
        OBVIOUS
      <3>1. Op("settle") = "recAfter"
        BY <1>1, SettlePlaces
      <3>2. PaidAsSigned("settle", seen) /\ AddsUp("settle", seen)
        BY <1>4, <3>1 DEF Must
      <3>3. j.fund = FUND
        BY <1>1, <1>2, JobFields DEF JobTypeOK, Funds
      <3> QED
        BY <1>1, <3>2, <3>3 DEF PaidAsSigned, AddsUp
    <2>9. Settles(local)
      BY <1>1, <2>4, <2>5, <2>6, <2>7, <2>8 DEF Settles
    <2> QED
      BY <1>1, <1>2, <2>2, <2>4, <2>9, SettleAdvance
  <1> QED
    BY <1>1, <1>3, <1>4 DEF Read

\* The test waits for its stream to accrue.
LEMMA SettleSleeps ==
    ASSUME CInv, SettleOK, "settle" \in DOMAIN job, Sleep("settle")
    PROVE  SettleOK'
  <1>1. PICK j, local : j = job["settle"] /\ local = [j EXCEPT !.issuedAt = clock]
    OBVIOUS
  <1>2. /\ Advance("settle", local) /\ UNCHANGED <<pool, ledger, clock>>
        /\ j.state = "running" /\ ~j.sent /\ j.at = 7
    BY <1>1, SettlePlaces DEF Sleep, Running, world
  <1>3. j \in Jobs /\ j.receipt = None /\ clock \in Nat
    BY <1>1, <1>2, JobFields DEF JobTypeOK, CInv, WorldOK
  <1>4. /\ local \in Jobs /\ local.state = "running" /\ local.at = j.at /\ local.receipt = None
        /\ local.id = j.id /\ local.draft = j.draft /\ local.auth = j.auth
        /\ local.seen = j.seen
    BY <1>1, <1>2, <1>3 DEF Jobs
  <1>5. Settles(local)
    BY <1>1, <1>2, <1>4 DEF Settles
  <1> QED
    BY <1>1, <1>2, <1>4, <1>5, SettleAdvance

\* The test asks the enclave, which signs what its terms have accrued by now.
LEMMA SettleAsks ==
    ASSUME CInv, SettleOK, "settle" \in DOMAIN job, Ask("settle")
    PROVE  SettleOK'
  <1>1. CASE Die("settle")
    BY <1>1, SettleState DEF Die
  <1>2. CASE ~Die("settle")
    <2>1. PICK j, auth : /\ j = job["settle"]
                         /\ auth = authorizedAt(j.sealed.terms, clock)
      OBVIOUS
    <2>2. PICK local : local = [j EXCEPT !.auth = auth]
      OBVIOUS
    <2>3. /\ Advance("settle", local) /\ UNCHANGED <<pool, ledger, clock>>
          /\ j.state = "running" /\ ~j.sent /\ j.at = 8
      BY <1>2, <2>1, <2>2, SettlePlaces DEF Ask, Running, world
    <2>4. /\ j \in Jobs /\ j.receipt = None /\ clock \in Nat
          /\ j.sealed = j.draft /\ j.draft \in Drafts
      BY <2>1, <2>3, JobFields DEF JobTypeOK, CreateAt, CInv, WorldOK
    <2>5. auth \in Authorizations
      BY <2>1, <2>4, AuthorizedType
    <2>6. auth.accrued = 0 \/ auth.accrued + BACKDATE <= MaxTime
      <3>1. SettleLocal(j, clock)
        BY <2>1 DEF SettleOK
      <3>2. /\ j.draft.terms.ratePerSecond = RATE_SCALE /\ j.draft.terms.startTime >= BACKDATE
            /\ clock <= BACKDATE \/ clock <= MaxTime
        BY <2>3, <3>1 DEF SettleLocal
      <3>3. HasAccrual(j.draft.terms)
        BY <2>4, Constants
      <3>4. auth.accrued = accruedAt(j.draft.terms, clock)
        BY <2>1, <2>4 DEF authorizedAt
      <3> QED
        BY <2>4, <3>2, <3>3, <3>4, SettleAccrues
    <2>7. /\ local \in Jobs /\ local.state = "running" /\ local.at = j.at /\ local.receipt = None
          /\ local.id = j.id /\ local.draft = j.draft /\ local.auth = auth
          /\ local.seen = j.seen
      BY <2>2, <2>3, <2>4, <2>5 DEF Jobs
    <2>8. Settles(local)
      BY <2>1, <2>3, <2>6, <2>7 DEF Settles
    <2> QED
      BY <2>1, <2>3, <2>7, <2>8, SettleAdvance
  <1> QED
    BY <1>1, <1>2

\* The fields of the test when it may just have been given a receipt.
SameBut(n, j) ==
    /\ n.at = j.at /\ n.id = j.id /\ n.draft = j.draft /\ n.auth = j.auth
    /\ n.seen = j.seen /\ n.state = j.state

\* A transaction of the test is mined: its deposit, which is FUND, or its settlement,
\* which pays up to the figure and gives the rest back.
LEMMA OwnMined ==
    ASSUME CInv, SettleOK, NEW tx, TxOK(tx), tx.by = "settle",
           NEW n, SameBut(n, job["settle"]),
           n.receipt = None \/ n.receipt.success = CanExecute(tx),
           tx.op = "cancel" => tx.auth = job["settle"].auth,
           IF CanExecute(tx) THEN Execute(tx) ELSE UNCHANGED ledger
    PROVE  SettleLedger(n, streams'[n.id], refunded'[n.id], tokens'["employer"])
  <1>1. PICK j, id : j = job["settle"] /\ id = j.id
    OBVIOUS
  <1>2. /\ "settle" \in DOMAIN job /\ j.sent /\ j.receipt = None /\ tx.op = Op("settle")
        /\ tx.id = id
    BY <1>1, SettleSends DEF Present
  <1>3. j.at \in {2, 3, 4, 9} /\ n.at = j.at /\ n.id = id /\ n.auth = j.auth /\ n.seen = j.seen
    <2>1. tx.op \in Calls
      BY DEF TxOK, Transactions
    <2> QED
      BY <1>1, <1>2, <2>1, SettlePlaces DEF SameBut
  <1>4. CASE j.at \in {2, 3}
    BY <1>3, <1>4 DEF SettleLedger, Did
  <1>5. SettleLedger(j, streams[id], refunded[id], tokens["employer"])
    BY <1>1, <1>2 DEF SettleOK
  <1>6. CASE ~CanExecute(tx)
    <2>1. streams' = streams /\ refunded' = refunded /\ tokens' = tokens
      BY <1>6 DEF ledger
    <2>2. \A k : Did(n, k) => Did(j, k)
      BY <1>3, <1>6 DEF Did
    <2> QED
      BY <1>3, <1>5, <2>1, <2>2 DEF SettleLedger
  <1>7. CASE j.at = 4 /\ CanExecute(tx)
    <2>1. tx.op = "fund"
      BY <1>1, <1>2, <1>7, SettlePlaces
    <2>2. id \in 1..Len(created) /\ streams[id].funded = 0 /\ tx.amount = FUND
      BY <1>2, <2>1 DEF TxOK, Owned, Funds
    <2>3. streams[id] \in LedgerStreams(Drafts) /\ id \in StreamIds /\ DOMAIN streams = StreamIds
      BY <2>2, LedgerFacts DEF LedgerTypeOK
    <2>4. streams' = [streams EXCEPT ![id] = AfterFund(streams[id], FUND)]
      BY <1>2, <1>7, <2>1, <2>2 DEF Execute
    <2>5. streams'[id].funded = FUND
      BY <2>2, <2>3, <2>4, Constants DEF AfterFund, LedgerStreams
    <2> QED
      BY <1>3, <1>7, <2>5 DEF SettleLedger, Did
  <1>8. CASE j.at = 9 /\ CanExecute(tx)
    <2>1. tx.op = "cancel"
      BY <1>1, <1>2, <1>8, SettlePlaces
    <2>2. /\ id \in 1..Len(created) /\ tx.auth = j.auth /\ j.auth \in Authorizations
          /\ CanCancel(streams[id], j.auth, clock)
      BY <1>1, <1>2, <1>8, <2>1 DEF TxOK, Owned, CanExecute
    <2>3. PICK s : s = AfterCancel(streams[id], j.auth)
      OBVIOUS
    <2>4. /\ streams[id] \in LedgerStreams(Drafts) /\ id \in StreamIds
          /\ streams[id].withdrawn <= streams[id].funded /\ streams[id].funded \in Nat
          /\ ~streams[id].cancelled => refunded[id] = 0
      BY <2>2, LedgerFacts
    <2>5. refunded[id] = 0 /\ streams[id].funded = FUND
      BY <1>5, <1>8, <2>2, <2>4 DEF CanCancel, IsOpen, SettleLedger, Did
    <2>6. /\ s \in LedgerStreams(Drafts) /\ s.funded = FUND /\ s.cancelled
          /\ s.withdrawn <= FUND
      BY <2>2, <2>3, <2>4, <2>5, RecordAfter
    <2>7. s.withdrawn \in Nat /\ FUND \in Nat
      BY <2>6, Constants DEF LedgerStreams
    <2>8. s.withdrawn >= CapOf(s, j.auth)
      <3>1. CapOf(s, j.auth) = CapOf(streams[id], j.auth) /\ CapOf(s, j.auth) \in Nat
        BY <2>2, <2>5, <2>6, <2>7 DEF CapOf, Authorizations
      <3>2. s.withdrawn = IF CapOf(streams[id], j.auth) > streams[id].withdrawn
                          THEN CapOf(streams[id], j.auth) ELSE streams[id].withdrawn
        BY <2>3, <2>4 DEF AfterCancel, LedgerStreams
      <3>3. streams[id].withdrawn \in Nat
        BY <2>2, LedgerFacts
      <3> QED
        BY <3>1, <3>2, <3>3
    <2>9. tokens \in [Holders -> Nat] /\ {"employer", "alice"} \subseteq Holders
          /\ DOMAIN streams = StreamIds /\ DOMAIN refunded = StreamIds
      BY LedgerFacts DEF LedgerTypeOK, Holders
    <2>10. /\ streams' = [streams EXCEPT ![id] = s]
           /\ refunded' = [refunded EXCEPT ![id] = s.funded - s.withdrawn]
           /\ tokens' = [tokens EXCEPT !["employer"] = @ + s.funded - s.withdrawn,
                                       !["alice"] = @ + Pays(tx.id, tx.auth)]
      BY <1>2, <1>8, <2>1, <2>2, <2>3 DEF Execute, RecipientOf
    <2>11. streams'[id] = s /\ refunded'[id] = FUND - s.withdrawn
      BY <2>4, <2>6, <2>9, <2>10
    <2>12. tokens'["employer"] = tokens["employer"] + (FUND - s.withdrawn)
           /\ tokens["employer"] \in Nat
      BY <2>6, <2>7, <2>9, <2>10
    <2>13. tokens["employer"] <= j.seen["empBefore"] /\ j.seen["empBefore"] \in Nat
      <3>1. j.seen["empBefore"] \in Nat
        BY <1>1, <1>2, JobFields DEF Balances
      <3>2. tokens["employer"] <= j.seen["empBefore"] + refunded[id]
        BY <1>5, <1>8 DEF SettleLedger
      <3> QED
        BY <2>5, <3>1, <3>2
    <2>14. tokens'["employer"] <= n.seen["empBefore"] + refunded'[id]
      BY <1>3, <2>7, <2>11, <2>12, <2>13
    <2>15. refunded'[id] + s.withdrawn = FUND
      BY <2>7, <2>11
    <2> QED
      BY <1>3, <1>8, <2>6, <2>8, <2>11, <2>14, <2>15 DEF SettleLedger, Did
  <1> QED
    BY <1>3, <1>4, <1>6, <1>7, <1>8

\* A transaction of another program is mined: it leaves the test's stream alone, and
\* gives the employer nothing.
LEMMA OtherMined ==
    ASSUME CInv, NEW tx, TxOK(tx), tx.by # "settle",
           tx.op = "create" => Len(created) < MaxStreams, CanExecute(tx), Execute(tx)
    PROVE  /\ tokens'["employer"] \in Nat /\ tokens'["employer"] <= tokens["employer"]
           /\ \A i \in 1..Len(created) : created[i].by = "settle" =>
                refunded'[i] = refunded[i] /\ streams'[i] = streams[i]
  <1>1. tx.op \in Calls /\ tx.op # "cancel"
    BY DEF TxOK, Transactions
  <1>2. /\ tokens \in [Holders -> Nat] /\ "employer" \in Holders /\ DOMAIN streams = StreamIds
        /\ Len(created) \in Nat
        /\ \A i \in 1..Len(created) : i \in StreamIds
    BY LedgerFacts DEF LedgerTypeOK, Holders
  <1>3. CASE tx.op = "create"
    <2>1. /\ created' = Append(created, [by |-> tx.by, sealed |-> tx.sealed])
          /\ streams' = [streams EXCEPT ![Len(created')] = Opened(tx.commitment)]
          /\ tokens' = tokens /\ refunded' = refunded
      BY <1>3 DEF Execute
    <2>2. created \in Seq(Creations)
      BY LedgerFacts DEF LedgerTypeOK
    <2>3. PICK l : l = Len(created')
      OBVIOUS
    <2>4. l = Len(created) + 1
      BY <2>1, <2>2, <2>3
    <2>5. \A i \in 1..Len(created) : i # l
      BY <1>2, <2>4
    <2> QED
      BY <1>2, <2>1, <2>3, <2>5
  <1>4. CASE tx.op \in {"approve", "reveal"}
    <2>1. streams' = streams /\ tokens' = tokens /\ refunded' = refunded
      BY <1>4 DEF Execute
    <2>2. tokens["employer"] \in Nat
      BY <1>2
    <2> QED
      BY <2>1, <2>2
  <1>5. CASE tx.op = "fund"
    <2>1. /\ created[tx.id].by # "settle" /\ tx.amount \in Nat /\ tokens["employer"] >= tx.amount
      BY <1>5 DEF TxOK, Transactions, Owned, CanExecute, CanFund
    <2>2. /\ streams' = [streams EXCEPT ![tx.id] = AfterFund(@, tx.amount)]
          /\ tokens' = [tokens EXCEPT !["employer"] = @ - tx.amount] /\ refunded' = refunded
      BY <1>5 DEF Execute
    <2> QED
      BY <1>2, <2>1, <2>2
  <1>6. CASE tx.op = "withdraw"
    <2>1. created[tx.id].by # "settle" /\ RecipientOf(tx.by) = "fresh"
      BY <1>6 DEF TxOK, Owned, RecipientOf
    <2>2. /\ streams' = [streams EXCEPT ![tx.id] = AfterWithdraw(@, tx.auth)]
          /\ tokens' = [tokens EXCEPT !["fresh"] = @ + Pays(tx.id, tx.auth)]
          /\ refunded' = refunded
      BY <1>6, <2>1 DEF Execute
    <2> QED
      BY <1>2, <2>1, <2>2
  <1> QED
    BY <1>1, <1>3, <1>4, <1>5, <1>6 DEF Calls

\* A transaction is mined.
LEMMA SettleMined ==
    ASSUME CInv, SettleOK, "settle" \in DOMAIN job, Mine
    PROVE  SettleOK'
  <1>1. PICK tx, j, n : tx = Head(pool) /\ j = job["settle"] /\ n = job'["settle"]
    OBVIOUS
  <1>2. /\ pool # <<>> /\ pool' = Tail(pool) /\ clock' = clock
        /\ tx.op = "create" => Len(created) < MaxStreams
        /\ IF CanExecute(tx) THEN Execute(tx) ELSE UNCHANGED ledger
    BY <1>1 DEF Mine
  <1>3. /\ 1 \in DOMAIN pool /\ tx = pool[1]
        /\ \A i \in DOMAIN pool' : i + 1 \in DOMAIN pool /\ pool'[i] = pool[i + 1]
    <2>1. pool \in Seq(Transactions)
      BY DEF CInv, PoolOK
    <2> QED
      BY <1>1, <1>2, <2>1
  <1>4. TxOK(tx)
    BY <1>3 DEF CInv, PoolOK
  <1>5. /\ SettleLocal(j, clock) /\ CancelOK
    BY <1>1 DEF SettleOK
  <1>6. CASE tx.by # "settle"
    <2>1. job'["settle"] = job["settle"]
      BY <1>1, <1>6 DEF Mine
    <2>2. /\ tokens'["employer"] \in Nat /\ tokens'["employer"] <= tokens["employer"]
          /\ \A i \in 1..Len(created) : created[i].by = "settle" =>
               refunded'[i] = refunded[i] /\ streams'[i] = streams[i]
      <3>1. CASE CanExecute(tx)
        BY <1>2, <1>4, <1>6, <3>1, OtherMined
      <3>2. CASE ~CanExecute(tx)
        <4>1. streams' = streams /\ tokens' = tokens /\ refunded' = refunded
          BY <1>2, <3>2 DEF ledger
        <4>2. tokens["employer"] \in Nat
          BY LedgerFacts DEF LedgerTypeOK, Holders
        <4> QED
          BY <4>1, <4>2
      <3> QED
        BY <3>1, <3>2
    <2>3. clock' <= BACKDATE \/ clock' <= MaxTime
      BY <1>2, <1>5 DEF SettleLocal
    <2>4. \A i \in DOMAIN pool' : pool'[i].op = "cancel" =>
            \E k \in DOMAIN pool : pool'[i] = pool[k]
      BY <1>3
    <2> QED
      BY <2>1, <2>2, <2>3, <2>4, SettleStays
  <1>7. CASE tx.by = "settle"
    <2>1. j \in Jobs /\ j.receipt = None
      BY <1>1, <1>4, <1>7, JobFields, SettleSends DEF JobTypeOK, Present
    <2>2. SameBut(n, j) /\ (n.receipt = None \/ n.receipt.success = CanExecute(tx))
      <3>1. PICK r : r = [success |-> CanExecute(tx), id |-> Len(created')]
        OBVIOUS
      <3>2. r.success = CanExecute(tx)
        BY <3>1
      <3>3. n = j \/ n = [j EXCEPT !.receipt = r]
        BY <1>1, <1>7, <3>1 DEF Mine
      <3> QED
        BY <2>1, <3>2, <3>3 DEF SameBut, Jobs
    <2>3. SettleLedger(n, streams'[n.id], refunded'[n.id], tokens'["employer"])
      <3>1. tx.op = "cancel" => tx.auth = job["settle"].auth
        BY <1>3, <1>5 DEF CancelOK
      <3> QED
        BY <1>1, <1>2, <1>4, <1>7, <2>2, <3>1, OwnMined
    <2>4. SettleLocal(n, clock')
      BY <1>2, <1>5, <2>2 DEF SettleLocal, SameBut
    <2>5. CancelOK'
      BY <1>1, <1>3, <1>5, <2>2 DEF CancelOK, SameBut
    <2> QED
      BY <1>1, <2>3, <2>4, <2>5 DEF SettleOK
  <1> QED
    BY <1>6, <1>7

\* Alice withdraws, from the test's stream maybe, while it is open.
LEMMA SettleDespiteAlice ==
    ASSUME CInv, SettleOK, "settle" \in DOMAIN job,
           NEW id \in 1..Len(created), NEW t \in BACKDATE..clock, AliceWithdraws(id, t)
    PROVE  SettleOK'
  <1>1. PICK auth : auth = authorizedAt(created[id].sealed.terms, t)
    OBVIOUS
  <1>2. /\ CanWithdraw(streams[id], auth, clock)
        /\ streams' = [streams EXCEPT ![id] = AfterWithdraw(@, auth)]
        /\ tokens' = [tokens EXCEPT !["alice"] = @ + Pays(id, auth)]
        /\ refunded' = refunded /\ job' = job /\ pool' = pool /\ clock' = clock
    BY <1>1 DEF AliceWithdraws
  <1>3. /\ tokens \in [Holders -> Nat] /\ "employer" \in Holders
        /\ streams \in [StreamIds -> LedgerStreams(Drafts) \cup {Absent}]
        /\ \A i \in 1..Len(created) : i \in StreamIds
    BY LedgerFacts DEF LedgerTypeOK, Holders
  <1>4. streams[id] \in LedgerStreams(Drafts) /\ IsOpen(streams[id])
    BY <1>2, LedgerFacts DEF CanWithdraw
  <1>5. AfterWithdraw(streams[id], auth).funded = streams[id].funded
    BY <1>4 DEF AfterWithdraw, LedgerStreams
  <1>6. \A i \in 1..Len(created) :
          streams'[i] = streams[i]
            \/ (IsOpen(streams[i]) /\ streams'[i].funded = streams[i].funded)
    BY <1>2, <1>3, <1>4, <1>5
  <1>7. tokens'["employer"] = tokens["employer"] /\ tokens["employer"] \in Nat
    BY <1>2, <1>3
  <1>8. clock' <= BACKDATE \/ clock' <= MaxTime
    BY <1>2 DEF SettleOK, SettleLocal
  <1> QED
    BY <1>2, <1>6, <1>7, <1>8, SettleStays

\* A step that leaves the ledger, the test and the settlements on their way alone.
LEMMA SettleAlone ==
    ASSUME CInv, SettleOK, "settle" \in DOMAIN job, job'["settle"] = job["settle"],
           UNCHANGED ledger, clock' <= BACKDATE \/ clock' <= MaxTime,
           \A i \in DOMAIN pool' : pool'[i].op = "cancel" =>
               \E k \in DOMAIN pool : pool'[i] = pool[k]
    PROVE  SettleOK'
  <1>1. streams' = streams /\ tokens' = tokens /\ refunded' = refunded
    BY DEF ledger
  <1>2. tokens["employer"] \in Nat
    BY LedgerFacts DEF LedgerTypeOK, Holders
  <1> QED
    BY <1>1, <1>2, SettleStays

\* Another program takes a step.
LEMMA SettleDespite ==
    ASSUME CInv, SettleOK, "settle" \in DOMAIN job,
           NEW p \in DOMAIN job, p # "settle", Step(p)
    PROVE  SettleOK'
  <1>1. job'["settle"] = job["settle"] /\ UNCHANGED <<ledger, clock>>
    BY DEF Step, Start, Throw, Die, Seal, Send, Receipt, Read, Sleep, Listen, Ask, Close,
           Advance, world
  <1>2. \A i \in DOMAIN pool' : pool'[i].op = "cancel" =>
          \E k \in DOMAIN pool : pool'[i] = pool[k]
    <2>1. CASE Send(p)
      <3>1. PICK tx : pool' = Append(pool, tx) /\ tx.op = Op(p)
        BY <2>1 DEF Send
      <3>2. tx.op # "cancel"
        BY <3>1, JobFields, ProgramFacts DEF Op
      <3>3. pool \in Seq(Transactions)
        BY DEF CInv, PoolOK
      <3> QED
        BY <3>1, <3>2, <3>3
    <2>2. CASE ~Send(p)
      <3>1. pool' = pool
        BY <2>2 DEF Step, Start, Throw, Die, Seal, Receipt, Read, Sleep, Listen, Ask, Close,
                    world
      <3> QED
        BY <3>1
    <2> QED
      BY <2>1, <2>2
  <1>3. clock' <= BACKDATE \/ clock' <= MaxTime
    BY <1>1 DEF SettleOK, SettleLocal
  <1> QED
    BY <1>1, <1>2, <1>3, SettleAlone

\* Every step keeps what the test relies on.
LEMMA SettleStep ==
    ASSUME CInv, SettleOK, [Next]_vars
    PROVE  SettleOK'
  <1>1. DOMAIN job' = DOMAIN job
    BY DEF Next, Step, Start, Throw, Die, Seal, Send, Receipt, Read, Sleep, Listen, Ask, Close,
           Advance, Submit, Edit, NotInAbi, Mine, AliceWithdraws, Serve, Tick, vars, world
  <1>2. CASE "settle" \notin DOMAIN job
    BY <1>1, <1>2 DEF SettleOK
  <1>3. CASE "settle" \in DOMAIN job
    <2>1. ASSUME Step("settle") PROVE SettleOK'
      <3>1. CASE Start("settle")
        BY <1>3, <3>1, SettleState DEF Start, world
      <3>2. CASE Throw("settle")
        BY <1>3, <3>2, SettleState DEF Throw, Die
      <3>3. CASE Listen("settle") \/ Close("settle")
        BY <1>3, <3>3, SettlePlaces DEF Listen, Close, Running
      <3> QED
        BY <1>3, <2>1, <3>1, <3>2, <3>3, SettleSeals, SettleSent, SettleReceipt, SettleReads,
           SettleSleeps, SettleAsks DEF Step
    <2>2. ASSUME Submit \/ Edit \/ NotInAbi \/ Serve \/ UNCHANGED vars PROVE SettleOK'
      <3>1. /\ job'["settle"] = job["settle"] /\ UNCHANGED <<ledger, clock>> /\ pool' = pool
        <4>1. CASE Submit
          BY <4>1 DEF Submit, world
        <4>2. CASE NotInAbi
          BY <4>2 DEF NotInAbi, Die
        <4>3. CASE Edit \/ Serve \/ UNCHANGED vars
          BY <4>3 DEF Edit, Serve, vars, world
        <4> QED
          BY <2>2, <4>1, <4>2, <4>3
      <3>2. clock' <= BACKDATE \/ clock' <= MaxTime
        BY <1>3, <3>1 DEF SettleOK, SettleLocal
      <3> QED
        BY <1>3, <3>1, <3>2, SettleAlone
    <2>3. ASSUME Tick PROVE SettleOK'
      <3>1. clock' <= MaxTime
        BY <2>3, Constants DEF Tick, CInv, WorldOK
      <3>2. job' = job /\ pool' = pool /\ UNCHANGED ledger
        BY <2>3 DEF Tick
      <3> QED
        BY <1>3, <3>1, <3>2, SettleAlone
    <2>4. ASSUME NEW p \in DOMAIN job, Step(p) PROVE SettleOK'
      BY <1>3, <2>1, <2>4, SettleDespite
    <2> QED
      BY <1>3, <2>2, <2>3, <2>4, SettleMined, SettleDespiteAlice DEF Next
  <1> QED
    BY <1>2, <1>3

\* What the settlement test relies on holds throughout: only its own refund increases the
\* employer's balance, its deposit is in its stream once fund's receipt was a success,
\* and the settlement that was mined is the one that the enclave signed for it.
THEOREM SettleInvariance == Spec => []SettleOK
  BY InitSettles, SettleStep, ClientsInvariance, PTL DEF Spec

\* When test-settle.ts reports success, its stream is closed and has paid exactly the
\* signed figure as far as it was funded, and the deposit is divided between Alice and
\* the employer; whatever the other programs deposit and whether or not Alice
\* withdrew before.
THEOREM SettledAtCapHolds == Spec => []SettledAtCap
  <1>1. CInv /\ SettleOK => SettledAtCap
    <2> SUFFICES ASSUME CInv, SettleOK, "settle" \in DOMAIN job, job["settle"].state = "done"
                 PROVE  LET s == streams[job["settle"].id]
                        IN  /\ s.cancelled
                            /\ s.withdrawn = CapOf(s, job["settle"].auth)
                            /\ refunded[job["settle"].id] + s.withdrawn = job["settle"].fund
      BY DEF SettledAtCap
    <2>1. PICK j, id, s : j = job["settle"] /\ id = j.id /\ s = streams[id]
      OBVIOUS
    <2>2. j.at = 12 /\ (j.seen["empAfter"] - j.seen["empBefore"]) + j.auth.accrued = FUND
      BY <2>1 DEF SettleOK, SettleLocal
    <2>3. /\ s.cancelled /\ s.withdrawn >= CapOf(s, j.auth) /\ refunded[id] + s.withdrawn = FUND
          /\ j.seen["empAfter"] <= j.seen["empBefore"] + refunded[id] /\ s.funded = FUND
      BY <2>1, <2>2 DEF SettleOK, SettleLedger, Did
    <2>4. /\ j.seen["empAfter"] \in Nat /\ j.seen["empBefore"] \in Nat
          /\ j.auth \in Authorizations /\ j.fund = FUND
      <3>1. j.seen \in [Balances -> Nat] /\ JobTypeOK("settle")
        BY <2>1, JobFields
      <3> QED
        BY <2>1, <2>2, <3>1 DEF JobTypeOK, Asked, Funds, Balances
    <2>5. id \in 1..Len(created)
      BY <2>1, <2>2, JobFields DEF JobLedgerOK, CreateAt, Owned
    <2>6. s.withdrawn \in Nat /\ s.withdrawn <= s.funded /\ refunded[id] \in Nat
      BY <2>1, <2>5, LedgerFacts DEF LedgerTypeOK
    <2>7. j.auth.accrued \in Nat /\ FUND \in Nat
      BY <2>4, Constants DEF Authorizations
    <2>8. s.withdrawn <= j.auth.accrued
      BY <2>2, <2>3, <2>4, <2>6, <2>7
    <2>9. s.withdrawn = CapOf(s, j.auth)
      BY <2>3, <2>6, <2>7, <2>8 DEF CapOf
    <2> QED
      BY <2>1, <2>3, <2>4, <2>9
  <1> QED
    BY <1>1, ClientsInvariance, SettleInvariance, PTL

\* "AUTH_SETTLE VERIFIED" is true when it is printed: the stream is settled at the figure
\* that the enclave signed, although the balances the test goes by are moved by others
\* too, provided that its deposit lasts for as long as it may run.
THEOREM SettleVerdictHolds ==
    ASSUME DepositOutlasts
    PROVE  Spec => []SettleVerdict
  <1>1. CInv /\ SettleOK /\ SettledAtCap => SettleVerdict
    <2> SUFFICES ASSUME CInv, SettleOK, SettledAtCap, "settle" \in DOMAIN job,
                        job["settle"].state = "done"
                 PROVE  LET s == streams[job["settle"].id]
                        IN  /\ s.cancelled
                            /\ s.withdrawn = job["settle"].auth.accrued
                            /\ refunded[job["settle"].id] + s.withdrawn = job["settle"].fund
      BY DEF SettleVerdict
    <2>1. PICK j, id, s : j = job["settle"] /\ id = j.id /\ s = streams[id]
      OBVIOUS
    <2>2. /\ j.at = 12 /\ (j.auth.accrued = 0 \/ j.auth.accrued + BACKDATE <= MaxTime)
      BY <2>1 DEF SettleOK, SettleLocal
    <2>3. s.funded = FUND
      BY <2>1, <2>2 DEF SettleOK, SettleLedger, Did
    <2>4. j.auth.accrued \in Nat
      BY <2>1, <2>2, JobFields DEF JobTypeOK, Asked, Authorizations
    <2>5. {FUND, BACKDATE, MaxTime} \subseteq Nat
      BY Constants
    <2>6. j.auth.accrued <= FUND
      BY <2>2, <2>4, <2>5 DEF DepositOutlasts
    <2>7. CapOf(s, j.auth) = j.auth.accrued
      BY <2>3, <2>4, <2>5, <2>6 DEF CapOf
    <2> QED
      BY <2>1, <2>7 DEF SettledAtCap
  <1> QED
    BY <1>1, ClientsInvariance, SettleInvariance, SettledAtCapHolds, PTL
==============================================================================
