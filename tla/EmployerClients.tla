--------------------------- MODULE EmployerClients ---------------------------
(***************************************************************************)
(* The programs that open streams with the employer's account: the page    *)
(* frontend/app/app/page.tsx and, in typescript/scripts, e2e-coston2.ts    *)
(* ("e2e"), test-settle.ts ("settle") and create-demo-stream.ts ("demo").  *)
(* Each is a straight program of awaits.  Started side by side they share  *)
(* the account: its transactions are mined in the order of their nonces,   *)
(* its allowance to the vault is one number that approve overwrites, and   *)
(* the scripts tell what happened from balances that the others move too.  *)
(* All are configured with the same token.                                 *)
(***************************************************************************)
EXTENDS VaultLedger, Sequences, FiniteSetsExt

CONSTANTS
    None,
    Casts,          \* sets of programs that may be used side by side
    Forms,          \* what the page's form may say: [terms, fund]
    FUND,           \* what a script deposits
    BACKDATE,       \* how far e2e and demo put the start into the past
    SETTLE_AFTER_SECONDS,
    Endowment,      \* the employer's tokens
    MaxAttempts,    \* bound: submissions of the page
    MaxStreams,     \* bound, never reached: streams created
    MaxTime,        \* bound: when the clock stops
    MaxFaults       \* bound: calls that throw, receipts that do not come

Programs == {"page", "e2e", "settle", "demo"}
StreamIds == 1..MaxStreams

\* Whose terms, and what they say: those of a form, or made by a script.
Drafts ==
    [of : Programs,
     terms : {f.terms : f \in Forms} \cup [ratePerSecond : Nat, total : Nat, startTime : Nat]]

ASSUME ClientsAssumption ==
    /\ Casts \subseteq SUBSET Programs
    /\ None \notin Nat \cup [success : BOOLEAN, id : Nat]
    /\ Absent \notin LedgerStreams(Drafts)
    /\ \A form \in Forms : HasAccrual(form.terms) /\ form.fund \in Nat
    /\ {FUND, BACKDATE, SETTLE_AFTER_SECONDS, Endowment, MaxAttempts, MaxStreams,
        MaxTime, MaxFaults} \subseteq Nat

VARIABLES
    job,        \* by program: where it is and its local variables
    form,       \* the page's form
    repaired,   \* whether the page's ABIs have the functions it calls
    pool,       \* the account's transactions that are not mined
    streams,    \* the vault's records
    created,    \* the StreamCreated events, by stream
    revealed,   \* streams with a TermsRevealed event
    tokens,     \* the token's balances
    allowance,  \* what the vault may take from the employer
    refunded,   \* by stream: what a cancellation gave back
    port,       \* who listens on 18080: "nobody", "serve" or "e2e"
    clock,
    faults

ledger == <<streams, created, revealed, tokens, allowance, refunded>>
world  == <<form, repaired, pool, ledger, port, clock, faults>>
vars   == <<job, world>>

\* What each program awaits, in order.
PageProgram == <<"seal", "create", "approve", "fund">>

E2eProgram ==
    <<"seal", "create", "stored", "approve", "fund", "listen", "ask", "close",
      "recBefore", "withdraw", "recAfter", "reveal">>

SettleProgram ==
    <<"seal", "create", "approve", "fund", "empBefore", "recBefore", "sleep", "ask",
      "cancel", "empAfter", "recAfter", "cancelled">>

DemoProgram == <<"balance", "seal", "create", "approve", "fund", "reveal">>

Program(p) ==
    CASE p = "page"   -> PageProgram
      [] p = "e2e"    -> E2eProgram
      [] p = "settle" -> SettleProgram
      [] p = "demo"   -> DemoProgram

Calls    == {"create", "approve", "fund", "withdraw", "cancel", "reveal"}
Balances == {"empBefore", "recBefore", "empAfter", "recAfter"}
Reads    == Balances \cup {"stored", "cancelled", "balance"}

RecipientOf(p) ==
    CASE p \in {"settle", "demo"} -> "alice" [] p = "e2e" -> "fresh" [] p = "page" -> "payee"
Holders == {"employer", "alice", "fresh", "payee"}

Off ==
    [state |-> "off", at |-> 1, attempt |-> 0, sent |-> FALSE, receipt |-> None,
     id |-> None, draft |-> None, sealed |-> None, fund |-> FUND, issuedAt |-> 0,
     auth |-> None, seen |-> [b \in Balances |-> 0]]

Init ==
    /\ job \in UNION {[cast -> {Off}] : cast \in Casts}
    /\ form \in IF "page" \in DOMAIN job THEN Forms ELSE {CHOOSE f \in Forms : TRUE}
    /\ repaired \in IF "page" \in DOMAIN job THEN BOOLEAN ELSE {FALSE}
    /\ pool = <<>>
    /\ streams = [id \in StreamIds |-> Absent]
    /\ created = <<>>
    /\ revealed = {}
    /\ tokens = [a \in Holders |-> IF a = "employer" THEN Endowment ELSE 0]
    /\ allowance = 0
    /\ refunded = [id \in StreamIds |-> 0]
    /\ port = "nobody"
    /\ clock = BACKDATE
    /\ faults = 0

------------------------------------------------------------------------------
Op(p) == Program(p)[job[p].at]
Running(p, op) == job[p].state = "running" /\ Op(p) = op /\ ~job[p].sent

\* Local state after the await, and at the end of the program.
Advance(p, local) ==
    job' = [job EXCEPT ![p] =
              IF job[p].at = Len(Program(p))
                 \/ (p = "page" /\ Op(p) = "create" /\ local.fund = 0)
              THEN [local EXCEPT !.state = "done"]
              ELSE [local EXCEPT !.at = @ + 1]]

\* A throw or a failed must: the process ends, and with it its server.
Die(p) ==
    /\ job' = [job EXCEPT ![p].state = "failed"]
    /\ port' = IF p = "e2e" /\ port = "e2e" THEN "nobody" ELSE port
    /\ UNCHANGED <<form, repaired, pool, ledger, clock>>

Start(p) ==
    /\ p # "page"
    /\ job[p].state = "off"
    /\ job' = [job EXCEPT ![p].state = "running"]
    /\ UNCHANGED world

\* submit: the handler was made with the draft and the amount of the last render.
Submit ==
    /\ job["page"].state # "running"
    /\ job["page"].attempt < MaxAttempts
    /\ job' = [job EXCEPT !["page"] =
                 [Off EXCEPT !.state = "running", !.attempt = job["page"].attempt + 1,
                             !.draft = [of |-> "page", terms |-> form.terms],
                             !.fund = form.fund]]
    /\ UNCHANGED world

Edit ==
    /\ form' \in Forms \ {form}
    /\ UNCHANGED <<job, repaired, pool, ledger, port, clock, faults>>

\* Some call of the program throws: the RPC node, the wallet, a nonce that another
\* program has used, a receipt that does not come in time.  What was sent stays sent.
Throw(p) ==
    /\ job[p].state = "running"
    /\ faults < MaxFaults
    /\ faults' = faults + 1
    /\ Die(p)

------------------------------------------------------------------------------
(* Steps of a program *)

\* A script makes its terms here; the page has captured them.
ScriptDraft(p) ==
    [of |-> p,
     terms |-> [ratePerSecond |-> RATE_SCALE, total |-> MaxTime,
                startTime |-> IF p = "settle" THEN clock ELSE clock - BACKDATE]]

Seal(p) ==
    LET draft == IF p = "page" THEN job[p].draft ELSE ScriptDraft(p)
    IN  /\ Running(p, "seal")
        /\ Advance(p, [job[p] EXCEPT !.draft = draft, !.sealed = draft])
        /\ UNCHANGED world

\* The commitment that is published: the captured one; the one now in the form.
CommitmentShown(p) == IF p = "page" THEN [of |-> p, terms |-> form.terms] ELSE job[p].draft
Committed(p) == job[p].draft

\* writeContract, and waitForTransactionReceipt from here on.
Send(p) ==
    LET op == Op(p)
    IN  /\ op \in Calls
        /\ Running(p, op)
        /\ p = "page" => repaired
        /\ pool' = Append(pool,
                     [op |-> op, by |-> p, attempt |-> job[p].attempt, id |-> job[p].id,
                      commitment |-> Committed(p), sealed |-> job[p].sealed,
                      amount |-> job[p].fund, auth |-> job[p].auth])
        /\ job' = [job EXCEPT ![p].sent = TRUE, ![p].receipt = None]
        /\ UNCHANGED <<form, repaired, ledger, port, clock, faults>>

\* As shipped the page's ABIs name none of the functions it calls.
NotInAbi ==
    /\ Running("page", "create")
    /\ ~repaired
    /\ Die("page")
    /\ UNCHANGED faults

\* The receipt of an approval is not looked at, nor is the page's receipt of fund.
Checked(p) == Op(p) # "approve" /\ ~(p = "page" /\ Op(p) = "fund")

\* The id comes from the receipt's own logs; or it is the latest one.
LatestId(p) == Len(created)
IdFromLogs(p) == job[p].receipt.id

Receipt(p) ==
    /\ job[p].state = "running"
    /\ job[p].receipt # None
    /\ IF Checked(p) /\ ~job[p].receipt.success
       THEN Die(p) /\ UNCHANGED faults
       ELSE /\ Advance(p, [job[p] EXCEPT !.sent = FALSE, !.receipt = None,
                                         !.id = IF Op(p) = "create" THEN IdFromLogs(p) ELSE @])
            /\ UNCHANGED world

Seen(p) ==
    LET holder == IF Op(p) \in {"empBefore", "empAfter"} THEN "employer" ELSE RecipientOf(p)
    IN  IF Op(p) \in Balances THEN [job[p].seen EXCEPT ![Op(p)] = tokens[holder]]
        ELSE job[p].seen

\* must(paid === cumulativeAccrued), and without it.
NotCompared(p, seen) == TRUE
PaidAsSigned(p, seen) == seen["recAfter"] - seen["recBefore"] = job[p].auth.accrued

AddsUp(p, seen) ==
    (seen["empAfter"] - seen["empBefore"]) + (seen["recAfter"] - seen["recBefore"]) = job[p].fund

\* What the script makes sure of after a read.
Must(p, seen) ==
    CASE Op(p) = "stored"    -> streams[job[p].id].commitment = job[p].draft
      [] Op(p) = "recBefore" -> p = "e2e" => seen["recBefore"] = 0
      [] Op(p) = "recAfter"  -> PaidAsSigned(p, seen) /\ (p = "settle" => AddsUp(p, seen))
      [] Op(p) = "cancelled" -> streams[job[p].id].cancelled
      [] Op(p) = "balance"   -> tokens["employer"] >= job[p].fund
      [] OTHER               -> TRUE

Read(p) ==
    /\ Op(p) \in Reads
    /\ Running(p, Op(p))
    /\ \/ Must(p, Seen(p)) /\ Advance(p, [job[p] EXCEPT !.seen = Seen(p)]) /\ UNCHANGED world
       \/ ~Must(p, Seen(p)) /\ Die(p) /\ UNCHANGED faults

\* setTimeout, for the stream to accrue; then the challenge is signed.
Sleep(p) ==
    /\ Running(p, "sleep")
    /\ clock >= job[p].draft.terms.startTime + SETTLE_AFTER_SECONDS
    /\ Advance(p, [job[p] EXCEPT !.issuedAt = clock])
    /\ UNCHANGED world

\* e2e signs its challenge and brings its own server; a port in use is an error event nobody handles.
Listen(p) ==
    /\ Running(p, "listen")
    /\ \/ /\ port = "nobody"
          /\ Advance(p, [job[p] EXCEPT !.issuedAt = clock])
          /\ port' = "e2e"
          /\ UNCHANGED <<form, repaired, pool, ledger, clock, faults>>
       \/ port # "nobody" /\ Die(p) /\ UNCHANGED faults

\* Whichever server has the port answers.
Ask(p) ==
    /\ Running(p, "ask")
    /\ IF port # "nobody" /\ accepts(job[p].issuedAt, "employer", {"employer"}, clock)
       THEN /\ Advance(p, [job[p] EXCEPT !.auth = authorizedAt(job[p].sealed.terms, clock)])
            /\ UNCHANGED world
       ELSE Die(p) /\ UNCHANGED faults

Close(p) ==
    /\ Running(p, "close")
    /\ Advance(p, job[p])
    /\ port' = "nobody"
    /\ UNCHANGED <<form, repaired, pool, ledger, clock, faults>>

------------------------------------------------------------------------------
(* The chain *)

CanFund(tx) ==
    /\ IsOpen(streams[tx.id])
    /\ tx.amount > 0
    /\ allowance >= tx.amount
    /\ tokens["employer"] >= tx.amount

CanExecute(tx) ==
    CASE tx.op \in {"create", "approve"} -> TRUE
      [] tx.op = "fund"     -> CanFund(tx)
      [] tx.op = "reveal"   -> tx.sealed = streams[tx.id].commitment
      [] tx.op = "withdraw" -> CanWithdraw(streams[tx.id], tx.auth, clock)
      [] tx.op = "cancel"   -> CanCancel(streams[tx.id], tx.auth, clock)

Pays(id, auth) ==
    LET s == AfterCancel(streams[id], auth) IN s.withdrawn - streams[id].withdrawn

Execute(tx) ==
    CASE tx.op = "create" ->
           /\ created' = Append(created, [by |-> tx.by, sealed |-> tx.sealed])
           /\ streams' = [streams EXCEPT ![Len(created')] = Opened(tx.commitment)]
           /\ UNCHANGED <<revealed, tokens, allowance, refunded>>
      [] tx.op = "approve" ->
           /\ allowance' = tx.amount
           /\ UNCHANGED <<streams, created, revealed, tokens, refunded>>
      [] tx.op = "fund" ->
           /\ streams' = [streams EXCEPT ![tx.id] = AfterFund(@, tx.amount)]
           /\ tokens' = [tokens EXCEPT !["employer"] = @ - tx.amount]
           /\ allowance' = allowance - tx.amount
           /\ UNCHANGED <<created, revealed, refunded>>
      [] tx.op = "withdraw" ->
           /\ streams' = [streams EXCEPT ![tx.id] = AfterWithdraw(@, tx.auth)]
           /\ tokens' = [tokens EXCEPT ![RecipientOf(tx.by)] = @ + Pays(tx.id, tx.auth)]
           /\ UNCHANGED <<created, revealed, allowance, refunded>>
      [] tx.op = "cancel" ->
           LET s == AfterCancel(streams[tx.id], tx.auth)
           IN  /\ streams' = [streams EXCEPT ![tx.id] = s]
               /\ refunded' = [refunded EXCEPT ![tx.id] = s.funded - s.withdrawn]
               /\ tokens' = [tokens EXCEPT
                               !["employer"] = @ + s.funded - s.withdrawn,
                               ![RecipientOf(tx.by)] = @ + Pays(tx.id, tx.auth)]
               /\ UNCHANGED <<created, revealed, allowance>>
      [] tx.op = "reveal" ->
           /\ revealed' = revealed \cup {tx.id}
           /\ UNCHANGED <<streams, created, tokens, allowance, refunded>>

\* The next transaction of the account, whoever still waits for it.
Mine ==
    LET tx == Head(pool)
        awaited == /\ job[tx.by].state = "running"
                   /\ job[tx.by].sent
                   /\ job[tx.by].attempt = tx.attempt
    IN  /\ pool # <<>>
        /\ tx.op = "create" => Len(created) < MaxStreams
        /\ pool' = Tail(pool)
        /\ IF CanExecute(tx) THEN Execute(tx) ELSE UNCHANGED ledger
        /\ job' = IF awaited
                  THEN [job EXCEPT ![tx.by].receipt =
                          [success |-> CanExecute(tx), id |-> Len(created')]]
                  ELSE job
        /\ UNCHANGED <<form, repaired, port, clock, faults>>

\* Alice, whose key is public, withdraws from her streams at any time.
AliceWithdraws(id, signedAt) ==
    LET auth == authorizedAt(created[id].sealed.terms, signedAt)
    IN  /\ RecipientOf(created[id].by) = "alice"
        /\ CanWithdraw(streams[id], auth, clock)
        /\ streams' = [streams EXCEPT ![id] = AfterWithdraw(@, auth)]
        /\ tokens' = [tokens EXCEPT !["alice"] = @ + Pays(id, auth)]
        /\ UNCHANGED <<job, form, repaired, pool, created, revealed, allowance, refunded,
                       port, clock, faults>>

\* npm run serve, in another terminal.
Serve ==
    /\ DOMAIN job \cap {"e2e", "settle"} # {}
    /\ port \in {"nobody", "serve"}
    /\ port' = IF port = "nobody" THEN "serve" ELSE "nobody"
    /\ UNCHANGED <<job, form, repaired, pool, ledger, clock, faults>>

Tick ==
    /\ clock < MaxTime
    /\ clock' = clock + 1
    /\ UNCHANGED <<job, form, repaired, pool, ledger, port, faults>>

------------------------------------------------------------------------------
Step(p) ==
    \/ Start(p) \/ Throw(p) \/ Seal(p) \/ Send(p) \/ Receipt(p) \/ Read(p)
    \/ Sleep(p) \/ Listen(p) \/ Ask(p) \/ Close(p)

Next ==
    \/ \E p \in DOMAIN job : Step(p)
    \/ "page" \in DOMAIN job /\ (Submit \/ Edit \/ NotInAbi)
    \/ Mine
    \/ \E id \in 1..Len(created), t \in BACKDATE..clock : AliceWithdraws(id, t)
    \/ Serve
    \/ Tick

Spec == Init /\ [][Next]_vars

------------------------------------------------------------------------------
Held(id) ==
    IF streams[id] = Absent \/ streams[id].cancelled THEN 0
    ELSE streams[id].funded - streams[id].withdrawn

\* Programs are in a step they have, streams stay within their deposits, and every
\* token is with somebody: with an account or in the vault for an open stream.
ClientsTypeOK ==
    /\ \A p \in DOMAIN job :
         /\ job[p].state \in {"off", "running", "done", "failed"}
         /\ job[p].at \in 1..Len(Program(p))
         /\ job[p].receipt # None => job[p].sent
    /\ Len(created) <= MaxStreams
    /\ \A id \in 1..Len(created) : streams[id].withdrawn \in 0..streams[id].funded
    /\ port \in {"nobody", "serve", "e2e"}
    /\ SumFunction(tokens) + SumFunction([id \in StreamIds |-> Held(id)]) = Endowment

\* However the programs interleave, and with transactions mined after their sender
\* gave up, the stream a program goes on with is the one it created, and a stream
\* gets the deposit of its creator, once, or none.
OwnStream ==
    /\ \A p \in DOMAIN job :
         job[p].id # None => /\ created[job[p].id].by = p
                             /\ streams[job[p].id].commitment = job[p].draft
    /\ \A id \in 1..Len(created) :
         streams[id].funded \in
             {0} \cup (IF created[id].by = "page" THEN {f.fund : f \in Forms} ELSE {FUND})

\* The enclave can serve every stream that exists: what was sealed is what was
\* committed to, although the form may change while a submission is under way.
SealedMatchesCommitment ==
    \A id \in 1..Len(created) : created[id].sealed = streams[id].commitment

\* "AUTH_SETTLE VERIFIED": the stream is settled at the figure the enclave signed,
\* whatever Alice withdrew and the other programs did to the balances meanwhile.
SettleVerdict ==
    "settle" \in DOMAIN job /\ job["settle"].state = "done"
        => LET s == streams[job["settle"].id]
           IN  /\ s.cancelled
               /\ s.withdrawn = job["settle"].auth.accrued
               /\ refunded[job["settle"].id] + s.withdrawn = job["settle"].fund

\* "END-TO-END PASSED": the recipient has what was signed, from this stream, and
\* the terms are public.
E2eVerdict ==
    "e2e" \in DOMAIN job /\ job["e2e"].state = "done"
        => /\ tokens["fresh"] = job["e2e"].auth.accrued
           /\ streams[job["e2e"].id].withdrawn = job["e2e"].auth.accrued
           /\ job["e2e"].id \in revealed

\* The vault as its clients meet it is the escrow of IdealStreams too.
Ideal == INSTANCE IdealStreams WITH
    phase <- [id \in StreamIds |->
                IF streams[id] = Absent THEN "absent"
                ELSE IF streams[id].cancelled THEN "closed" ELSE "open"],
    pot <- [id \in StreamIds |-> Held(id)],
    toRecipient <- [id \in StreamIds |->
                      IF streams[id] = Absent THEN 0 ELSE streams[id].withdrawn],
    toEmployer <- refunded

LedgerImplementsIdealStreams == Ideal!Spec
==============================================================================
