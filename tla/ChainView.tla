------------------------------ MODULE ChainView ------------------------------
(***************************************************************************)
(* The chain under a web page that is about one stream: what lib/chain.ts  *)
(* reads, and what everybody else does to the stream while the page is     *)
(* open.  clock is at once the block number, the block timestamp and what  *)
(* Date.now says.                                                          *)
(***************************************************************************)
EXTENDS VaultLedger, FiniteSets

CONSTANTS
    None,             \* null
    StreamTerms,      \* the terms the stream's commitment hides
    Amounts,          \* deposits
    MaxFunded,        \* bound: what is ever deposited
    MaxTime,          \* bound: last block
    DEMO_REVEAL_BLOCK,\* where the page expects the TermsRevealed log; 0: unknown
    Span,             \* blocks searched on either side of it
    MaxRange,         \* blocks one getLogs query may span
    MaxReveals,       \* bound: TermsRevealed logs
    MaxFaults         \* bound: reads, signatures, requests that fail

Commitment == "hash of the terms"

ASSUME ChainViewAssumption ==
    /\ HasAccrual(StreamTerms)
    /\ Absent \notin LedgerStreams({Commitment})
    /\ None \notin LedgerStreams({Commitment})
    /\ Amounts \subseteq Nat \ {0}
    /\ {MaxFunded, MaxTime, DEMO_REVEAL_BLOCK, Span, MaxRange, MaxReveals,
        MaxFaults} \subseteq Nat

VARIABLES
    chain,     \* the stream's record, or Absent
    clock,
    reveals,   \* blocks with a TermsRevealed log of the stream
    faults     \* failures so far

chainVars == <<chain, clock, reveals, faults>>

ChainInit ==
    /\ chain = Absent
    /\ clock = 0
    /\ reveals = {}
    /\ faults = 0

\* Anything that may fail any time: a read, the explorer, a wallet prompt, HTTP.
Fault ==
    /\ faults < MaxFaults
    /\ faults' = faults + 1
    /\ UNCHANGED <<chain, clock, reveals>>

------------------------------------------------------------------------------
Create ==
    /\ chain = Absent
    /\ chain' = Opened(Commitment)
    /\ UNCHANGED <<clock, reveals, faults>>

Deposit(amount) ==
    /\ IsOpen(chain)
    /\ chain.funded + amount <= MaxFunded
    /\ chain' = AfterFund(chain, amount)
    /\ UNCHANGED <<clock, reveals, faults>>

\* An authorization of the last AUTH_TTL_SECONDS is redeemed: from another tab,
\* by the other party, or in a transaction the page has given up on.
Withdrawal(signedAt) ==
    LET auth == authorizedAt(StreamTerms, signedAt)
    IN  /\ CanWithdraw(chain, auth, clock)
        /\ chain' = AfterWithdraw(chain, auth)
        /\ UNCHANGED <<clock, reveals, faults>>

Cancellation(signedAt) ==
    LET auth == authorizedAt(StreamTerms, signedAt)
    IN  /\ CanCancel(chain, auth, clock)
        /\ chain' = AfterCancel(chain, auth)
        /\ UNCHANGED <<clock, reveals, faults>>

Reveal ==
    /\ chain # Absent
    /\ Cardinality(reveals) < MaxReveals
    /\ reveals' = reveals \cup {clock}
    /\ UNCHANGED <<chain, clock, faults>>

NextBlock ==
    /\ clock < MaxTime
    /\ clock' = clock + 1
    /\ UNCHANGED <<chain, reveals, faults>>

Transaction ==
    \/ Create
    \/ \E n \in Amounts : Deposit(n)
    \/ \E t \in 0..clock : Withdrawal(t) \/ Cancellation(t)

------------------------------------------------------------------------------
(* readRevealedTerms: a narrow window of blocks around the pinned one. *)

\* Slips: always looking near the head, and a window past the head.
anchorAtHead(head) == head
anchor(head) ==
    IF DEMO_REVEAL_BLOCK > 0 /\ DEMO_REVEAL_BLOCK <= head THEN DEMO_REVEAL_BLOCK ELSE head

fromBlock(head) == IF anchor(head) > Span THEN anchor(head) - Span ELSE 0

toBlockUnclamped(head) == anchor(head) + Span
toBlock(head) == IF anchor(head) + Span > head THEN head ELSE anchor(head) + Span

\* The RPC node refuses a range that is too wide or ends beyond its head.
Served(head) ==
    /\ toBlock(head) - fromBlock(head) + 1 <= MaxRange
    /\ toBlock(head) <= clock

Found(head) == reveals \cap (fromBlock(head)..toBlock(head)) # {}
==============================================================================
