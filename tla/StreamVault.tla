----------------------------- MODULE StreamVault -----------------------------
(***************************************************************************)
(* contracts/StreamVault.sol: the on-chain escrow.  It keeps the streams,  *)
(* takes deposits, and pays out what an authorization signed by the TEE    *)
(* signer says has accrued.  The vault never sees a rate.                  *)
(*                                                                         *)
(* A call that moves tokens leaves the contract in the middle: it updates  *)
(* storage, calls the token, and the token may call back any account,      *)
(* which may call the vault again before the transfer is done.  So fund,   *)
(* withdraw and cancelStream are two-phase here.  The action of that name  *)
(* does the checks and the storage writes and leaves the transfers it owes *)
(* in due; TransferIn, TransferOut and TransferBack are the token's steps; *)
(* Return ends the call and Revert undoes all of it when a token call      *)
(* fails.  Every call made between them is a callback.  chainTime moves    *)
(* only between transactions.                                              *)
(*                                                                         *)
(* A signature is the record of who signed which digest: ecrecover yields  *)
(* the signer for the digest that was signed and a useless address for any *)
(* other.  Stream.startTime and the ciphertext are never read by the       *)
(* contract and are left out of its state.                                 *)
(***************************************************************************)
EXTENDS World

CONSTANTS
    Owner,         \* the account that deployed the vault
    Vault,         \* the vault's own address
    Tokens,        \* ERC20 contracts
    Amounts,       \* deposits a caller may ask for
    Figures,       \* cumulative accruals (uint256) a digest may hold
    Deadlines,     \* deadlines a digest may hold
    MaxUint128,    \* largest uint128
    MaxTime,       \* bound: last block timestamp
    Endowment      \* what every account owns of every token at the start

ASSUME VaultAssumption ==
    /\ Owner \in Accounts
    /\ Vault \notin Accounts
    /\ ZeroAddress \notin Tokens
    /\ Amounts \subseteq Nat
    /\ Figures \subseteq Nat
    /\ Deadlines \subseteq Nat
    /\ MaxUint128 \in Nat \ {0}
    /\ MaxTime \in Nat
    /\ Endowment \in Nat

VARIABLES
    streams,       \* mapping(uint256 => Stream), over the ids that may be used
    nextStreamId,
    teeSigner,
    entered,       \* the lock _entered: 1 free, 2 inside a guarded call
    revealed,      \* log of TermsRevealed: pairs <<stream id, terms>>
    chainTime,     \* block.timestamp
    balance,       \* the tokens' own ledgers: [Tokens -> [holder -> amount]]
    due,           \* per stream, the transfers the running call still owes
    saved,         \* the state the running call reverts to
    deposited,     \* history: tokens that arrived for a stream,
    paid,          \*   tokens that left it to its recipient,
    refunded       \*   and tokens that left it to its employer

storage == <<streams, nextStreamId, teeSigner, revealed>>
moved   == <<balance, deposited, paid, refunded>>
vaultVars == <<storage, moved, entered, due, saved, chainTime>>

------------------------------------------------------------------------------
(* Data *)

Holders == Accounts \cup {Vault}
Uint128 == 0..MaxUint128

WITHDRAW_TAG == "SW_WITHDRAW_V1"
SETTLE_TAG   == "SW_SETTLE_V1"

Stream ==
    [employer   : Accounts \cup {ZeroAddress},
     recipient  : Accounts \cup {ZeroAddress},
     token      : Tokens \cup {ZeroAddress},
     commitment : Hashes \cup {ZeroHash},
     funded     : Uint128,
     withdrawn  : Uint128,
     cancelled  : BOOLEAN]

\* What a mapping holds for an id nobody has written.
NoStream ==
    [employer   |-> ZeroAddress,
     recipient  |-> ZeroAddress,
     token      |-> ZeroAddress,
     commitment |-> ZeroHash,
     funded     |-> 0,
     withdrawn  |-> 0,
     cancelled  |-> FALSE]

Exists(id) == streams[id].employer # ZeroAddress

Digest(tag, domain, id, commitment, accrued, deadline) ==
    [tag |-> tag, domain |-> domain, streamId |-> id,
     commitment |-> commitment, accrued |-> accrued, deadline |-> deadline]

Digests ==
    [tag : {WITHDRAW_TAG, SETTLE_TAG}, domain : Domains, streamId : StreamIds,
     commitment : Hashes, accrued : Figures, deadline : Deadlines]

Signatures == [signer : Signers, digest : Digests]

\* ecrecover over the EIP-191 digest.  Over any other digest than the signed
\* one it gives an address nobody holds, no different from the failure value.
recoverEthSigned(digest, sig) ==
    IF sig.digest = digest THEN sig.signer ELSE ZeroAddress

\* uint128(x): truncation to the low bits.
ToUint128(x) == x % (MaxUint128 + 1)

Lesser(x, y) == IF x < y THEN x ELSE y
Larger(x, y) == IF x > y THEN x ELSE y

NoDue == [payer |-> ZeroAddress, in |-> 0, out |-> 0, back |-> 0]
Dues  == [payer : Accounts \cup {ZeroAddress}, in : Nat, out : Nat, back : Nat]

Settled(id) == due[id].in = 0 /\ due[id].out = 0 /\ due[id].back = 0

NoSnapshot == [nothing |-> 0]
Snapshot ==
    [streams |-> streams, nextStreamId |-> nextStreamId,
     teeSigner |-> teeSigner, revealed |-> revealed, balance |-> balance,
     deposited |-> deposited, paid |-> paid, refunded |-> refunded]

------------------------------------------------------------------------------
(* Deployment *)

VaultInit ==
    /\ streams = [id \in StreamIds |-> NoStream]
    /\ nextStreamId = 1
    /\ teeSigner \in Signers \cup {ZeroAddress}   \* the constructor checks nothing
    /\ entered = 1
    /\ revealed = {}
    /\ chainTime = 0
    /\ balance = [t \in Tokens |->
                    [h \in Holders |-> IF h = Vault THEN 0 ELSE Endowment]]
    /\ due = [id \in StreamIds |-> NoDue]
    /\ saved = NoSnapshot
    /\ deposited = [id \in StreamIds |-> 0]
    /\ paid      = [id \in StreamIds |-> 0]
    /\ refunded  = [id \in StreamIds |-> 0]

------------------------------------------------------------------------------
(* Calls that move no tokens.  They take no lock: a callback may make them. *)

setTeeSigner(caller, signer) ==
    /\ caller = Owner
    /\ signer # ZeroAddress
    /\ teeSigner' = signer
    /\ UNCHANGED <<streams, nextStreamId, revealed, moved,
                   entered, due, saved, chainTime>>

\* A faulty nextStreamId++ that does not reserve the id it returns.
NextIdNotReserved == nextStreamId
IdAfterCreate == nextStreamId + 1

createStream(caller, recipient, token, commitment) ==
    /\ recipient # ZeroAddress
    /\ token # ZeroAddress
    /\ commitment # ZeroHash
    /\ nextStreamId <= MaxStreams
    /\ nextStreamId' = IdAfterCreate
    /\ streams' = [streams EXCEPT ![nextStreamId] =
                     [employer   |-> caller,
                      recipient  |-> recipient,
                      token      |-> token,
                      commitment |-> commitment,
                      funded     |-> 0,
                      withdrawn  |-> 0,
                      cancelled  |-> FALSE]]
    /\ UNCHANGED <<teeSigner, revealed, moved, entered, due, saved, chainTime>>

revealTerms(id, terms) ==
    /\ Exists(id)
    /\ Keccak[terms] = streams[id].commitment
    /\ revealed' = revealed \cup {<<id, terms>>}
    /\ UNCHANGED <<streams, nextStreamId, teeSigner, moved,
                   entered, due, saved, chainTime>>

------------------------------------------------------------------------------
(* Calls that move tokens.  Each runs under the lock. *)

\* The modifier without its check.
NoReentrancyCheck == TRUE
nonReentrant == entered = 1

Enter ==
    /\ entered' = 2
    /\ saved' = Snapshot

\* 0.8 arithmetic reverts on overflow; an unchecked addition would not.
UncheckedAdd(x, y) == TRUE
CheckedAdd(x, y) == x + y <= MaxUint128

fund(caller, id, amount) ==
    /\ nonReentrant
    /\ Exists(id)
    /\ ~streams[id].cancelled
    /\ amount > 0
    /\ CheckedAdd(streams[id].funded, amount)
    /\ streams' = [streams EXCEPT ![id].funded = @ + amount]
    /\ due' = [due EXCEPT ![id].payer = caller, ![id].in = amount]
    /\ Enter
    /\ UNCHANGED <<nextStreamId, teeSigner, revealed, moved, chainTime>>

\* The deadline is inclusive; never looking at it keeps old figures alive.
NeverExpires(deadline) == TRUE
NotExpired(deadline) == chainTime <= deadline

\* What a signature must be over to be accepted for a stream.
Authorized(tag, id, accrued, deadline, sig) ==
    /\ NotExpired(deadline)
    /\ LET digest == Digest(tag, Here, id, streams[id].commitment, accrued, deadline)
           signer == recoverEthSigned(digest, sig)
       IN  signer # ZeroAddress /\ signer = teeSigner

\* The payout if the vault paid the signed total instead of the difference.
PayoutOfWholeCap(s, cap) == cap
Payout(s, cap) == cap - s.withdrawn

withdraw(id, accrued, deadline, sig) ==
    LET s   == streams[id]
        cap == Lesser(accrued, s.funded)
    IN  /\ nonReentrant
        /\ Exists(id)
        /\ ~s.cancelled
        /\ Authorized(WITHDRAW_TAG, id, accrued, deadline, sig)
        /\ cap > s.withdrawn
        /\ streams' = [streams EXCEPT ![id].withdrawn = ToUint128(cap)]
        /\ due' = [due EXCEPT ![id].out = Payout(s, cap)]
        /\ Enter
        /\ UNCHANGED <<nextStreamId, teeSigner, revealed, moved, chainTime>>

\* The refund if it were computed from the settlement figure alone, forgetting
\* that more may have been withdrawn already.
RefundOfOwed(s, owed) == s.funded - owed
ToRecipient(s, owed) == IF owed > s.withdrawn THEN owed - s.withdrawn ELSE 0
Refund(s, owed) == s.funded - s.withdrawn - ToRecipient(s, owed)

\* A settlement that leaves the stream open.
NotClosed(s) == s.cancelled
Closed(s) == TRUE

cancelStream(caller, id, accrued, deadline, sig) ==
    LET s    == streams[id]
        owed == Lesser(accrued, s.funded)
    IN  /\ nonReentrant
        /\ caller = s.employer
        /\ ~s.cancelled
        /\ Authorized(SETTLE_TAG, id, accrued, deadline, sig)
        /\ streams' = [streams EXCEPT
                         ![id].cancelled = Closed(s),
                         ![id].withdrawn = ToUint128(Larger(owed, s.withdrawn))]
        /\ due' = [due EXCEPT ![id].out  = ToRecipient(s, owed),
                              ![id].back = Refund(s, owed)]
        /\ Enter
        /\ UNCHANGED <<nextStreamId, teeSigner, revealed, moved, chainTime>>

------------------------------------------------------------------------------
(* The token contracts (external), and the end of a call *)

Move(token, from, to, amount) ==
    /\ balance[token][from] >= amount
    /\ LET debited == [balance[token] EXCEPT ![from] = @ - amount]
       IN  balance' = [balance EXCEPT ![token] = [debited EXCEPT ![to] = @ + amount]]

TransferIn(id) ==
    /\ due[id].in > 0
    /\ Move(streams[id].token, due[id].payer, Vault, due[id].in)
    /\ deposited' = [deposited EXCEPT ![id] = @ + due[id].in]
    /\ due' = [due EXCEPT ![id].payer = ZeroAddress, ![id].in = 0]
    /\ UNCHANGED <<storage, paid, refunded, entered, saved, chainTime>>

TransferOut(id) ==
    /\ due[id].out > 0
    /\ Move(streams[id].token, Vault, streams[id].recipient, due[id].out)
    /\ paid' = [paid EXCEPT ![id] = @ + due[id].out]
    /\ due' = [due EXCEPT ![id].out = 0]
    /\ UNCHANGED <<storage, deposited, refunded, entered, saved, chainTime>>

TransferBack(id) ==
    /\ due[id].out = 0          \* cancelStream pays the recipient first
    /\ due[id].back > 0
    /\ Move(streams[id].token, Vault, streams[id].employer, due[id].back)
    /\ refunded' = [refunded EXCEPT ![id] = @ + due[id].back]
    /\ due' = [due EXCEPT ![id].back = 0]
    /\ UNCHANGED <<storage, deposited, paid, entered, saved, chainTime>>

Return ==
    /\ entered = 2
    /\ \A id \in StreamIds : Settled(id)
    /\ entered' = 1
    /\ saved' = NoSnapshot
    /\ UNCHANGED <<storage, moved, due, chainTime>>

\* The require around a token call: its failure undoes the writes made before
\* it.  With the result of the call ignored they would stay.
WritesKept == streams
WritesUndone == saved.streams

\* A token call returns false or reverts: the EVM undoes the transaction, with
\* everything its callbacks did.
Revert ==
    /\ entered = 2
    /\ \E id \in StreamIds : ~Settled(id)
    /\ streams' = WritesUndone
    /\ nextStreamId' = saved.nextStreamId
    /\ teeSigner' = saved.teeSigner
    /\ revealed' = saved.revealed
    /\ balance' = saved.balance
    /\ deposited' = saved.deposited
    /\ paid' = saved.paid
    /\ refunded' = saved.refunded
    /\ due' = [id \in StreamIds |-> NoDue]
    /\ entered' = 1
    /\ saved' = NoSnapshot
    /\ UNCHANGED chainTime

Tick ==
    /\ entered = 1
    /\ chainTime < MaxTime
    /\ chainTime' = chainTime + 1
    /\ UNCHANGED <<storage, moved, entered, due, saved>>

------------------------------------------------------------------------------

VaultStep ==
    \/ \E c \in Accounts, s \in Signers \cup {ZeroAddress} : setTeeSigner(c, s)
    \/ \E c \in Accounts, r \in Accounts \cup {ZeroAddress},
          t \in Tokens \cup {ZeroAddress}, h \in Hashes \cup {ZeroHash} :
            createStream(c, r, t, h)
    \/ \E id \in StreamIds, terms \in Terms : revealTerms(id, terms)
    \/ \E c \in Accounts, id \in StreamIds, n \in Amounts : fund(c, id, n)
    \/ \E id \in StreamIds : TransferIn(id) \/ TransferOut(id) \/ TransferBack(id)
    \/ Return
    \/ Revert
    \/ Tick

\* The vault among arbitrary callers, holding arbitrary signatures of any key.
VaultNext ==
    \/ VaultStep
    \/ \E id \in StreamIds, sig \in Signatures :
         withdraw(id, sig.digest.accrued, sig.digest.deadline, sig)
    \/ \E c \in Accounts, id \in StreamIds, sig \in Signatures :
         cancelStream(c, id, sig.digest.accrued, sig.digest.deadline, sig)

VaultSpec == VaultInit /\ [][VaultNext]_vaultVars

------------------------------------------------------------------------------
(* Properties *)

\* State is well typed; in particular funded and withdrawn stay in uint128
\* through fund's addition and the casts in withdraw and cancelStream.
VaultTypeOK ==
    /\ streams \in [StreamIds -> Stream]
    /\ nextStreamId \in 1..(MaxStreams + 1)
    /\ teeSigner \in Signers \cup {ZeroAddress}
    /\ entered \in {1, 2}
    /\ revealed \subseteq StreamIds \X Terms
    /\ chainTime \in 0..MaxTime
    /\ balance \in [Tokens -> [Holders -> Nat]]
    /\ due \in [StreamIds -> Dues]
    /\ deposited \in [StreamIds -> Nat]
    /\ paid \in [StreamIds -> Nat]
    /\ refunded \in [StreamIds -> Nat]

\* No stream is ever paid out of another stream's deposits: at every moment,
\* in the middle of a token call too, what left a stream had arrived for it.
\* fund books the deposit before transferFrom has delivered it, so this rests
\* on the lock.
Segregated ==
    \A id \in StreamIds : paid[id] + refunded[id] <= deposited[id]

\* Between transactions the contract's books are what the tokens did: funded
\* is what arrived, withdrawn is what the recipient got, an open stream has
\* returned nothing and a cancelled one has returned all the rest.
BooksBalance ==
    entered = 1 =>
        \A id \in StreamIds :
            /\ streams[id].funded = deposited[id]
            /\ streams[id].withdrawn = paid[id]
            /\ refunded[id] = IF streams[id].cancelled
                              THEN streams[id].funded - streams[id].withdrawn
                              ELSE 0

\* Between transactions the vault owns, of every token, at least what all the
\* open streams in that token together still hold: every payout and refund
\* the books promise can be made, in any order.
Solvent ==
    entered = 1 =>
        \A t \in Tokens :
            LET open == {id \in StreamIds : streams[id].token = t /\ ~streams[id].cancelled}
                held == [id \in open |-> streams[id].funded - streams[id].withdrawn]
            IN  balance[t][Vault] >= SumFunction(held)

\* The streams as they are outside any unfinished transaction.
committedStreams == IF entered = 1 THEN streams ELSE saved.streams

\* What no transaction, with whatever its callbacks do, may change about a
\* stream that exists: its parties, token and commitment are for ever, funded
\* and withdrawn only grow, and once cancelled nothing changes at all.
StreamHistory ==
    [][\A id \in StreamIds :
         LET s == committedStreams[id]
             n == committedStreams'[id]
         IN  s.employer # ZeroAddress =>
               /\ n = [s EXCEPT !.funded = n.funded, !.withdrawn = n.withdrawn,
                                !.cancelled = n.cancelled]
               /\ n.funded >= s.funded
               /\ n.withdrawn >= s.withdrawn
               /\ s.cancelled => n = s
      ]_vaultVars

\* The vault implements IdealStreams: seen between transactions, the tokens
\* that moved for a stream are a pot that fills, pays and is split once.
PhaseOf(s) ==
    IF s.employer = ZeroAddress THEN "absent"
    ELSE IF s.cancelled THEN "closed" ELSE "open"

committedPaid == IF entered = 1 THEN paid ELSE saved.paid
committedRefunded == IF entered = 1 THEN refunded ELSE saved.refunded
committedDeposited == IF entered = 1 THEN deposited ELSE saved.deposited

Ideal == INSTANCE IdealStreams WITH
    phase <- [id \in StreamIds |-> PhaseOf(committedStreams[id])],
    pot <- [id \in StreamIds |->
              committedDeposited[id] - committedPaid[id] - committedRefunded[id]],
    toRecipient <- committedPaid,
    toEmployer <- committedRefunded

ImplementsIdealStreams == Ideal!Spec
==============================================================================
