-------------------------- MODULE StreamVaultProofs --------------------------
(***************************************************************************)
(* Proofs about StreamVault for every set of accounts, tokens and signers, *)
(* every uint128 bound and every number of streams.                        *)
(*                                                                         *)
(* The invariants of StreamVault are not inductive: they say nothing about *)
(* the transfers a running call still owes, nor about the state it would   *)
(* revert to.  IInv adds both.                                             *)
(***************************************************************************)
EXTENDS StreamVault, AmountLemmas

\* One stream's book: storage s, tokens moved d/p/r, and transfers owed.
Book(s, d, p, r, in, out, back) ==
    /\ s.funded = d + in
    /\ s.withdrawn = p + out
    /\ s.withdrawn <= s.funded
    /\ p + r <= d
    /\ s.cancelled => r + back = s.funded - s.withdrawn
    /\ ~s.cancelled => r = 0 /\ back = 0
    /\ in > 0 => out = 0 /\ back = 0

\* A slot of the mapping is untouched, or holds a stream with real parties.
WellFormed(s) ==
    \/ s = NoStream
    \/ /\ s.employer \in Accounts
       /\ s.recipient \in Accounts
       /\ s.token \in Tokens
       /\ s.commitment \in Hashes

\* What is always true of a stream: its book balances once the transfers owed
\* are counted, only a real stream owes transfers, and ids not given out yet
\* are untouched.
Kept(id) ==
    /\ WellFormed(streams[id])
    /\ Book(streams[id], deposited[id], paid[id], refunded[id],
            due[id].in, due[id].out, due[id].back)
    /\ due[id].in > 0 => due[id].payer \in Accounts
    /\ ~Settled(id) => streams[id] # NoStream
    /\ id >= nextStreamId => streams[id] = NoStream

BooksInv == \A id \in StreamIds : Kept(id)

\* Outside the lock nothing is owed.
LockInv == entered = 1 => \A id \in StreamIds : Settled(id)

\* What Revert would restore satisfies the same.
SavedTypeOK ==
    /\ saved.streams \in [StreamIds -> Stream]
    /\ saved.nextStreamId \in 1..(MaxStreams + 1)
    /\ saved.teeSigner \in Signers \cup {ZeroAddress}
    /\ saved.revealed \subseteq StreamIds \X Terms
    /\ saved.balance \in [Tokens -> [Holders -> Nat]]
    /\ saved.deposited \in [StreamIds -> Nat]
    /\ saved.paid \in [StreamIds -> Nat]
    /\ saved.refunded \in [StreamIds -> Nat]

SavedBooks ==
    \A id \in StreamIds :
        /\ WellFormed(saved.streams[id])
        /\ Book(saved.streams[id], saved.deposited[id], saved.paid[id],
                saved.refunded[id], 0, 0, 0)
        /\ id >= saved.nextStreamId => saved.streams[id] = NoStream

SavedInv == entered = 2 => SavedTypeOK /\ SavedBooks

IInv == VaultTypeOK /\ LockInv /\ BooksInv /\ SavedInv

------------------------------------------------------------------------------

\* Truncation to uint128 keeps a value that already fits.
LEMMA CastKeeps ==
    ASSUME NEW x \in Uint128
    PROVE  ToUint128(x) = x
  BY VaultAssumption, WorldAssumption DEF ToUint128, Uint128

\* Overwriting a counter or the flag of a stream leaves a stream.
LEMMA StreamFields ==
    ASSUME NEW s \in Stream, NEW x \in Uint128, NEW b \in BOOLEAN
    PROVE  /\ [s EXCEPT !.funded = x] \in Stream
           /\ [s EXCEPT !.withdrawn = x] \in Stream
           /\ [s EXCEPT !.cancelled = b, !.withdrawn = x] \in Stream
  BY DEF Stream

\* The initial state satisfies the invariant.
LEMMA InitInv == VaultInit => IInv
  <1> SUFFICES ASSUME VaultInit PROVE IInv
    OBVIOUS
  <1> USE VaultAssumption, WorldAssumption DEF VaultInit
  <1>1. VaultTypeOK
    BY DEF VaultTypeOK, Stream, NoStream, StreamIds, Uint128, Dues, NoDue, Holders
  <1>2. LockInv /\ BooksInv
    BY DEF LockInv, BooksInv, Kept, Settled, NoDue, WellFormed, Book, NoStream
  <1>3. SavedInv
    BY DEF SavedInv
  <1> QED
    BY <1>1, <1>2, <1>3 DEF IInv

\* The snapshot a guarded call takes on entry is a state Revert may restore.
LEMMA EnterSaves ==
    ASSUME IInv, entered = 1, Enter
    PROVE  SavedInv'
  <1>1. saved' = Snapshot
    BY DEF Enter
  <1>2. SavedTypeOK'
    BY <1>1 DEF SavedTypeOK, Snapshot, IInv, VaultTypeOK
  <1>3. SavedBooks'
    <2> SUFFICES ASSUME NEW id \in StreamIds
                 PROVE  /\ WellFormed(streams[id])
                        /\ Book(streams[id], deposited[id], paid[id], refunded[id], 0, 0, 0)
                        /\ id >= nextStreamId => streams[id] = NoStream
      BY <1>1 DEF SavedBooks, Snapshot
    <2> QED
      BY DEF IInv, LockInv, BooksInv, Kept, Settled
  <1> QED
    BY <1>2, <1>3 DEF SavedInv

\* A step that touches one stream only has to re-establish that stream's part.
LEMMA OtherStreams ==
    ASSUME BooksInv, NEW id \in StreamIds, Kept(id)',
           nextStreamId' >= nextStreamId, nextStreamId \in Nat, nextStreamId' \in Nat,
           \A i \in StreamIds \ {id} :
               /\ streams'[i] = streams[i]
               /\ due'[i] = due[i]
               /\ deposited'[i] = deposited[i]
               /\ paid'[i] = paid[i]
               /\ refunded'[i] = refunded[i]
    PROVE  BooksInv'
  <1> SUFFICES ASSUME NEW i \in StreamIds, i # id PROVE Kept(i)'
    BY DEF BooksInv
  <1>1. Kept(i)
    BY DEF BooksInv
  <1>2. i \in Nat
    BY DEF StreamIds
  <1> QED
    BY <1>1, <1>2 DEF Kept, Settled

------------------------------------------------------------------------------
(* One lemma per action. *)

\* Rotating the signer touches no stream.
LEMMA SetTeeSignerInv ==
    ASSUME IInv, NEW c \in Accounts, NEW g \in Signers \cup {ZeroAddress},
           setTeeSigner(c, g)
    PROVE  IInv'
  BY DEF IInv, VaultTypeOK, LockInv, BooksInv, Kept, SavedInv, SavedTypeOK, SavedBooks,
         Settled, setTeeSigner, moved

\* A new stream starts with an empty book, also when a callback creates it.
LEMMA CreateStreamInv ==
    ASSUME IInv, NEW c \in Accounts, NEW r \in Accounts \cup {ZeroAddress},
           NEW t \in Tokens \cup {ZeroAddress}, NEW h \in Hashes \cup {ZeroHash},
           createStream(c, r, t, h)
    PROVE  IInv'
  <1> DEFINE new == [employer |-> c, recipient |-> r, token |-> t, commitment |-> h,
                     funded |-> 0, withdrawn |-> 0, cancelled |-> FALSE]
  <1>1. /\ nextStreamId \in StreamIds
        /\ nextStreamId' = nextStreamId + 1
        /\ streams' = [streams EXCEPT ![nextStreamId] = new]
        /\ r \in Accounts /\ t \in Tokens /\ h \in Hashes
        /\ UNCHANGED <<teeSigner, revealed, balance, deposited, paid, refunded,
                       entered, due, saved, chainTime>>
    BY VaultAssumption, WorldAssumption
    DEF createStream, IInv, VaultTypeOK, StreamIds, moved, IdAfterCreate
  <1>2. new \in Stream
    BY <1>1, VaultAssumption, WorldAssumption DEF Stream, Uint128
  <1>3. VaultTypeOK'
    <2>1. streams' \in [StreamIds -> Stream]
      <3> HIDE DEF new
      <3> QED
        BY <1>1, <1>2 DEF IInv, VaultTypeOK
    <2>2. nextStreamId' \in 1..(MaxStreams + 1)
      BY <1>1, VaultAssumption, WorldAssumption DEF StreamIds
    <2> QED
      BY <1>1, <2>1, <2>2 DEF IInv, VaultTypeOK
  <1>4. LockInv' /\ SavedInv'
    BY <1>1 DEF IInv, LockInv, SavedInv, SavedTypeOK, SavedBooks, Settled
  <1>5. BooksInv'
    <2> SUFFICES ASSUME NEW id \in StreamIds
                 PROVE  Kept(id)'
      BY DEF BooksInv
    <2>1. CASE id = nextStreamId
      <3>1. streams[id] = NoStream /\ Settled(id)
        BY <2>1, <1>1 DEF IInv, VaultTypeOK, BooksInv, Kept, StreamIds
      <3>2. streams'[id] = new
        BY <2>1, <1>1 DEF IInv, VaultTypeOK
      <3>3. new # NoStream
        BY VaultAssumption, WorldAssumption DEF NoStream
      <3> QED
        BY <2>1, <3>1, <3>2, <3>3, <1>1
        DEF IInv, VaultTypeOK, BooksInv, Kept, Book, WellFormed, Settled, NoStream, StreamIds, Dues
    <2>2. CASE id # nextStreamId
      BY <2>2, <1>1 DEF IInv, VaultTypeOK, BooksInv, Kept, Settled, StreamIds
    <2> QED
      BY <2>1, <2>2
  <1> QED
    BY <1>3, <1>4, <1>5 DEF IInv

\* Revealing terms only adds to the log.
LEMMA RevealTermsInv ==
    ASSUME IInv, NEW id \in StreamIds, NEW terms \in Terms, revealTerms(id, terms)
    PROVE  IInv'
  <1>1. /\ revealed' \subseteq StreamIds \X Terms
        /\ UNCHANGED <<streams, nextStreamId, teeSigner, balance, deposited, paid,
                       refunded, entered, due, saved, chainTime>>
    BY DEF revealTerms, moved, IInv, VaultTypeOK
  <1> QED
    BY <1>1 DEF IInv, VaultTypeOK, LockInv, BooksInv, Kept, SavedInv, SavedTypeOK, SavedBooks, Settled

\* fund owes the deposit it has already booked.
LEMMA FundInv ==
    ASSUME IInv, NEW c \in Accounts, NEW id \in StreamIds, NEW n \in Amounts,
           fund(c, id, n)
    PROVE  IInv'
  <1>1. /\ entered = 1 /\ entered' = 2
        /\ n \in Nat /\ n > 0
        /\ streams[id].funded + n <= MaxUint128
        /\ Exists(id) /\ ~streams[id].cancelled
        /\ streams' = [streams EXCEPT ![id].funded = @ + n]
        /\ due' = [due EXCEPT ![id].payer = c, ![id].in = n]
        /\ UNCHANGED <<nextStreamId, teeSigner, revealed, balance, deposited, paid,
                       refunded, chainTime>>
    BY VaultAssumption, WorldAssumption DEF fund, nonReentrant, CheckedAdd, Enter, moved
  <1>2. VaultTypeOK'
    <2>1. streams' \in [StreamIds -> Stream]
      <3>1. [streams[id] EXCEPT !.funded = @ + n] \in Stream
        <4>1. streams[id] \in Stream
          BY DEF IInv, VaultTypeOK
        <4>2. streams[id].funded + n \in Uint128
          BY <4>1, <1>1, VaultAssumption, WorldAssumption DEF Stream, Uint128
        <4> QED
          BY <4>1, <4>2, StreamFields
      <3> QED
        BY <1>1, <3>1 DEF IInv, VaultTypeOK
    <2>2. due' \in [StreamIds -> Dues]
      <3>1. [due[id] EXCEPT !.payer = c, !.in = n] \in Dues
        BY <1>1 DEF IInv, VaultTypeOK, Dues
      <3> QED
        BY <1>1, <3>1 DEF IInv, VaultTypeOK
    <2> QED
      BY <1>1, <2>1, <2>2 DEF IInv, VaultTypeOK
  <1>3. LockInv'
    BY <1>1 DEF LockInv
  <1>4. SavedInv'
    BY <1>1, EnterSaves DEF fund
  <1>5. BooksInv'
    BY <1>1, VaultAssumption, WorldAssumption
    DEF IInv, VaultTypeOK, LockInv, BooksInv, Kept, Book, WellFormed, Settled, Stream, Uint128,
        Dues, Exists, NoStream
  <1> QED
    BY <1>2, <1>3, <1>4, <1>5 DEF IInv

\* withdraw owes exactly the difference it has booked, and the cast to uint128
\* loses nothing.
LEMMA WithdrawInv ==
    ASSUME IInv, NEW id \in StreamIds, NEW a \in Nat, NEW d, NEW sig,
           withdraw(id, a, d, sig)
    PROVE  IInv'
  <1> DEFINE cap == Lesser(a, streams[id].funded)
  <1>1. streams[id] \in Stream /\ due[id] \in Dues
    BY DEF IInv, VaultTypeOK
  <1>2. /\ cap \in Uint128
        /\ cap \in Nat
        /\ cap <= streams[id].funded
    BY <1>1, VaultAssumption, WorldAssumption DEF Stream, Uint128, Lesser
  <1>3. /\ entered = 1 /\ entered' = 2
        /\ Exists(id) /\ ~streams[id].cancelled
        /\ cap > streams[id].withdrawn
        /\ streams' = [streams EXCEPT ![id].withdrawn = cap]
        /\ due' = [due EXCEPT ![id].out = cap - streams[id].withdrawn]
        /\ UNCHANGED <<nextStreamId, teeSigner, revealed, balance, deposited, paid,
                       refunded, chainTime>>
    BY <1>2, CastKeeps DEF withdraw, nonReentrant, Enter, moved, Payout
  <1> HIDE DEF cap
  <1>4. VaultTypeOK'
    <2>1. streams' \in [StreamIds -> Stream]
      <3>1. [streams[id] EXCEPT !.withdrawn = cap] \in Stream
        BY <1>1, <1>2, StreamFields
      <3> QED
        BY <1>3, <3>1 DEF IInv, VaultTypeOK
    <2>2. due' \in [StreamIds -> Dues]
      <3>1. cap - streams[id].withdrawn \in Nat
        BY <1>1, <1>2, <1>3 DEF Stream, Uint128
      <3>2. [due[id] EXCEPT !.out = cap - streams[id].withdrawn] \in Dues
        BY <1>1, <3>1 DEF Dues
      <3> QED
        BY <1>3, <3>2 DEF IInv, VaultTypeOK
    <2> QED
      BY <1>3, <2>1, <2>2 DEF IInv, VaultTypeOK
  <1>5. LockInv'
    BY <1>3 DEF LockInv
  <1>6. SavedInv'
    BY <1>3, EnterSaves DEF withdraw
  <1>7. BooksInv'
    <2>1. /\ streams'[id] = [streams[id] EXCEPT !.withdrawn = cap]
          /\ due'[id] = [due[id] EXCEPT !.out = cap - streams[id].withdrawn]
      BY <1>3 DEF IInv, VaultTypeOK
    <2>2. Kept(id) /\ Settled(id) /\ nextStreamId \in Nat
      BY <1>3, VaultAssumption, WorldAssumption DEF IInv, VaultTypeOK, LockInv, BooksInv
    <2>3. deposited[id] \in Nat /\ paid[id] \in Nat /\ refunded[id] \in Nat
      BY DEF IInv, VaultTypeOK
    <2>4. Book(streams[id], deposited[id], paid[id], refunded[id],
               due[id].in, due[id].out, due[id].back)'
      BY <1>1, <1>2, <1>3, <2>1, <2>2, <2>3 DEF Book, Kept, Settled, Stream, Dues, Uint128
    <2>5. WellFormed(streams[id])' /\ (streams[id] # NoStream)'
      BY <1>1, <1>3, <2>1, <2>2 DEF Kept, WellFormed, Exists, NoStream, Stream
    <2>6. due'[id].in = 0
      BY <1>1, <2>1, <2>2 DEF Dues, Settled
    <2>7. Kept(id)'
      BY <1>3, <2>2, <2>4, <2>5, <2>6 DEF Kept, Exists, NoStream
    <2> QED
      BY <1>3, <2>2, <2>7, OtherStreams DEF IInv, VaultTypeOK
  <1> QED
    BY <1>4, <1>5, <1>6, <1>7 DEF IInv

\* cancelStream splits what the stream holds: the recipient's part and the
\* refund add up to it, whichever of the figure and withdrawn is larger.
LEMMA CancelStreamInv ==
    ASSUME IInv, NEW c \in Accounts, NEW id \in StreamIds, NEW a \in Nat, NEW d,
           NEW sig, cancelStream(c, id, a, d, sig)
    PROVE  IInv'
  <1> DEFINE s    == streams[id]
             owed == Lesser(a, s.funded)
             out  == ToRecipient(s, owed)
             back == Refund(s, owed)
             last == Larger(owed, s.withdrawn)
  <1>1. s \in Stream /\ due[id] \in Dues
    BY DEF IInv, VaultTypeOK
  <1>2. Book(s, deposited[id], paid[id], refunded[id], 0, 0, 0) /\ entered = 1
    BY DEF IInv, LockInv, BooksInv, Kept, Settled, cancelStream, nonReentrant
  <1>3. /\ last \in Uint128 /\ last <= s.funded
        /\ out \in Nat /\ back \in Nat
        /\ last = s.withdrawn + out
        /\ back = s.funded - last
    BY <1>1, <1>2, VaultAssumption, WorldAssumption
    DEF Stream, Uint128, Lesser, Larger, ToRecipient, Refund, Book
  <1>4. /\ entered' = 2
        /\ s # NoStream /\ ~s.cancelled
        /\ streams' = [streams EXCEPT ![id].cancelled = TRUE, ![id].withdrawn = last]
        /\ due' = [due EXCEPT ![id].out = out, ![id].back = back]
        /\ UNCHANGED <<nextStreamId, teeSigner, revealed, balance, deposited, paid,
                       refunded, chainTime>>
    <2>1. ToUint128(last) = last
      BY <1>3, CastKeeps
    <2>2. c = s.employer /\ s # NoStream
      BY VaultAssumption, WorldAssumption DEF cancelStream, NoStream
    <2> QED
      BY <2>1, <2>2 DEF cancelStream, Enter, moved, Closed
  <1> HIDE DEF s, owed, out, back, last
  <1>5. VaultTypeOK'
    <2>1. streams' \in [StreamIds -> Stream]
      <3>1. [streams[id] EXCEPT !.cancelled = TRUE, !.withdrawn = last] \in Stream
        BY <1>1, <1>3, StreamFields DEF s
      <3> QED
        BY <1>4, <3>1 DEF IInv, VaultTypeOK
    <2>2. due' \in [StreamIds -> Dues]
      <3>1. [due[id] EXCEPT !.out = out, !.back = back] \in Dues
        BY <1>1, <1>3 DEF Dues
      <3> QED
        BY <1>4, <3>1 DEF IInv, VaultTypeOK
    <2> QED
      BY <1>4, <2>1, <2>2 DEF IInv, VaultTypeOK
  <1>6. LockInv'
    BY <1>4 DEF LockInv
  <1>7. SavedInv'
    BY <1>2, EnterSaves DEF cancelStream
  <1>8. BooksInv'
    <2>1. /\ streams'[id] = [s EXCEPT !.cancelled = TRUE, !.withdrawn = last]
          /\ due'[id] = [due[id] EXCEPT !.out = out, !.back = back]
      BY <1>4 DEF IInv, VaultTypeOK, s
    <2>2. Kept(id) /\ Settled(id) /\ nextStreamId \in Nat
      BY <1>2, VaultAssumption, WorldAssumption DEF IInv, VaultTypeOK, LockInv, BooksInv
    <2>3. deposited[id] \in Nat /\ paid[id] \in Nat /\ refunded[id] \in Nat
      BY DEF IInv, VaultTypeOK
    <2>4. Book(streams[id], deposited[id], paid[id], refunded[id],
               due[id].in, due[id].out, due[id].back)'
      <3>1. /\ streams'[id].funded = s.funded
            /\ streams'[id].withdrawn = last
            /\ streams'[id].cancelled = TRUE
            /\ due'[id].in = 0 /\ due'[id].out = out /\ due'[id].back = back
        BY <1>1, <2>1, <2>2 DEF Stream, Dues, Settled
      <3>2. /\ s.funded = deposited[id]
            /\ s.withdrawn = paid[id]
            /\ refunded[id] = 0
        BY <1>2, <1>4, <2>3 DEF Book
      <3>3. s.funded \in Nat /\ s.withdrawn \in Nat /\ last \in Nat
        BY <1>1, <1>3, VaultAssumption, WorldAssumption DEF Stream, Uint128
      <3> QED
        BY <1>2, <1>3, <1>4, <2>3, <3>1, <3>2, <3>3 DEF Book
    <2>5. WellFormed(streams[id])' /\ (streams[id] # NoStream)'
      <3>1. /\ streams'[id].employer = s.employer
            /\ streams'[id].recipient = s.recipient
            /\ streams'[id].token = s.token
            /\ streams'[id].commitment = s.commitment
        BY <1>1, <2>1 DEF Stream
      <3>2. WellFormed(s)
        BY <2>2 DEF Kept, s
      <3>3. s.employer \in Accounts
        BY <1>4, <3>2 DEF WellFormed
      <3>4. WellFormed(streams[id])'
        BY <1>4, <3>1, <3>2 DEF WellFormed
      <3>5. streams'[id].employer # NoStream.employer
        BY <3>1, <3>3, VaultAssumption, WorldAssumption DEF NoStream
      <3> QED
        BY <3>4, <3>5
    <2>6. due'[id].in = 0
      BY <1>1, <2>1, <2>2 DEF Dues, Settled
    <2>7. Kept(id)'
      BY <1>4, <2>2, <2>4, <2>5, <2>6 DEF Kept, s
    <2> QED
      BY <1>4, <2>2, <2>7, OtherStreams DEF IInv, VaultTypeOK
  <1> QED
    BY <1>5, <1>6, <1>7, <1>8 DEF IInv

\* The tokens' steps.  Each keeps every balance a natural number.
LEMMA MoveType ==
    ASSUME NEW t \in Tokens, NEW from \in Holders, NEW to \in Holders, NEW n \in Nat,
           balance \in [Tokens -> [Holders -> Nat]],
           Move(t, from, to, n)
    PROVE  balance' \in [Tokens -> [Holders -> Nat]]
  <1> DEFINE debited == [balance[t] EXCEPT ![from] = @ - n]
             after   == [debited EXCEPT ![to] = @ + n]
  <1>1. balance[t] \in [Holders -> Nat] /\ balance[t][from] >= n
    BY DEF Move
  <1>2. after \in [Holders -> Nat]
    <2>1. debited \in [Holders -> Nat]
      BY <1>1
    <2> QED
      BY <2>1
  <1>3. balance' = [balance EXCEPT ![t] = after]
    BY DEF Move
  <1> HIDE DEF debited, after
  <1> QED
    BY <1>2, <1>3

LEMMA TransferInInv ==
    ASSUME IInv, NEW id \in StreamIds, TransferIn(id)
    PROVE  IInv'
  <1>1. /\ streams[id] \in Stream /\ due[id] \in Dues /\ Kept(id)
        /\ nextStreamId \in Nat /\ StreamIds \subseteq Nat
        /\ deposited[id] \in Nat /\ paid[id] \in Nat /\ refunded[id] \in Nat
    BY VaultAssumption, WorldAssumption DEF IInv, VaultTypeOK, BooksInv, StreamIds
  <1>2. /\ due[id].in > 0
        /\ Move(streams[id].token, due[id].payer, Vault, due[id].in)
        /\ deposited' = [deposited EXCEPT ![id] = @ + due[id].in]
        /\ due' = [due EXCEPT ![id].payer = ZeroAddress, ![id].in = 0]
        /\ UNCHANGED <<streams, nextStreamId, teeSigner, revealed, paid, refunded,
                       entered, saved, chainTime>>
    BY DEF TransferIn, storage
  <1>3. /\ streams[id].token \in Tokens
        /\ due[id].payer \in Accounts
        /\ due[id].in \in Nat
        /\ entered = 2
    BY <1>1, <1>2 DEF Kept, WellFormed, Settled, Dues, IInv, VaultTypeOK, LockInv
  <1>4. VaultTypeOK'
    <2>1. balance' \in [Tokens -> [Holders -> Nat]]
      BY <1>2, <1>3, MoveType DEF IInv, VaultTypeOK, Holders
    <2>2. due' \in [StreamIds -> Dues]
      <3>1. [due[id] EXCEPT !.payer = ZeroAddress, !.in = 0] \in Dues
        BY <1>1 DEF Dues
      <3> QED
        BY <1>2, <3>1 DEF IInv, VaultTypeOK
    <2>3. deposited' \in [StreamIds -> Nat]
      BY <1>1, <1>2, <1>3 DEF IInv, VaultTypeOK
    <2> QED
      BY <1>2, <2>1, <2>2, <2>3 DEF IInv, VaultTypeOK
  <1>5. LockInv' /\ SavedInv'
    BY <1>2, <1>3 DEF LockInv, IInv, SavedInv, SavedTypeOK, SavedBooks
  <1>6. BooksInv'
    <2>1. /\ due'[id] = [due[id] EXCEPT !.payer = ZeroAddress, !.in = 0]
          /\ deposited'[id] = deposited[id] + due[id].in
          /\ streams'[id] = streams[id]
      BY <1>2 DEF IInv, VaultTypeOK
    <2>2. due'[id].in = 0 /\ due'[id].out = due[id].out /\ due'[id].back = due[id].back
      BY <1>1, <2>1 DEF Dues
    <2>3. Book(streams[id], deposited[id], paid[id], refunded[id],
               due[id].in, due[id].out, due[id].back)'
      BY <1>1, <1>2, <1>3, <2>1, <2>2 DEF Book, Kept, Dues, Stream, Uint128
    <2>4. Kept(id)'
      BY <1>1, <1>2, <2>1, <2>2, <2>3 DEF Kept, Settled
    <2> QED
      BY <1>1, <1>2, <2>4, OtherStreams DEF IInv, VaultTypeOK
  <1> QED
    BY <1>4, <1>5, <1>6 DEF IInv

LEMMA TransferOutInv ==
    ASSUME IInv, NEW id \in StreamIds, TransferOut(id)
    PROVE  IInv'
  <1>1. /\ streams[id] \in Stream /\ due[id] \in Dues /\ Kept(id)
        /\ nextStreamId \in Nat /\ StreamIds \subseteq Nat
        /\ deposited[id] \in Nat /\ paid[id] \in Nat /\ refunded[id] \in Nat
    BY VaultAssumption, WorldAssumption DEF IInv, VaultTypeOK, BooksInv, StreamIds
  <1>2. /\ due[id].out > 0
        /\ Move(streams[id].token, Vault, streams[id].recipient, due[id].out)
        /\ paid' = [paid EXCEPT ![id] = @ + due[id].out]
        /\ due' = [due EXCEPT ![id].out = 0]
        /\ UNCHANGED <<streams, nextStreamId, teeSigner, revealed, deposited, refunded,
                       entered, saved, chainTime>>
    BY DEF TransferOut, storage
  <1>3. /\ streams[id].token \in Tokens
        /\ streams[id].recipient \in Accounts
        /\ due[id].out \in Nat
        /\ entered = 2
    BY <1>1, <1>2 DEF Kept, WellFormed, Settled, Dues, IInv, VaultTypeOK, LockInv
  <1>4. VaultTypeOK'
    <2>1. balance' \in [Tokens -> [Holders -> Nat]]
      BY <1>2, <1>3, MoveType DEF IInv, VaultTypeOK, Holders
    <2>2. due' \in [StreamIds -> Dues]
      <3>1. [due[id] EXCEPT !.out = 0] \in Dues
        BY <1>1 DEF Dues
      <3> QED
        BY <1>2, <3>1 DEF IInv, VaultTypeOK
    <2>3. paid' \in [StreamIds -> Nat]
      BY <1>1, <1>2, <1>3 DEF IInv, VaultTypeOK
    <2> QED
      BY <1>2, <2>1, <2>2, <2>3 DEF IInv, VaultTypeOK
  <1>5. LockInv' /\ SavedInv'
    BY <1>2, <1>3 DEF LockInv, IInv, SavedInv, SavedTypeOK, SavedBooks
  <1>6. BooksInv'
    <2>1. /\ due'[id] = [due[id] EXCEPT !.out = 0]
          /\ paid'[id] = paid[id] + due[id].out
          /\ streams'[id] = streams[id]
      BY <1>2 DEF IInv, VaultTypeOK
    <2>2. /\ due'[id].in = due[id].in /\ due'[id].payer = due[id].payer
          /\ due'[id].out = 0 /\ due'[id].back = due[id].back
      BY <1>1, <2>1 DEF Dues
    <2>3. Book(streams[id], deposited[id], paid[id], refunded[id],
               due[id].in, due[id].out, due[id].back)'
      BY <1>1, <1>2, <1>3, <2>1, <2>2 DEF Book, Kept, Dues, Stream, Uint128
    <2>4. Kept(id)'
      BY <1>1, <1>2, <2>1, <2>2, <2>3 DEF Kept, Settled
    <2> QED
      BY <1>1, <1>2, <2>4, OtherStreams DEF IInv, VaultTypeOK
  <1> QED
    BY <1>4, <1>5, <1>6 DEF IInv

LEMMA TransferBackInv ==
    ASSUME IInv, NEW id \in StreamIds, TransferBack(id)
    PROVE  IInv'
  <1>1. /\ streams[id] \in Stream /\ due[id] \in Dues /\ Kept(id)
        /\ nextStreamId \in Nat /\ StreamIds \subseteq Nat
        /\ deposited[id] \in Nat /\ paid[id] \in Nat /\ refunded[id] \in Nat
    BY VaultAssumption, WorldAssumption DEF IInv, VaultTypeOK, BooksInv, StreamIds
  <1>2. /\ due[id].out = 0 /\ due[id].back > 0
        /\ Move(streams[id].token, Vault, streams[id].employer, due[id].back)
        /\ refunded' = [refunded EXCEPT ![id] = @ + due[id].back]
        /\ due' = [due EXCEPT ![id].back = 0]
        /\ UNCHANGED <<streams, nextStreamId, teeSigner, revealed, deposited, paid,
                       entered, saved, chainTime>>
    BY DEF TransferBack, storage
  <1>3. /\ streams[id].token \in Tokens
        /\ streams[id].employer \in Accounts
        /\ due[id].back \in Nat
        /\ entered = 2
    BY <1>1, <1>2 DEF Kept, WellFormed, Settled, Dues, IInv, VaultTypeOK, LockInv
  <1>4. VaultTypeOK'
    <2>1. balance' \in [Tokens -> [Holders -> Nat]]
      BY <1>2, <1>3, MoveType DEF IInv, VaultTypeOK, Holders
    <2>2. due' \in [StreamIds -> Dues]
      <3>1. [due[id] EXCEPT !.back = 0] \in Dues
        BY <1>1 DEF Dues
      <3> QED
        BY <1>2, <3>1 DEF IInv, VaultTypeOK
    <2>3. refunded' \in [StreamIds -> Nat]
      BY <1>1, <1>2, <1>3 DEF IInv, VaultTypeOK
    <2> QED
      BY <1>2, <2>1, <2>2, <2>3 DEF IInv, VaultTypeOK
  <1>5. LockInv' /\ SavedInv'
    BY <1>2, <1>3 DEF LockInv, IInv, SavedInv, SavedTypeOK, SavedBooks
  <1>6. BooksInv'
    <2>1. /\ due'[id] = [due[id] EXCEPT !.back = 0]
          /\ refunded'[id] = refunded[id] + due[id].back
          /\ streams'[id] = streams[id]
      BY <1>2 DEF IInv, VaultTypeOK
    <2>2. /\ due'[id].in = due[id].in /\ due'[id].payer = due[id].payer
          /\ due'[id].out = due[id].out /\ due'[id].back = 0
      BY <1>1, <2>1 DEF Dues
    <2>3. Book(streams[id], deposited[id], paid[id], refunded[id],
               due[id].in, due[id].out, due[id].back)'
      BY <1>1, <1>2, <1>3, <2>1, <2>2 DEF Book, Kept, Dues, Stream, Uint128
    <2>4. Kept(id)'
      BY <1>1, <1>2, <2>1, <2>2, <2>3 DEF Kept, Settled
    <2> QED
      BY <1>1, <1>2, <2>4, OtherStreams DEF IInv, VaultTypeOK
  <1> QED
    BY <1>4, <1>5, <1>6 DEF IInv

\* A finished call leaves nothing owed.
LEMMA ReturnInv == ASSUME IInv, Return PROVE IInv'
  BY DEF Return, IInv, VaultTypeOK, LockInv, BooksInv, Kept, Settled, SavedInv, storage, moved

\* A failed call restores a state that satisfied the invariant.
LEMMA RevertInv == ASSUME IInv, Revert PROVE IInv'
  <1>1. /\ SavedTypeOK /\ SavedBooks
        /\ entered' = 1
        /\ due' = [id \in StreamIds |-> NoDue]
        /\ streams' = saved.streams /\ nextStreamId' = saved.nextStreamId
        /\ teeSigner' = saved.teeSigner /\ revealed' = saved.revealed
        /\ balance' = saved.balance /\ deposited' = saved.deposited
        /\ paid' = saved.paid /\ refunded' = saved.refunded
        /\ chainTime' = chainTime
    BY DEF WritesUndone, Revert, IInv, SavedInv
  <1>2. VaultTypeOK'
    BY <1>1 DEF SavedTypeOK, VaultTypeOK, IInv, Dues, NoDue
  <1>3. LockInv' /\ BooksInv'
    BY <1>1 DEF SavedBooks, LockInv, BooksInv, Kept, Settled, NoDue
  <1> QED
    BY <1>1, <1>2, <1>3 DEF IInv, SavedInv

LEMMA TickInv == ASSUME IInv, Tick PROVE IInv'
  BY VaultAssumption, WorldAssumption
  DEF Tick, IInv, VaultTypeOK, LockInv, BooksInv, Kept, Settled, SavedInv, storage, moved

------------------------------------------------------------------------------

\* The invariant is inductive: every step of the vault, its callers, the tokens
\* and the clock keeps it.
LEMMA NextInv == IInv /\ [VaultNext]_vaultVars => IInv'
  <1> SUFFICES ASSUME IInv, [VaultNext]_vaultVars PROVE IInv'
    OBVIOUS
  <1>1. CASE VaultStep
    BY <1>1, SetTeeSignerInv, CreateStreamInv, RevealTermsInv, FundInv, TransferInInv,
       TransferOutInv, TransferBackInv, ReturnInv, RevertInv, TickInv DEF VaultStep
  <1>2. ASSUME NEW id \in StreamIds, NEW sig \in Signatures,
               withdraw(id, sig.digest.accrued, sig.digest.deadline, sig)
        PROVE  IInv'
    <2>1. sig.digest.accrued \in Nat
      BY VaultAssumption, WorldAssumption DEF Signatures, Digests
    <2> QED
      BY <1>2, <2>1, WithdrawInv
  <1>3. ASSUME NEW c \in Accounts, NEW id \in StreamIds, NEW sig \in Signatures,
               cancelStream(c, id, sig.digest.accrued, sig.digest.deadline, sig)
        PROVE  IInv'
    <2>1. sig.digest.accrued \in Nat
      BY VaultAssumption, WorldAssumption DEF Signatures, Digests
    <2> QED
      BY <1>3, <2>1, CancelStreamInv
  <1>4. CASE UNCHANGED vaultVars
    BY <1>4 DEF vaultVars, storage, moved, IInv, VaultTypeOK, LockInv, BooksInv, Kept,
                Settled, SavedInv, SavedTypeOK, SavedBooks
  <1> QED
    BY <1>1, <1>2, <1>3, <1>4 DEF VaultNext

THEOREM Invariance == VaultSpec => []IInv
  BY InitInv, NextInv, PTL DEF VaultSpec

\* Every state of the vault is well typed: in particular funded and withdrawn
\* never leave uint128, whatever figures are signed.
THEOREM TypeCorrect == VaultSpec => []VaultTypeOK
  <1>1. IInv => VaultTypeOK
    BY DEF IInv
  <1> QED
    BY <1>1, Invariance, PTL

\* No stream is ever paid from another stream's deposits, in the middle of a
\* token call too.
THEOREM SegregationHolds == VaultSpec => []Segregated
  <1>1. IInv => Segregated
    BY DEF IInv, BooksInv, Kept, Book, Segregated
  <1> QED
    BY <1>1, Invariance, PTL

\* Between transactions the books are what the tokens did, and a cancelled
\* stream has given back everything it did not pay.
THEOREM BooksAlwaysBalance == VaultSpec => []BooksBalance
  <1>1. IInv => BooksBalance
    <2> SUFFICES ASSUME IInv, entered = 1, NEW id \in StreamIds
                 PROVE  /\ streams[id].funded = deposited[id]
                        /\ streams[id].withdrawn = paid[id]
                        /\ refunded[id] = IF streams[id].cancelled
                                          THEN streams[id].funded - streams[id].withdrawn
                                          ELSE 0
      BY DEF BooksBalance
    <2>1. Settled(id) /\ Kept(id)
      BY DEF IInv, LockInv, BooksInv
    <2>2. deposited[id] \in Nat /\ paid[id] \in Nat /\ refunded[id] \in Nat
      BY DEF IInv, VaultTypeOK
    <2> QED
      BY <2>1, <2>2 DEF Kept, Book, Settled
  <1> QED
    BY <1>1, Invariance, PTL

------------------------------------------------------------------------------
(* A transaction as one step.  Between its first write and its return a call *)
(* is compared with the snapshot it would revert to: it has advanced one     *)
(* stream, and whatever its callbacks did, every other stream is as it was   *)
(* or has just been created.                                                 *)

\* From s to n the stream was funded, paid from or cancelled; nothing else.
Advanced(s, n) ==
    /\ s.employer # ZeroAddress
    /\ ~s.cancelled
    /\ n = [s EXCEPT !.funded = n.funded, !.withdrawn = n.withdrawn,
                     !.cancelled = n.cancelled]
    /\ \/ n.funded > s.funded /\ n.withdrawn = s.withdrawn /\ ~n.cancelled
       \/ n.funded = s.funded /\ n.withdrawn > s.withdrawn /\ ~n.cancelled
       \/ n.funded = s.funded /\ n.withdrawn >= s.withdrawn /\ n.cancelled

\* From s to n nothing happened to the slot, or a stream was created in it.
KeptOrCreated(s, n) ==
    \/ n = s
    \/ /\ s = NoStream
       /\ n.employer \in Accounts
       /\ n.funded = 0 /\ n.withdrawn = 0 /\ ~n.cancelled

OneAdvanced(old, new) ==
    \E id \in StreamIds :
        /\ Advanced(old[id], new[id])
        /\ \A i \in StreamIds \ {id} : KeptOrCreated(old[i], new[i])

TransactionInv == entered = 2 => OneAdvanced(saved.streams, streams)

\* fund, withdraw and cancelStream start a transaction by advancing one stream.
LEMMA FundAdvances ==
    ASSUME IInv, NEW c \in Accounts, NEW id \in StreamIds, NEW n \in Amounts,
           fund(c, id, n)
    PROVE  TransactionInv'
  <1>1. /\ n \in Nat /\ n > 0
        /\ Exists(id) /\ ~streams[id].cancelled
        /\ streams' = [streams EXCEPT ![id].funded = @ + n]
        /\ saved'.streams = streams
    BY VaultAssumption DEF fund, Enter, Snapshot
  <1>2. streams[id] \in Stream
    BY DEF IInv, VaultTypeOK
  <1>3. streams'[id] = [streams[id] EXCEPT !.funded = @ + n]
    BY <1>1 DEF IInv, VaultTypeOK
  <1>4. Advanced(streams[id], streams'[id])
    <2>1. streams[id].funded \in Nat
      BY <1>2 DEF Stream, Uint128
    <2>2. /\ streams'[id].funded = streams[id].funded + n
          /\ streams'[id].withdrawn = streams[id].withdrawn
          /\ streams'[id].cancelled = streams[id].cancelled
      BY <1>2, <1>3 DEF Stream
    <2>3. streams'[id] = [streams[id] EXCEPT !.funded = streams'[id].funded,
                                             !.withdrawn = streams'[id].withdrawn,
                                             !.cancelled = streams'[id].cancelled]
      BY <1>2, <1>3, <2>2 DEF Stream
    <2> QED
      BY <1>1, <2>1, <2>2, <2>3 DEF Advanced, Exists
  <1>5. \A i \in StreamIds \ {id} : streams'[i] = streams[i]
    BY <1>1 DEF IInv, VaultTypeOK
  <1> QED
    BY <1>1, <1>4, <1>5 DEF TransactionInv, OneAdvanced, KeptOrCreated

LEMMA WithdrawAdvances ==
    ASSUME IInv, NEW id \in StreamIds, NEW a \in Nat, NEW d, NEW sig,
           withdraw(id, a, d, sig)
    PROVE  TransactionInv'
  <1> DEFINE cap == Lesser(a, streams[id].funded)
  <1>1. streams[id] \in Stream
    BY DEF IInv, VaultTypeOK
  <1>2. cap \in Uint128
    BY <1>1, VaultAssumption, WorldAssumption DEF Stream, Uint128, Lesser
  <1>3. /\ Exists(id) /\ ~streams[id].cancelled
        /\ cap > streams[id].withdrawn
        /\ streams' = [streams EXCEPT ![id].withdrawn = cap]
        /\ saved'.streams = streams
    BY <1>2, CastKeeps DEF withdraw, Enter, Snapshot
  <1> HIDE DEF cap
  <1>4. streams'[id] = [streams[id] EXCEPT !.withdrawn = cap]
    BY <1>3 DEF IInv, VaultTypeOK
  <1>5. Advanced(streams[id], streams'[id])
    <2>1. /\ streams'[id].funded = streams[id].funded
          /\ streams'[id].withdrawn = cap
          /\ streams'[id].cancelled = streams[id].cancelled
      BY <1>1, <1>4 DEF Stream
    <2>2. streams'[id] = [streams[id] EXCEPT !.funded = streams'[id].funded,
                                             !.withdrawn = streams'[id].withdrawn,
                                             !.cancelled = streams'[id].cancelled]
      BY <1>1, <1>4, <2>1 DEF Stream
    <2> QED
      BY <1>3, <2>1, <2>2 DEF Advanced, Exists
  <1>6. \A i \in StreamIds \ {id} : streams'[i] = streams[i]
    BY <1>3 DEF IInv, VaultTypeOK
  <1> QED
    BY <1>3, <1>5, <1>6 DEF TransactionInv, OneAdvanced, KeptOrCreated

LEMMA CancelAdvances ==
    ASSUME IInv, NEW c \in Accounts, NEW id \in StreamIds, NEW a \in Nat, NEW d,
           NEW sig, cancelStream(c, id, a, d, sig)
    PROVE  TransactionInv'
  <1> DEFINE s    == streams[id]
             owed == Lesser(a, s.funded)
             last == Larger(owed, s.withdrawn)
  <1>1. s \in Stream
    BY DEF IInv, VaultTypeOK
  <1>2. last \in Uint128 /\ last >= s.withdrawn
    BY <1>1, VaultAssumption, WorldAssumption DEF Stream, Uint128, Lesser, Larger
  <1>3. /\ c = s.employer /\ ~s.cancelled
        /\ streams' = [streams EXCEPT ![id].cancelled = TRUE, ![id].withdrawn = last]
        /\ saved'.streams = streams
    <2>1. ToUint128(last) = last
      BY <1>2, CastKeeps
    <2> QED
      BY <2>1 DEF cancelStream, Enter, Snapshot, Closed
  <1>4. s.employer # ZeroAddress
    BY <1>3, VaultAssumption, WorldAssumption
  <1> HIDE DEF s, owed, last
  <1>5. streams'[id] = [s EXCEPT !.cancelled = TRUE, !.withdrawn = last]
    BY <1>3 DEF IInv, VaultTypeOK, s
  <1>6. Advanced(s, streams'[id])
    <2>1. /\ streams'[id].cancelled = TRUE
          /\ streams'[id].withdrawn = last
          /\ streams'[id].funded = s.funded
      BY <1>1, <1>5 DEF Stream
    <2>2. streams'[id] = [s EXCEPT !.funded = s.funded, !.withdrawn = last,
                                   !.cancelled = TRUE]
      BY <1>1, <1>5 DEF Stream
    <2> QED
      BY <1>2, <1>3, <1>4, <2>1, <2>2 DEF Advanced
  <1>7. \A i \in StreamIds \ {id} : streams'[i] = streams[i]
    BY <1>3 DEF IInv, VaultTypeOK
  <1> QED
    BY <1>3, <1>6, <1>7 DEF TransactionInv, OneAdvanced, KeptOrCreated, s

\* Creating a stream, by a callback or by a transaction of its own, writes one
\* slot nobody had written.
LEMMA CreateFresh ==
    ASSUME IInv, NEW c \in Accounts, NEW r \in Accounts \cup {ZeroAddress},
           NEW t \in Tokens \cup {ZeroAddress}, NEW h \in Hashes \cup {ZeroHash},
           createStream(c, r, t, h)
    PROVE  \A i \in StreamIds : KeptOrCreated(streams[i], streams'[i])
  <1> DEFINE new == [employer |-> c, recipient |-> r, token |-> t, commitment |-> h,
                     funded |-> 0, withdrawn |-> 0, cancelled |-> FALSE]
  <1>1. nextStreamId \in StreamIds /\ streams' = [streams EXCEPT ![nextStreamId] = new]
    BY VaultAssumption, WorldAssumption DEF createStream, IInv, VaultTypeOK, StreamIds
  <1>2. streams[nextStreamId] = NoStream
    BY <1>1 DEF IInv, BooksInv, Kept, StreamIds
  <1>3. KeptOrCreated(NoStream, new)
    BY DEF KeptOrCreated
  <1> HIDE DEF new
  <1>4. streams'[nextStreamId] = new
    BY <1>1 DEF IInv, VaultTypeOK
  <1>5. \A i \in StreamIds \ {nextStreamId} : streams'[i] = streams[i]
    BY <1>1 DEF IInv, VaultTypeOK
  <1> QED
    BY <1>2, <1>3, <1>4, <1>5 DEF KeptOrCreated

\* So it cannot disturb the stream the running transaction has advanced.
LEMMA CreateKeepsCall ==
    ASSUME NEW old \in [StreamIds -> Stream], NEW new, NEW newer, OneAdvanced(old, new),
           \A i \in StreamIds : KeptOrCreated(new[i], newer[i])
    PROVE  OneAdvanced(old, newer)
  <1>1. PICK id \in StreamIds :
            /\ Advanced(old[id], new[id])
            /\ \A i \in StreamIds \ {id} : KeptOrCreated(old[i], new[i])
    BY DEF OneAdvanced
  <1>2. new[id] # NoStream
    <2>1. new[id].employer = old[id].employer
      <3>1. new[id] = [old[id] EXCEPT !.funded = new[id].funded,
                                      !.withdrawn = new[id].withdrawn,
                                      !.cancelled = new[id].cancelled]
        BY <1>1 DEF Advanced
      <3> DEFINE f == new[id].funded  w == new[id].withdrawn  b == new[id].cancelled
      <3> HIDE DEF f, w, b
      <3>2. [old[id] EXCEPT !.funded = f, !.withdrawn = w, !.cancelled = b].employer
              = old[id].employer
        BY DEF Stream
      <3> QED
        BY <3>1, <3>2 DEF f, w, b
    <2> QED
      BY <1>1, <2>1 DEF Advanced, NoStream
  <1>3. newer[id] = new[id]
    BY <1>2 DEF KeptOrCreated
  <1>4. ASSUME NEW i \in StreamIds \ {id}
        PROVE  KeptOrCreated(old[i], newer[i])
    BY <1>1, VaultAssumption, WorldAssumption DEF KeptOrCreated, NoStream
  <1> QED
    BY <1>1, <1>3, <1>4 DEF OneAdvanced

\* TransactionInv is inductive together with IInv.
LEMMA NextTransaction ==
    ASSUME IInv, TransactionInv, [VaultNext]_vaultVars
    PROVE  TransactionInv'
  <1>1. CASE UNCHANGED <<streams, entered, saved>>
    BY <1>1 DEF TransactionInv
  <1>2. CASE entered' = 1
    BY <1>2 DEF TransactionInv
  <1>3. ASSUME NEW c \in Accounts, NEW r \in Accounts \cup {ZeroAddress},
               NEW t \in Tokens \cup {ZeroAddress}, NEW h \in Hashes \cup {ZeroHash},
               createStream(c, r, t, h)
        PROVE  TransactionInv'
    <2>1. UNCHANGED <<entered, saved>>
      BY <1>3 DEF createStream
    <2>2. \A i \in StreamIds : KeptOrCreated(streams[i], streams'[i])
      BY <1>3, CreateFresh
    <2>3. ASSUME entered = 2
          PROVE  OneAdvanced(saved.streams, streams')
      BY <2>2, <2>3, CreateKeepsCall DEF TransactionInv, IInv, SavedInv, SavedTypeOK
    <2> QED
      BY <2>1, <2>3 DEF TransactionInv
  <1>4. CASE VaultStep
    <2>1. ASSUME NEW c \in Accounts, NEW g \in Signers \cup {ZeroAddress}, setTeeSigner(c, g)
          PROVE  TransactionInv'
      BY <1>1, <2>1 DEF setTeeSigner
    <2>2. ASSUME NEW id \in StreamIds, NEW terms \in Terms, revealTerms(id, terms)
          PROVE  TransactionInv'
      BY <1>1, <2>2 DEF revealTerms
    <2>3. ASSUME NEW id \in StreamIds, TransferIn(id) \/ TransferOut(id) \/ TransferBack(id)
          PROVE  TransactionInv'
      BY <1>1, <2>3 DEF TransferIn, TransferOut, TransferBack, storage
    <2>4. CASE Return \/ Revert \/ Tick
      BY <1>2, <2>4 DEF Return, Revert, Tick
    <2> QED
      BY <1>3, <1>4, <2>1, <2>2, <2>3, <2>4, FundAdvances DEF VaultStep
  <1>5. ASSUME NEW id \in StreamIds, NEW sig \in Signatures,
               withdraw(id, sig.digest.accrued, sig.digest.deadline, sig)
        PROVE  TransactionInv'
    <2>1. sig.digest.accrued \in Nat
      BY VaultAssumption DEF Signatures, Digests
    <2> QED
      BY <1>5, <2>1, WithdrawAdvances
  <1>6. ASSUME NEW c \in Accounts, NEW id \in StreamIds, NEW sig \in Signatures,
               cancelStream(c, id, sig.digest.accrued, sig.digest.deadline, sig)
        PROVE  TransactionInv'
    <2>1. sig.digest.accrued \in Nat
      BY VaultAssumption DEF Signatures, Digests
    <2> QED
      BY <1>6, <2>1, CancelAdvances
  <1>7. CASE UNCHANGED vaultVars
    BY <1>1, <1>7 DEF vaultVars, storage
  <1> QED
    BY <1>4, <1>5, <1>6, <1>7 DEF VaultNext

\* Seen between transactions a step does nothing, creates streams, or advances
\* one stream while others may be created.
LEMMA CommittedStep ==
    ASSUME IInv, TransactionInv, [VaultNext]_vaultVars
    PROVE  \/ \A i \in StreamIds : KeptOrCreated(committedStreams[i], committedStreams'[i])
           \/ OneAdvanced(committedStreams, committedStreams')
  <1> DEFINE Goal == \/ \A i \in StreamIds :
                           KeptOrCreated(committedStreams[i], committedStreams'[i])
                     \/ OneAdvanced(committedStreams, committedStreams')
  <1> SUFFICES Goal
    OBVIOUS
  <1>0. entered \in {1, 2}
    BY DEF IInv, VaultTypeOK
  <1>1. CASE committedStreams' = committedStreams
    BY <1>1 DEF KeptOrCreated
  <1> HIDE DEF Goal
  <1>2. CASE UNCHANGED <<streams, entered, saved>>
    BY <1>1, <1>2 DEF committedStreams
  <1>3. CASE entered = 1 /\ entered' = 2 /\ saved' = Snapshot
    BY <1>1, <1>3 DEF committedStreams, Snapshot
  <1>4. ASSUME NEW c \in Accounts, NEW r \in Accounts \cup {ZeroAddress},
               NEW t \in Tokens \cup {ZeroAddress}, NEW h \in Hashes \cup {ZeroHash},
               createStream(c, r, t, h)
        PROVE  Goal
    <2>1. UNCHANGED <<entered, saved>>
      BY <1>4 DEF createStream
    <2>2. \A i \in StreamIds : KeptOrCreated(streams[i], streams'[i])
      BY <1>4, CreateFresh
    <2>3. CASE entered = 1
      BY <2>1, <2>2, <2>3 DEF Goal, committedStreams
    <2>4. CASE entered = 2
      BY <1>1, <2>1, <2>4 DEF committedStreams
    <2> QED
      BY <1>0, <2>3, <2>4
  <1>5. CASE Return
    <2>1. entered = 2 /\ entered' = 1 /\ streams' = streams
      BY <1>5 DEF Return, storage
    <2> QED
      BY <2>1 DEF Goal, TransactionInv, committedStreams
  <1>6. CASE Revert
    BY <1>1, <1>6 DEF Revert, WritesUndone, committedStreams
  <1>7. CASE VaultStep
    <2>1. ASSUME NEW c \in Accounts, NEW g \in Signers \cup {ZeroAddress}, setTeeSigner(c, g)
          PROVE  Goal
      BY <1>2, <2>1 DEF setTeeSigner
    <2>2. ASSUME NEW id \in StreamIds, NEW terms \in Terms, revealTerms(id, terms)
          PROVE  Goal
      BY <1>2, <2>2 DEF revealTerms
    <2>3. ASSUME NEW id \in StreamIds, TransferIn(id) \/ TransferOut(id) \/ TransferBack(id)
          PROVE  Goal
      BY <1>2, <2>3 DEF TransferIn, TransferOut, TransferBack, storage
    <2>4. CASE Tick
      BY <1>2, <2>4 DEF Tick, storage
    <2>5. ASSUME NEW c \in Accounts, NEW id \in StreamIds, NEW n \in Amounts, fund(c, id, n)
          PROVE  Goal
      BY <1>3, <2>5 DEF fund, nonReentrant, Enter
    <2> QED
      BY <1>4, <1>5, <1>6, <1>7, <2>1, <2>2, <2>3, <2>4, <2>5 DEF VaultStep
  <1>8. ASSUME NEW id \in StreamIds, NEW sig \in Signatures,
               withdraw(id, sig.digest.accrued, sig.digest.deadline, sig)
        PROVE  Goal
    BY <1>3, <1>8 DEF withdraw, nonReentrant, Enter
  <1>9. ASSUME NEW c \in Accounts, NEW id \in StreamIds, NEW sig \in Signatures,
               cancelStream(c, id, sig.digest.accrued, sig.digest.deadline, sig)
        PROVE  Goal
    BY <1>3, <1>9 DEF cancelStream, nonReentrant, Enter
  <1>10. CASE UNCHANGED vaultVars
    BY <1>2, <1>10 DEF vaultVars, storage
  <1> QED
    BY <1>7, <1>8, <1>9, <1>10 DEF VaultNext

\* Outside an unfinished transaction nothing is owed: every stream's book is
\* exactly what the tokens did.
Square(s, d, p, r) ==
    /\ s \in Stream /\ WellFormed(s)
    /\ d \in Nat /\ p \in Nat /\ r \in Nat
    /\ Book(s, d, p, r, 0, 0, 0)

CommittedBooks ==
    \A id \in StreamIds : Square(committedStreams[id], committedDeposited[id],
                                 committedPaid[id], committedRefunded[id])

LEMMA CommittedSquare == IInv => CommittedBooks
  <1> SUFFICES ASSUME IInv, NEW id \in StreamIds
               PROVE  Square(committedStreams[id], committedDeposited[id],
                             committedPaid[id], committedRefunded[id])
    BY DEF CommittedBooks
  <1>1. CASE entered = 1
    <2>1. Settled(id) /\ Kept(id)
      BY <1>1 DEF IInv, LockInv, BooksInv
    <2> QED
      BY <1>1, <2>1 DEF Square, IInv, VaultTypeOK, Kept, Settled, committedStreams,
                        committedDeposited, committedPaid, committedRefunded
  <1>2. CASE entered # 1
    <2>1. SavedTypeOK /\ SavedBooks
      BY <1>2 DEF IInv, VaultTypeOK, SavedInv
    <2> QED
      BY <1>2, <2>1 DEF Square, SavedTypeOK, SavedBooks, committedStreams,
                        committedDeposited, committedPaid, committedRefunded
  <1> QED
    BY <1>1, <1>2

\* A slot that is kept, or in which a stream is created, moves no money.
LEMMA KeptMovesNothing ==
    ASSUME NEW s, NEW d, NEW p, NEW r, Square(s, d, p, r),
           NEW n, NEW e, NEW q, NEW b, Square(n, e, q, b), KeptOrCreated(s, n)
    PROVE  /\ e - q - b = d - p - r /\ q = p /\ b = r
           /\ \/ PhaseOf(n) = PhaseOf(s)
              \/ PhaseOf(s) = "absent" /\ PhaseOf(n) = "open"
  <1>1. /\ s.funded = d /\ s.withdrawn = p
        /\ n.funded = e /\ n.withdrawn = q
        /\ r = IF s.cancelled THEN d - p ELSE 0
        /\ b = IF n.cancelled THEN e - q ELSE 0
    BY DEF Square, Book
  <1>2. CASE n = s
    BY <1>1, <1>2
  <1>3. CASE n # s
    <2>1. /\ s.funded = 0 /\ s.withdrawn = 0 /\ ~s.cancelled
          /\ n.funded = 0 /\ n.withdrawn = 0 /\ ~n.cancelled
          /\ s.employer = ZeroAddress /\ n.employer # ZeroAddress
      BY <1>3, WorldAssumption DEF KeptOrCreated, NoStream
    <2> QED
      BY <1>1, <2>1 DEF PhaseOf
  <1> QED
    BY <1>2, <1>3

\* A stream that advances takes one step of its ideal counterpart.
LEMMA AdvancedMovesMoney ==
    ASSUME NEW s, NEW d, NEW p, NEW r, Square(s, d, p, r),
           NEW n, NEW e, NEW q, NEW b, Square(n, e, q, b), Advanced(s, n)
    PROVE  /\ PhaseOf(s) = "open"
           /\ \/ /\ PhaseOf(n) = "open"
                 /\ e - q - b > d - p - r /\ q = p /\ b = r
              \/ /\ PhaseOf(n) = "open"
                 /\ e - q - b < d - p - r
                 /\ q + (e - q - b) = p + (d - p - r) /\ b = r
              \/ /\ PhaseOf(n) = "closed"
                 /\ e - q - b = 0 /\ q >= p /\ b >= r
                 /\ q + b = p + r + (d - p - r)
  <1>1. /\ s.funded = d /\ s.withdrawn = p
        /\ n.funded = e /\ n.withdrawn = q
        /\ ~s.cancelled /\ r = 0
        /\ b = IF n.cancelled THEN e - q ELSE 0
        /\ d \in Nat /\ p \in Nat /\ e \in Nat /\ q \in Nat /\ b \in Nat
    BY DEF Square, Book, Advanced
  <1>2. s.employer # ZeroAddress /\ n.employer = s.employer
    <2>1. n = [s EXCEPT !.funded = e, !.withdrawn = q, !.cancelled = n.cancelled]
      BY <1>1 DEF Advanced
    <2>2. n.employer = s.employer
      BY <2>1 DEF Square, Stream
    <2> QED
      BY <2>2 DEF Advanced
  <1>3. \/ e > d /\ q = p /\ ~n.cancelled
        \/ e = d /\ q > p /\ ~n.cancelled
        \/ e = d /\ q >= p /\ n.cancelled
    BY <1>1 DEF Advanced
  <1>4. PhaseOf(s) = "open" /\ PhaseOf(n) = IF n.cancelled THEN "closed" ELSE "open"
    BY <1>1, <1>2 DEF PhaseOf
  <1> QED
    BY <1>1, <1>3, <1>4

LEMMA TransactionInvariance == VaultSpec => []TransactionInv
  <1>1. VaultInit => TransactionInv
    BY DEF VaultInit, TransactionInv
  <1>2. IInv /\ TransactionInv /\ [VaultNext]_vaultVars => TransactionInv'
    BY NextTransaction
  <1> QED
    BY <1>1, <1>2, Invariance, PTL DEF VaultSpec

\* No transaction, with whatever its callbacks do, changes the parties, token
\* or commitment of a stream, takes back a deposit or a payment, or touches a
\* cancelled stream.
THEOREM HistoryKept == VaultSpec => StreamHistory
  <1> DEFINE Kept1(s, n) ==
         s.employer # ZeroAddress =>
             /\ n = [s EXCEPT !.funded = n.funded, !.withdrawn = n.withdrawn,
                              !.cancelled = n.cancelled]
             /\ n.funded >= s.funded
             /\ n.withdrawn >= s.withdrawn
             /\ s.cancelled => n = s
  <1>1. ASSUME NEW s \in Stream, NEW n \in Stream, KeptOrCreated(s, n) \/ Advanced(s, n)
        PROVE  Kept1(s, n)
    <2>1. CASE n = s
      <3>1. s = [s EXCEPT !.funded = s.funded, !.withdrawn = s.withdrawn,
                          !.cancelled = s.cancelled]
        BY DEF Stream
      <3>2. s.funded \in Nat /\ s.withdrawn \in Nat
        BY DEF Stream, Uint128
      <3> QED
        BY <2>1, <3>1, <3>2
    <2>2. CASE s = NoStream
      BY <2>2 DEF NoStream
    <2>3. CASE Advanced(s, n)
      <3>1. s.funded \in Nat /\ n.funded \in Nat /\ s.withdrawn \in Nat /\ n.withdrawn \in Nat
        BY DEF Stream, Uint128
      <3> QED
        BY <2>3, <3>1 DEF Advanced
    <2> QED
      BY <1>1, <2>1, <2>2, <2>3 DEF KeptOrCreated
  <1> HIDE DEF Kept1
  <1>2. ASSUME CommittedBooks, CommittedBooks', IInv, TransactionInv, [VaultNext]_vaultVars,
               NEW id \in StreamIds
        PROVE  Kept1(committedStreams[id], committedStreams'[id])
    <2>1. committedStreams[id] \in Stream
      BY <1>2 DEF CommittedBooks, Square
    <2>2. (committedStreams[id] \in Stream)'
      BY <1>2 DEF CommittedBooks, Square
    <2>3. \/ KeptOrCreated(committedStreams[id], committedStreams'[id])
          \/ Advanced(committedStreams[id], committedStreams'[id])
      BY <1>2, CommittedStep DEF OneAdvanced
    <2> QED
      BY <1>1, <2>1, <2>2, <2>3
  <1>3. CommittedBooks /\ CommittedBooks' /\ IInv /\ TransactionInv /\ [VaultNext]_vaultVars
        => [\A id \in StreamIds :
              LET s == committedStreams[id]
                  n == committedStreams'[id]
              IN  s.employer # ZeroAddress =>
                    /\ n = [s EXCEPT !.funded = n.funded, !.withdrawn = n.withdrawn,
                                     !.cancelled = n.cancelled]
                    /\ n.funded >= s.funded
                    /\ n.withdrawn >= s.withdrawn
                    /\ s.cancelled => n = s]_vaultVars
    BY <1>2 DEF Kept1
  <1> QED
    BY <1>3, Invariance, TransactionInvariance, CommittedSquare, PTL DEF VaultSpec, StreamHistory

\* The vault implements IdealStreams.  A transaction is one step of the ideal
\* escrow, taken when the call returns: Open, or Deposit, Pay or Close of the
\* stream it advanced.
THEOREM Refinement == VaultSpec => ImplementsIdealStreams
  <1> USE VaultAssumption, WorldAssumption
  <1>1. VaultInit => Ideal!Init
    BY DEF VaultInit, Ideal!Init, PhaseOf, NoStream, committedStreams, committedPaid,
           committedRefunded, committedDeposited
  <1>2. ASSUME CommittedBooks, CommittedBooks', IInv, TransactionInv, [VaultNext]_vaultVars
        PROVE  Ideal!Next
    <2>1. ASSUME NEW i \in StreamIds,
                 KeptOrCreated(committedStreams[i], committedStreams'[i])
          PROVE  Ideal!MoneyKept({i}) /\ Ideal!PhasesKept({i})
      BY <1>2, <2>1, KeptMovesNothing
      DEF CommittedBooks, Ideal!MoneyKept, Ideal!PhasesKept, Ideal!Opened
    <2>2. ASSUME NEW i \in StreamIds,
                 Advanced(committedStreams[i], committedStreams'[i])
          PROVE  Ideal!Deposit(i) \/ Ideal!Pay(i) \/ Ideal!Close(i)
      BY <1>2, <2>2, AdvancedMovesMoney
      DEF CommittedBooks, Ideal!Deposit, Ideal!Pay, Ideal!Close
    <2>3. CASE \A i \in StreamIds : KeptOrCreated(committedStreams[i], committedStreams'[i])
      BY <2>1, <2>3 DEF Ideal!Next, Ideal!Open, Ideal!MoneyKept, Ideal!PhasesKept
    <2>4. CASE OneAdvanced(committedStreams, committedStreams')
      <3>1. PICK id \in StreamIds :
                /\ Advanced(committedStreams[id], committedStreams'[id])
                /\ \A i \in StreamIds \ {id} :
                     KeptOrCreated(committedStreams[i], committedStreams'[i])
        BY <2>4 DEF OneAdvanced
      <3>2. Ideal!MoneyKept(StreamIds \ {id}) /\ Ideal!PhasesKept(StreamIds \ {id})
        BY <2>1, <3>1 DEF Ideal!MoneyKept, Ideal!PhasesKept
      <3> QED
        BY <2>2, <3>1, <3>2 DEF Ideal!Next
    <2> QED
      BY <1>2, <2>3, <2>4, CommittedStep
  <1> QED
    BY <1>1, <1>2, Invariance, TransactionInvariance, CommittedSquare, PTL
    DEF VaultSpec, ImplementsIdealStreams, Ideal!Spec

------------------------------------------------------------------------------
(* Solvency.  Through a transaction too, and in the state it would revert to, *)
(* the vault owns of every token at least the money in the pots of that       *)
(* token's streams.                                                           *)

PotsOf(t, ss, d, p, r) ==
    [id \in StreamIds |-> IF ss[id].token = t THEN d[id] - p[id] - r[id] ELSE 0]

PotsBacked(bal, ss, d, p, r) ==
    \A t \in Tokens : bal[t][Vault] >= SumFunction(PotsOf(t, ss, d, p, r))

BackedInv ==
    /\ PotsBacked(balance, streams, deposited, paid, refunded)
    /\ entered = 2 => PotsBacked(saved.balance, saved.streams, saved.deposited,
                             saved.paid, saved.refunded)

LEMMA StreamIdsFinite == IsFiniteSet(StreamIds)
  BY WorldAssumption, FS_Interval DEF StreamIds

\* A step that moves no money keeps the pots, whatever becomes of the streams,
\* when the only slots whose token changes have empty pots.
LEMMA PotsKept ==
    ASSUME NEW t, NEW ss, NEW new, NEW d, NEW p, NEW r,
           \A i \in StreamIds : \/ new[i].token = ss[i].token
                               \/ d[i] - p[i] - r[i] = 0
    PROVE  PotsOf(t, new, d, p, r) = PotsOf(t, ss, d, p, r)
  BY DEF PotsOf

\* A pot that changes changes the total of its token, and of no other.
LEMMA PotChanged ==
    ASSUME NEW id \in StreamIds, NEW t,
           deposited \in [StreamIds -> Nat], paid \in [StreamIds -> Nat],
           refunded \in [StreamIds -> Nat], deposited' \in [StreamIds -> Nat],
           paid' \in [StreamIds -> Nat], refunded' \in [StreamIds -> Nat],
           \A i \in StreamIds \ {id} : /\ deposited'[i] = deposited[i]
                                       /\ paid'[i] = paid[i] /\ refunded'[i] = refunded[i]
    PROVE  LET before == SumFunction(PotsOf(t, streams, deposited, paid, refunded))
               after  == SumFunction(PotsOf(t, streams, deposited', paid', refunded'))
           IN  /\ before \in Int
               /\ streams[id].token = t =>
                     after = before + (deposited'[id] - paid'[id] - refunded'[id])
                                    - (deposited[id] - paid[id] - refunded[id])
               /\ streams[id].token # t => after = before
  <1> DEFINE f == PotsOf(t, streams, deposited, paid, refunded)
             h == PotsOf(t, streams, deposited', paid', refunded')
  <1>1. f \in [StreamIds -> Int] /\ h \in [StreamIds -> Int]
    BY DEF PotsOf
  <1>2. \A x \in StreamIds \ {id} : h[x] = f[x]
    BY DEF PotsOf
  <1>3. /\ f[id] = IF streams[id].token = t
                   THEN deposited[id] - paid[id] - refunded[id] ELSE 0
        /\ h[id] = IF streams[id].token = t
                   THEN deposited'[id] - paid'[id] - refunded'[id] ELSE 0
    BY DEF PotsOf
  <1> HIDE DEF f, h
  <1>4. SumFunction(h) = SumFunction(f) + h[id] - f[id] /\ SumFunction(f) \in Int
    BY <1>1, <1>2, StreamIdsFinite, SumUpdate, SumInt
  <1>5. SumFunction(f) + 0 - 0 = SumFunction(f)
    BY <1>4
  <1> QED
    BY <1>3, <1>4, <1>5 DEF f, h

\* At deployment the pots are empty.
LEMMA InitBacked == VaultInit => BackedInv
  <1> SUFFICES ASSUME VaultInit, NEW t \in Tokens
               PROVE  balance[t][Vault] >= SumFunction(PotsOf(t, streams, deposited, paid, refunded))
    BY DEF VaultInit, BackedInv, PotsBacked
  <1> DEFINE f == PotsOf(t, streams, deposited, paid, refunded)
  <1>1. f \in [StreamIds -> Int] /\ \A x \in StreamIds : f[x] = 0
    BY DEF PotsOf, VaultInit
  <1>2. balance[t][Vault] = 0
    BY DEF VaultInit, Holders
  <1> HIDE DEF f
  <1>3. SumFunction(f) = 0
    BY <1>1, StreamIdsFinite, SumZero
  <1> QED
    BY <1>2, <1>3 DEF f

\* What a transfer between an account and the vault does to the vault's own
\* balances.
LEMMA MoveVault ==
    ASSUME NEW t \in Tokens, NEW a \in Accounts, NEW n \in Nat,
           balance \in [Tokens -> [Holders -> Nat]]
    PROVE  /\ Move(t, a, Vault, n) =>
                 /\ balance'[t][Vault] = balance[t][Vault] + n
                 /\ \A u \in Tokens \ {t} : balance'[u] = balance[u]
           /\ Move(t, Vault, a, n) =>
                 /\ balance'[t][Vault] = balance[t][Vault] - n
                 /\ \A u \in Tokens \ {t} : balance'[u] = balance[u]
  <1>1. a \in Holders /\ Vault \in Holders /\ a # Vault
    BY VaultAssumption DEF Holders
  <1>2. balance[t] \in [Holders -> Nat]
    OBVIOUS
  <1>3. ASSUME NEW from \in Holders, NEW to \in Holders, from # to, Move(t, from, to, n)
        PROVE  /\ balance'[t][from] = balance[t][from] - n
               /\ balance'[t][to] = balance[t][to] + n
               /\ \A u \in Tokens \ {t} : balance'[u] = balance[u]
    <2> DEFINE debited == [balance[t] EXCEPT ![from] = @ - n]
               after   == [debited EXCEPT ![to] = @ + n]
    <2>1. balance' = [balance EXCEPT ![t] = after]
      BY <1>3 DEF Move
    <2>2. /\ debited[from] = balance[t][from] - n
          /\ debited[to] = balance[t][to]
          /\ DOMAIN debited = Holders
      BY <1>2, <1>3
    <2> HIDE DEF debited
    <2>3. after[from] = debited[from] /\ after[to] = debited[to] + n
      BY <1>3, <2>2
    <2> HIDE DEF after
    <2>4. balance'[t] = after /\ \A u \in Tokens \ {t} : balance'[u] = balance[u]
      BY <2>1
    <2> QED
      BY <2>2, <2>3, <2>4
  <1> QED
    BY <1>1, <1>3

\* Steps that move no money: the running call's snapshot is kept, taken now, or
\* given up.
LEMMA BackedWithoutMoves ==
    ASSUME BackedInv, UNCHANGED moved,
           \A i \in StreamIds : \/ streams'[i].token = streams[i].token
                               \/ deposited[i] - paid[i] - refunded[i] = 0,
           \/ UNCHANGED <<entered, saved>>
           \/ saved' = Snapshot
           \/ entered' = 1
    PROVE  BackedInv'
  <1>1. UNCHANGED <<balance, deposited, paid, refunded>>
    BY DEF moved
  <1>2. PotsBacked(balance, streams', deposited, paid, refunded)
    BY PotsKept DEF BackedInv, PotsBacked
  <1>3. PotsBacked(balance', streams', deposited', paid', refunded')
    BY <1>1, <1>2
  <1>4. entered' = 2 => PotsBacked(saved'.balance, saved'.streams, saved'.deposited,
                               saved'.paid, saved'.refunded)
    BY DEF BackedInv, Snapshot
  <1> QED
    BY <1>3, <1>4 DEF BackedInv

\* A token's step changes the pot and the vault's balance by the same amount.
LEMMA BackedByMoves ==
    ASSUME IInv, BackedInv, NEW id \in StreamIds,
           TransferIn(id) \/ TransferOut(id) \/ TransferBack(id)
    PROVE  BackedInv'
  <1> DEFINE t == streams[id].token
  <1>1. /\ balance \in [Tokens -> [Holders -> Nat]]
        /\ deposited \in [StreamIds -> Nat] /\ paid \in [StreamIds -> Nat]
        /\ refunded \in [StreamIds -> Nat] /\ due[id] \in Dues
    BY DEF IInv, VaultTypeOK
  <1>2. /\ t \in Tokens /\ streams[id].recipient \in Accounts
        /\ streams[id].employer \in Accounts
        /\ due[id].in > 0 => due[id].payer \in Accounts
        /\ due[id].in \in Nat /\ due[id].out \in Nat /\ due[id].back \in Nat
    <2>1. Kept(id) /\ ~Settled(id)
      BY <1>1 DEF IInv, BooksInv, Settled, Dues, TransferIn, TransferOut, TransferBack
    <2> QED
      BY <1>1, <2>1 DEF Kept, WellFormed, Dues
  <1>3. UNCHANGED <<streams, entered, saved>>
    BY DEF TransferIn, TransferOut, TransferBack, storage
  <1> DEFINE pot == deposited[id] - paid[id] - refunded[id]
  <1>4. /\ deposited' \in [StreamIds -> Nat] /\ paid' \in [StreamIds -> Nat]
        /\ refunded' \in [StreamIds -> Nat]
        /\ \A i \in StreamIds \ {id} : /\ deposited'[i] = deposited[i]
                                       /\ paid'[i] = paid[i] /\ refunded'[i] = refunded[i]
        /\ balance'[t][Vault] \in Int
        /\ balance'[t][Vault] - balance[t][Vault] = pot' - pot
        /\ \A u \in Tokens \ {t} : balance'[u] = balance[u]
    <2>1. CASE TransferIn(id)
      <3>1. /\ balance'[t][Vault] = balance[t][Vault] + due[id].in
            /\ \A u \in Tokens \ {t} : balance'[u] = balance[u]
        BY <1>1, <1>2, <2>1, MoveVault DEF TransferIn
      <3>2. /\ deposited' = [deposited EXCEPT ![id] = @ + due[id].in]
            /\ UNCHANGED <<paid, refunded>>
        BY <2>1 DEF TransferIn
      <3>3. balance[t][Vault] \in Nat
        BY <1>1, <1>2 DEF Holders
      <3> QED
        BY <1>1, <1>2, <3>1, <3>2, <3>3
    <2>2. CASE TransferOut(id)
      <3>1. /\ balance'[t][Vault] = balance[t][Vault] - due[id].out
            /\ \A u \in Tokens \ {t} : balance'[u] = balance[u]
        BY <1>1, <1>2, <2>2, MoveVault DEF TransferOut
      <3>2. /\ paid' = [paid EXCEPT ![id] = @ + due[id].out]
            /\ UNCHANGED <<deposited, refunded>>
        BY <2>2 DEF TransferOut
      <3>3. balance[t][Vault] \in Nat
        BY <1>1, <1>2 DEF Holders
      <3> QED
        BY <1>1, <1>2, <3>1, <3>2, <3>3
    <2>3. CASE TransferBack(id)
      <3>1. /\ balance'[t][Vault] = balance[t][Vault] - due[id].back
            /\ \A u \in Tokens \ {t} : balance'[u] = balance[u]
        BY <1>1, <1>2, <2>3, MoveVault DEF TransferBack
      <3>2. /\ refunded' = [refunded EXCEPT ![id] = @ + due[id].back]
            /\ UNCHANGED <<deposited, paid>>
        BY <2>3 DEF TransferBack
      <3>3. balance[t][Vault] \in Nat
        BY <1>1, <1>2 DEF Holders
      <3> QED
        BY <1>1, <1>2, <3>1, <3>2, <3>3
    <2> QED
      BY <2>1, <2>2, <2>3
  <1>5. ASSUME NEW u \in Tokens
        PROVE  balance'[u][Vault] >= SumFunction(PotsOf(u, streams, deposited', paid', refunded'))
    <2> DEFINE before == SumFunction(PotsOf(u, streams, deposited, paid, refunded))
               after  == SumFunction(PotsOf(u, streams, deposited', paid', refunded'))
    <2>1. /\ before \in Int
          /\ u = t => after = before + pot' - pot
          /\ u # t => after = before
      BY <1>1, <1>4, PotChanged
    <2>2. balance[u][Vault] >= before
      BY DEF BackedInv, PotsBacked
    <2>3. balance[u][Vault] \in Nat /\ pot \in Int /\ pot' \in Int
      BY <1>1, <1>4 DEF Holders
    <2> SUFFICES balance'[u][Vault] >= after
      OBVIOUS
    <2> HIDE DEF before, after, pot, t
    <2>4. CASE u = t
      <3>1. balance'[u][Vault] - balance[u][Vault] = pot' - pot /\ balance'[u][Vault] \in Int
        BY <1>4, <2>4
      <3> QED
        BY <2>1, <2>2, <2>3, <2>4, <3>1
    <2>5. CASE u # t
      <3>1. balance'[u] = balance[u]
        BY <1>4, <2>5
      <3> QED
        BY <2>1, <2>2, <2>5, <3>1
    <2> QED
      BY <2>4, <2>5
  <1>6. PotsBacked(balance', streams', deposited', paid', refunded')
    BY <1>3, <1>5 DEF PotsBacked
  <1> QED
    BY <1>3, <1>6 DEF BackedInv

\* BackedInv is inductive together with IInv.
LEMMA NextBacked ==
    ASSUME IInv, BackedInv, [VaultNext]_vaultVars
    PROVE  BackedInv'
  <1> DEFINE TokensKept == \A i \in StreamIds : streams'[i].token = streams[i].token
  <1>1. ASSUME NEW id \in StreamIds, NEW f, NEW w, NEW b,
               \/ streams' = [streams EXCEPT ![id].funded = f]
               \/ streams' = [streams EXCEPT ![id].withdrawn = w]
               \/ streams' = [streams EXCEPT ![id].cancelled = b, ![id].withdrawn = w]
        PROVE  TokensKept
    <2>1. streams \in [StreamIds -> Stream]
      BY DEF IInv, VaultTypeOK
    <2>2. \A i \in StreamIds \ {id} : streams'[i] = streams[i]
      BY <1>1, <2>1
    <2>3. \/ streams'[id] = [streams[id] EXCEPT !.funded = f]
          \/ streams'[id] = [streams[id] EXCEPT !.withdrawn = w]
          \/ streams'[id] = [streams[id] EXCEPT !.cancelled = b, !.withdrawn = w]
      BY <1>1, <2>1
    <2>4. streams[id] \in Stream
      BY <2>1
    <2>5. streams'[id].token = streams[id].token
      BY <2>3, <2>4 DEF Stream
    <2> QED
      BY <2>2, <2>5
  <1>2. CASE streams' = streams /\ UNCHANGED moved /\ (UNCHANGED <<entered, saved>> \/ entered' = 1)
    BY <1>2, BackedWithoutMoves
  <1>3. ASSUME NEW c \in Accounts, NEW r \in Accounts \cup {ZeroAddress},
               NEW t \in Tokens \cup {ZeroAddress}, NEW h \in Hashes \cup {ZeroHash},
               createStream(c, r, t, h)
        PROVE  BackedInv'
    <2>1. UNCHANGED <<entered, saved>> /\ UNCHANGED moved
      BY <1>3 DEF createStream
    <2>2. ASSUME NEW i \in StreamIds
          PROVE  streams'[i] = streams[i] \/ deposited[i] - paid[i] - refunded[i] = 0
      <3>1. KeptOrCreated(streams[i], streams'[i])
        BY <1>3, CreateFresh
      <3>2. CASE streams[i] = NoStream
        <4>1. Kept(i) /\ due[i] \in Dues
          BY DEF IInv, BooksInv, VaultTypeOK
        <4>2. deposited[i] \in Nat /\ paid[i] \in Nat /\ refunded[i] \in Nat
          BY DEF IInv, VaultTypeOK
        <4>3. /\ 0 = deposited[i] + due[i].in /\ 0 = paid[i] + due[i].out
              /\ refunded[i] = 0 /\ due[i].in \in Nat /\ due[i].out \in Nat
          BY <3>2, <4>1 DEF Kept, Book, NoStream, Dues
        <4> QED
          BY <4>2, <4>3
      <3> QED
        BY <3>1, <3>2 DEF KeptOrCreated
    <2> QED
      BY <2>1, <2>2, BackedWithoutMoves
  <1>4. ASSUME NEW c \in Accounts, NEW id \in StreamIds, NEW n \in Amounts, fund(c, id, n)
        PROVE  BackedInv'
    <2>1. TokensKept
      BY <1>1, <1>4 DEF fund
    <2> QED
      BY <1>4, <2>1, BackedWithoutMoves DEF fund, Enter
  <1>5. ASSUME NEW id \in StreamIds, NEW sig,
               withdraw(id, sig.digest.accrued, sig.digest.deadline, sig)
        PROVE  BackedInv'
    <2>1. TokensKept
      BY <1>1, <1>5 DEF withdraw
    <2> QED
      BY <1>5, <2>1, BackedWithoutMoves DEF withdraw, Enter
  <1>6. ASSUME NEW c \in Accounts, NEW id \in StreamIds, NEW sig,
               cancelStream(c, id, sig.digest.accrued, sig.digest.deadline, sig)
        PROVE  BackedInv'
    <2>1. TokensKept
      BY <1>1, <1>6 DEF cancelStream
    <2> QED
      BY <1>6, <2>1, BackedWithoutMoves DEF cancelStream, Enter
  <1>7. CASE Revert
    <2>1. /\ entered = 2 /\ entered' = 1
          /\ streams' = saved.streams /\ balance' = saved.balance
          /\ deposited' = saved.deposited /\ paid' = saved.paid /\ refunded' = saved.refunded
      BY <1>7 DEF Revert, WritesUndone
    <2> QED
      BY <2>1 DEF BackedInv
  <1> HIDE DEF TokensKept
  <1>8. CASE VaultStep
    <2>1. ASSUME NEW c \in Accounts, NEW g \in Signers \cup {ZeroAddress}, setTeeSigner(c, g)
          PROVE  BackedInv'
      BY <1>2, <2>1 DEF setTeeSigner
    <2>2. ASSUME NEW id \in StreamIds, NEW terms \in Terms, revealTerms(id, terms)
          PROVE  BackedInv'
      BY <1>2, <2>2 DEF revealTerms
    <2>3. CASE Return \/ Tick
      BY <1>2, <2>3 DEF Return, Tick, storage
    <2> QED
      BY <1>3, <1>4, <1>7, <1>8, <2>1, <2>2, <2>3, BackedByMoves DEF VaultStep
  <1>9. CASE UNCHANGED vaultVars
    BY <1>2, <1>9 DEF vaultVars, storage
  <1> QED
    BY <1>5, <1>6, <1>8, <1>9 DEF VaultNext

\* Between transactions every payout and refund the books promise can be made:
\* of every token the vault owns at least what its open streams hold.
THEOREM SolvencyHolds == VaultSpec => []Solvent
  <1>1. IInv /\ BackedInv => Solvent
    <2> SUFFICES ASSUME IInv, BackedInv, entered = 1, NEW t \in Tokens
                 PROVE  LET open == {id \in StreamIds :
                                       streams[id].token = t /\ ~streams[id].cancelled}
                            held == [id \in open |-> streams[id].funded - streams[id].withdrawn]
                        IN  balance[t][Vault] >= SumFunction(held)
      BY DEF Solvent
    <2> DEFINE open == {id \in StreamIds : streams[id].token = t /\ ~streams[id].cancelled}
               held == [id \in open |-> streams[id].funded - streams[id].withdrawn]
               pots == PotsOf(t, streams, deposited, paid, refunded)
    <2>1. ASSUME NEW id \in StreamIds
          PROVE  /\ streams[id].funded \in Nat /\ streams[id].withdrawn \in Nat
                 /\ deposited[id] \in Nat /\ paid[id] \in Nat /\ refunded[id] \in Nat
                 /\ deposited[id] = streams[id].funded /\ paid[id] = streams[id].withdrawn
                 /\ streams[id].cancelled => refunded[id] = streams[id].funded - streams[id].withdrawn
                 /\ ~streams[id].cancelled => refunded[id] = 0
      <3>1. Settled(id) /\ Kept(id)
        BY DEF IInv, LockInv, BooksInv
      <3>2. streams[id] \in Stream /\ deposited[id] \in Nat /\ paid[id] \in Nat /\ refunded[id] \in Nat
        BY DEF IInv, VaultTypeOK
      <3>3. streams[id].funded \in Nat /\ streams[id].withdrawn \in Nat
        BY <3>2 DEF Stream, Uint128
      <3> QED
        BY <3>1, <3>2, <3>3 DEF Kept, Book, Settled
    <2>2. pots \in [StreamIds -> Int] /\ held \in [open -> Int] /\ open \in SUBSET StreamIds
      BY <2>1 DEF PotsOf
    <2>3. \A x \in StreamIds : IF x \in open THEN pots[x] = held[x] ELSE pots[x] = 0
      BY <2>1 DEF PotsOf
    <2>4. balance[t][Vault] >= SumFunction(pots)
      BY DEF BackedInv, PotsBacked
    <2> SUFFICES balance[t][Vault] >= SumFunction(held)
      OBVIOUS
    <2> HIDE DEF open, held, pots
    <2>5. SumFunction(pots) = SumFunction(held)
      BY <2>2, <2>3, StreamIdsFinite, SumWithoutZeros
    <2> QED
      BY <2>4, <2>5
  <1>2. IInv /\ BackedInv /\ [VaultNext]_vaultVars => BackedInv'
    BY NextBacked
  <1> QED
    BY <1>1, <1>2, InitBacked, Invariance, PTL DEF VaultSpec
==============================================================================
