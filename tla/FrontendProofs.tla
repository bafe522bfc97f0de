--------------------------- MODULE FrontendProofs ---------------------------
(***************************************************************************)
(* Proofs about the web pages, for every terms, pinned block, window, set  *)
(* of users and number of loads under way.                                 *)
(*                                                                         *)
(* What a page shows was read earlier.  The invariant says of every value  *)
(* a page holds how it may lag behind the chain: a record has the stream's *)
(* commitment and no more deposits than there are now, a figure that the   *)
(* enclave signed is of some earlier second, a search for reveals was made *)
(* at some earlier head.                                                   *)
(***************************************************************************)
EXTENDS Frontend, AmountLemmas

Record == {s \in LedgerStreams({Commitment}) : s.withdrawn <= s.funded}

ChainOK ==
    /\ clock \in Nat
    /\ chain = Absent \/ (chain \in Record /\ chain.withdrawn <= accruedAt(StreamTerms, clock))
    /\ reveals \subseteq 0..clock

\* s is a record of the stream that was read at some time.
Behind(s) == s \in Record /\ chain \in Record /\ s.funded <= chain.funded

\* auth, if the enclave signed it, is for a second that has come.
Earned(auth) ==
    /\ auth \in PageAuthorizations
    /\ auth.signed => auth.accrued <= accruedAt(StreamTerms, clock)

------------------------------------------------------------------------------
(* The dashboard *)

Answers ==
    [kind : {"refused", "httpError", "garbled"}]
    \cup [kind : {"granted"}, hash : {Commitment, "another hash"}, auth : PageAuthorizations]

DashStates ==
    [stream : Record \cup {None}, meta : BOOLEAN, sealed : BOOLEAN, chainError : BOOLEAN,
     terms : {None, Commitment}, auth : PageAuthorizations \cup {None}, failure : Failures,
     busy : BOOLEAN, withdrawTx : BOOLEAN]

DashTypeOK ==
    /\ step \in Steps
    /\ dash \in DashStates
    /\ answer \in Answers \cup {None}

Loading1 == step \in {"readStream", "readMeta", "readSealed"}

\* Which step the page is at, as its state shows it.
DashControl ==
    /\ dash.busy <=> step \in {"signing", "asking", "confirming", "mining"}
                     \/ (dash.withdrawTx /\ step # "idle")
    /\ request # None <=> step \in {"signing", "asking"}
    /\ Loading1 /\ ~dash.withdrawTx => ~dash.sealed /\ dash.terms = None
    /\ step \in {"signing", "asking", "confirming", "mining"} => dash.stream # None
    /\ step \in {"confirming", "mining"} => dash.auth # None
    /\ receipt = "success" => step = "mining"
    /\ dash.terms # None => dash.stream # None

\* How what the page holds lags behind the chain.
DashLag ==
    /\ dash.stream # None => Behind(dash.stream)
    /\ dash.auth # None => Earned(dash.auth)
    /\ answer # None /\ answer.kind = "granted" => Earned(answer.auth)
    /\ receipt = "success" => chain.withdrawn >= CapOf(dash.stream, dash.auth)

DashOK == DashTypeOK /\ DashControl /\ DashLag

------------------------------------------------------------------------------
(* The landing page *)

Loads ==
    {Free, [step |-> "stream"]}
    \cup [step : {"head"}, stream : Record \cup {Absent}]
    \cup [step : {"logs"}, stream : Record, head : Nat]

LandingOK ==
    /\ loads \in [Slots -> Loads]
    /\ \A slot \in Slots : loads[slot].step = "logs" => loads[slot].head <= clock
    /\ data # None => data.head \in 0..clock /\ RevealFound

------------------------------------------------------------------------------
(* The verify page *)

VerifyStates ==
    [step : {"stream", "meta", "done"}, stream : Record \cup {None}, error : BOOLEAN,
     termsHex : Texts, query : Texts, edited : BOOLEAN]

VerifyOK ==
    /\ verify \in VerifyStates
    /\ verify.query # "" => lookup = NoLookup /\ (~verify.edited => verify.termsHex = verify.query)
    /\ link # None =>
         /\ link.query \in {"terms", "other terms"}
         /\ \A s \in Record : link.verdict = verdict(s, link.query)

FInv == ChainOK /\ DashOK /\ LandingOK /\ VerifyOK

------------------------------------------------------------------------------
(* The chain only grows *)

ChainGrows ==
    /\ clock <= clock'
    /\ chain \in Record =>
         /\ chain' \in Record
         /\ chain.funded <= chain'.funded
         /\ chain.withdrawn <= chain'.withdrawn

LEMMA RecordFields ==
    ASSUME NEW s \in Record
    PROVE  /\ s \in LedgerStreams({Commitment})
           /\ s # Absent /\ s # None
           /\ s = [commitment |-> s.commitment, funded |-> s.funded,
                   withdrawn |-> s.withdrawn, cancelled |-> s.cancelled]
           /\ s.commitment = Commitment
           /\ s.funded \in Nat /\ s.withdrawn \in Nat /\ s.cancelled \in BOOLEAN
           /\ s.withdrawn <= s.funded
  <1>1. s \in LedgerStreams({Commitment}) /\ s.withdrawn <= s.funded
    BY DEF Record
  <1> QED
    BY <1>1, ChainViewAssumption DEF LedgerStreams

LEMMA RecordIntro ==
    ASSUME NEW f \in Nat, NEW w \in Nat, w <= f, NEW c \in BOOLEAN
    PROVE  [commitment |-> Commitment, funded |-> f, withdrawn |-> w, cancelled |-> c] \in Record
  BY DEF Record, LedgerStreams

\* What a withdrawal pays up to is a number within the deposits and the figure.
LEMMA CapBounds ==
    ASSUME NEW s, s.funded \in Nat, NEW auth, auth.accrued \in Nat
    PROVE  /\ CapOf(s, auth) \in Nat
           /\ CapOf(s, auth) <= s.funded
           /\ CapOf(s, auth) <= auth.accrued
  BY DEF CapOf

\* What the enclave signed at t is no more than what has accrued at any later time.
LEMMA SignedFigure ==
    ASSUME NEW now \in Nat, NEW t \in 0..now
    PROVE  /\ authorizedAt(StreamTerms, t) \in Authorizations
           /\ authorizedAt(StreamTerms, t).accrued <= accruedAt(StreamTerms, now)
           /\ SignedAt(t) \in PageAuthorizations
           /\ SignedAt(t).accrued <= accruedAt(StreamTerms, now)
  <1>1. accruedAt(StreamTerms, t) \in Nat /\ t \in Nat /\ t <= now
    BY AccruedBounded, ChainViewAssumption
  <1>2. accruedAt(StreamTerms, t) <= accruedAt(StreamTerms, now)
    BY <1>1, AccruedMonotone, ChainViewAssumption
  <1>3. /\ authorizedAt(StreamTerms, t) \in Authorizations
        /\ authorizedAt(StreamTerms, t).accrued = accruedAt(StreamTerms, t)
    BY <1>1, ProtocolAssumption DEF authorizedAt, Authorizations
  <1>4. /\ SignedAt(t) \in PageAuthorizations
        /\ SignedAt(t).accrued = accruedAt(StreamTerms, t)
    BY <1>3 DEF SignedAt, Authorizations, PageAuthorizations
  <1> QED
    BY <1>2, <1>3, <1>4

LEMMA WithdrawnRecord ==
    ASSUME NEW s \in Record, NEW auth, auth.accrued \in Nat, CapOf(s, auth) > s.withdrawn
    PROVE  /\ AfterWithdraw(s, auth) \in Record
           /\ AfterWithdraw(s, auth).funded = s.funded
           /\ AfterWithdraw(s, auth).withdrawn = CapOf(s, auth)
           /\ AfterWithdraw(s, auth).withdrawn <= auth.accrued
  <1>2. CapOf(s, auth) \in Nat /\ CapOf(s, auth) <= s.funded /\ CapOf(s, auth) <= auth.accrued
    BY CapBounds, RecordFields
  <1>3. AfterWithdraw(s, auth) =
          [commitment |-> Commitment, funded |-> s.funded,
           withdrawn |-> CapOf(s, auth), cancelled |-> s.cancelled]
    BY RecordFields DEF AfterWithdraw
  <1> QED
    BY <1>2, <1>3, RecordFields, RecordIntro

LEMMA CancelledRecord ==
    ASSUME NEW s \in Record, NEW auth \in Authorizations
    PROVE  /\ AfterCancel(s, auth) \in Record
           /\ AfterCancel(s, auth).funded = s.funded
           /\ AfterCancel(s, auth).withdrawn >= s.withdrawn
           /\ \/ AfterCancel(s, auth).withdrawn = s.withdrawn
              \/ AfterCancel(s, auth).withdrawn <= auth.accrued
  <1> DEFINE w == IF CapOf(s, auth) > s.withdrawn THEN CapOf(s, auth) ELSE s.withdrawn
  <1>1. auth.accrued \in Nat
    BY DEF Authorizations
  <1>2. CapOf(s, auth) \in Nat /\ CapOf(s, auth) <= s.funded /\ CapOf(s, auth) <= auth.accrued
    BY <1>1, CapBounds, RecordFields
  <1>3. w \in Nat /\ w <= s.funded /\ w >= s.withdrawn /\ (w = s.withdrawn \/ w <= auth.accrued)
    BY <1>2, RecordFields
  <1>4. AfterCancel(s, auth) = [s EXCEPT !.cancelled = TRUE, !.withdrawn = w]
    BY RecordFields DEF AfterCancel
  <1> HIDE DEF w
  <1>5. AfterCancel(s, auth) =
          [commitment |-> Commitment, funded |-> s.funded, withdrawn |-> w, cancelled |-> TRUE]
    BY <1>4, RecordFields
  <1>6. [commitment |-> Commitment, funded |-> s.funded, withdrawn |-> w,
         cancelled |-> TRUE] \in Record
    BY <1>3, RecordFields, RecordIntro
  <1> QED
    BY <1>3, <1>5, <1>6

\* Whoever acts on the stream, its record stays one, its figures do not fall and
\* what it has paid was earned.
LEMMA TransactionGrows ==
    ASSUME ChainOK, Transaction
    PROVE  ChainOK' /\ ChainGrows /\ UNCHANGED <<clock, reveals>>
  <1>0. UNCHANGED <<clock, reveals>>
    BY DEF Transaction, Create, Deposit, Withdrawal, Cancellation
  <1>1. /\ clock \in Nat /\ reveals \subseteq 0..clock /\ UNCHANGED <<clock, reveals>>
        /\ accruedAt(StreamTerms, clock) \in Nat
    BY <1>0, AccruedBounded, ChainViewAssumption DEF ChainOK
  <1>2. SUFFICES /\ chain' \in Record
                 /\ chain'.withdrawn <= accruedAt(StreamTerms, clock)
                 /\ chain \in Record => /\ chain.funded <= chain'.funded
                                        /\ chain.withdrawn <= chain'.withdrawn
    BY <1>1 DEF ChainOK, ChainGrows
  <1>3. CASE Create
    <2>1. chain = Absent /\ chain' = Opened(Commitment)
      BY <1>3 DEF Create
    <2>2. Opened(Commitment) \in Record /\ Opened(Commitment).withdrawn = 0
      BY DEF Opened, Record, LedgerStreams
    <2> QED
      BY <1>1, <2>1, <2>2, RecordFields
  <1>4. CASE \E n \in Amounts : Deposit(n)
    <2>1. PICK n \in Amounts : Deposit(n)
      BY <1>4
    <2>2. chain \in Record /\ n \in Nat /\ chain.withdrawn <= accruedAt(StreamTerms, clock)
      BY <2>1, ChainViewAssumption DEF Deposit, IsOpen, ChainOK
    <2>3. chain' = [commitment |-> Commitment, funded |-> chain.funded + n,
                    withdrawn |-> chain.withdrawn, cancelled |-> chain.cancelled]
      BY <2>1, <2>2, RecordFields DEF Deposit, AfterFund
    <2> QED
      BY <2>2, <2>3, RecordFields, RecordIntro
  <1>5. CASE \E t \in 0..clock : Withdrawal(t) \/ Cancellation(t)
    <2>1. PICK t \in 0..clock : Withdrawal(t) \/ Cancellation(t)
      BY <1>5
    <2> DEFINE auth == authorizedAt(StreamTerms, t)
    <2>2. chain \in Record /\ chain.withdrawn <= accruedAt(StreamTerms, clock)
      BY <2>1 DEF ChainOK, Withdrawal, Cancellation, CanWithdraw, CanCancel, IsOpen
    <2>3. /\ auth \in Authorizations /\ auth.accrued \in Nat
          /\ auth.accrued <= accruedAt(StreamTerms, clock)
      BY <1>1, SignedFigure DEF Authorizations
    <2>4. CASE Withdrawal(t)
      <3>1. CapOf(chain, auth) > chain.withdrawn /\ chain' = AfterWithdraw(chain, auth)
        BY <2>4 DEF Withdrawal, CanWithdraw
      <3> HIDE DEF auth
      <3> QED
        BY <3>1, <1>1, <2>2, <2>3, WithdrawnRecord, RecordFields
    <2>5. CASE Cancellation(t)
      <3>1. chain' = AfterCancel(chain, auth)
        BY <2>5 DEF Cancellation
      <3> HIDE DEF auth
      <3> QED
        BY <3>1, <1>1, <2>2, <2>3, CancelledRecord, RecordFields
    <2> QED
      BY <2>1, <2>4, <2>5
  <1> QED
    BY <1>3, <1>4, <1>5 DEF Transaction

LEMMA NextBlockGrows ==
    ASSUME ChainOK, NextBlock
    PROVE  ChainOK' /\ ChainGrows /\ UNCHANGED reveals
  <1>1. clock' = clock + 1 /\ UNCHANGED <<chain, reveals>> /\ clock \in Nat
    BY DEF NextBlock, ChainOK
  <1>2. /\ accruedAt(StreamTerms, clock) \in Nat /\ accruedAt(StreamTerms, clock') \in Nat
        /\ accruedAt(StreamTerms, clock) <= accruedAt(StreamTerms, clock')
    BY <1>1, AccruedMonotone, AccruedBounded, ChainViewAssumption
  <1> QED
    BY <1>1, <1>2, RecordFields DEF ChainOK, ChainGrows

LEMMA RevealGrows ==
    ASSUME ChainOK, Reveal
    PROVE  ChainOK' /\ ChainGrows /\ reveals' = reveals \cup {clock}
  <1>1. reveals' = reveals \cup {clock} /\ UNCHANGED <<chain, clock>> /\ clock \in Nat
    BY DEF Reveal, ChainOK
  <1> QED
    BY <1>1, RecordFields DEF ChainOK, ChainGrows

LEMMA ChainKept ==
    ASSUME ChainOK, UNCHANGED <<chain, clock, reveals>>
    PROVE  ChainOK' /\ ChainGrows
  BY RecordFields DEF ChainOK, ChainGrows

------------------------------------------------------------------------------
(* The dashboard *)

LEMMA DashFields ==
    ASSUME DashOK
    PROVE  /\ step \in Steps
           /\ dash \in DashStates
           /\ answer \in Answers \cup {None}
           /\ dash.stream \in Record \cup {None}
           /\ dash.auth \in PageAuthorizations \cup {None}
           /\ dash.busy \in BOOLEAN /\ dash.withdrawTx \in BOOLEAN /\ dash.sealed \in BOOLEAN
  BY DEF DashOK, DashTypeOK, DashStates

LEMMA DashKept ==
    ASSUME ChainOK, ChainGrows, ChainOK', DashOK, UNCHANGED <<dash, step, request, answer, receipt>>
    PROVE  DashOK'
  <1>1. DashTypeOK' /\ DashControl'
    BY DEF DashOK, DashTypeOK, DashControl, Loading1
  <1>2. ASSUME dash.stream # None PROVE Behind(dash.stream)'
    <2>1. dash.stream \in Record /\ chain \in Record /\ dash.stream.funded <= chain.funded
      BY <1>2 DEF DashOK, DashLag, Behind
    <2>2. chain' \in Record /\ chain.funded <= chain'.funded
      BY <2>1 DEF ChainGrows
    <2> QED
      BY <2>1, <2>2, RecordFields DEF Behind
  <1>3. accruedAt(StreamTerms, clock) <= accruedAt(StreamTerms, clock')
    BY AccruedMonotone, ChainViewAssumption DEF ChainOK, ChainGrows
  <1>4. ASSUME NEW auth, Earned(auth) PROVE Earned(auth)'
    <2>1. /\ auth.accrued \in Nat
          /\ accruedAt(StreamTerms, clock) \in Nat
          /\ accruedAt(StreamTerms, clock') \in Nat
      BY <1>4, AccruedBounded, ChainViewAssumption DEF Earned, PageAuthorizations, ChainOK
    <2> QED
      BY <1>3, <1>4, <2>1 DEF Earned
  <1>5. ASSUME receipt = "success" PROVE chain'.withdrawn >= CapOf(dash.stream, dash.auth)
    <2>1. dash.stream # None /\ dash.auth # None
      BY <1>5 DEF DashOK, DashControl
    <2>2. /\ chain \in Record
          /\ dash.stream \in Record
          /\ dash.auth \in PageAuthorizations
          /\ chain.withdrawn >= CapOf(dash.stream, dash.auth)
      BY <1>5, <2>1 DEF DashOK, DashLag, Behind, Earned
    <2>3. CapOf(dash.stream, dash.auth) \in Nat
      BY <2>2, CapBounds, RecordFields DEF PageAuthorizations
    <2> QED
      BY <2>2, <2>3, RecordFields DEF ChainGrows
  <1>6. DashLag'
    BY <1>2, <1>4, <1>5 DEF DashOK, DashLag
  <1> QED
    BY <1>1, <1>6 DEF DashOK

\* An operation that ends in a failure, or gives up loading.
LEMMA FailureKept ==
    ASSUME DashOK, UNCHANGED <<chain, clock>>, step' = "idle",
           NEW f \in Failures, NEW e \in BOOLEAN, NEW x \in BOOLEAN,
           dash' = [dash EXCEPT !.failure = f, !.chainError = e, !.sealed = x, !.busy = FALSE],
           request' = None, answer' \in {answer, None}, receipt' # "success"
    PROVE  DashOK'
  <1>1. dash' \in DashStates
    BY DashFields DEF DashStates
  <1>2. /\ dash'.busy = FALSE
        /\ dash'.stream = dash.stream
        /\ dash'.auth = dash.auth
        /\ dash'.terms = dash.terms
        /\ dash'.withdrawTx = dash.withdrawTx
    BY DashFields DEF DashStates
  <1>3. DashTypeOK'
    BY <1>1, DashFields DEF DashTypeOK, Steps
  <1>4. DashControl'
    BY <1>2 DEF DashOK, DashControl, Loading1
  <1>5. DashLag'
    BY <1>2 DEF DashOK, DashLag, Behind, Earned
  <1> QED
    BY <1>3, <1>4, <1>5 DEF DashOK

\* The state of the page with the fields that an ending operation may set.
Ended(f, e, x) == [dash EXCEPT !.failure = f, !.chainError = e, !.sealed = x, !.busy = FALSE]

LEMMA EndedFields ==
    ASSUME DashOK
    PROVE  /\ dash.failure \in Failures /\ dash.chainError \in BOOLEAN /\ dash.sealed \in BOOLEAN
           /\ \A f \in Failures :
                [[dash EXCEPT !.failure = f] EXCEPT !.busy = FALSE]
                  = Ended(f, dash.chainError, dash.sealed)
           /\ \A e \in BOOLEAN :
                [[dash EXCEPT !.chainError = e] EXCEPT !.busy = FALSE]
                  = Ended(dash.failure, e, dash.sealed)
           /\ \A e, x \in BOOLEAN :
                [[dash EXCEPT !.sealed = x, !.chainError = e] EXCEPT !.busy = FALSE]
                  = Ended(dash.failure, e, x)
  <1>1. /\ dash \in DashStates
        /\ dash.failure \in Failures /\ dash.chainError \in BOOLEAN /\ dash.sealed \in BOOLEAN
    BY DashFields DEF DashStates
  <1>2. \A f \in Failures : [[dash EXCEPT !.failure = f] EXCEPT !.busy = FALSE]
                              = Ended(f, dash.chainError, dash.sealed)
    BY <1>1 DEF DashStates, Ended
  <1>3. \A e \in BOOLEAN : [[dash EXCEPT !.chainError = e] EXCEPT !.busy = FALSE]
                              = Ended(dash.failure, e, dash.sealed)
    BY <1>1 DEF DashStates, Ended
  <1>4. \A e, x \in BOOLEAN :
          [[dash EXCEPT !.sealed = x, !.chainError = e] EXCEPT !.busy = FALSE]
            = Ended(dash.failure, e, x)
    BY <1>1 DEF DashStates, Ended
  <1> QED
    BY <1>1, <1>2, <1>3, <1>4

LEMMA NoneElse ==
    /\ None # "success"
    /\ \A s \in Record : s # None
    /\ \A a \in PageAuthorizations : a # None
  BY ChainViewAssumption, DashboardAssumption, RecordFields

\* Every way in which an operation of the dashboard ends without a result.
Ends ==
    \/ NotIndexed \/ LoadFails \/ ReadSealed \/ (ReadStream /\ chain = Absent)
    \/ WalletRejects \/ (Receive /\ ~(answer.kind = "granted" /\ TermsMatch)) \/ TimesOut
    \/ NotInAbi \/ Reverted \/ ReceiptLost

LEMMA EndsAre ==
    ASSUME DashOK, Ends
    PROVE  \E f \in Failures, e \in BOOLEAN, x \in BOOLEAN : dash' = Ended(f, e, x)
  <1>1. CASE WalletRejects \/ NotInAbi \/ Reverted \/ ReceiptLost \/ TimesOut
    <2>1. \E f \in Failures : dash' = [[dash EXCEPT !.failure = f] EXCEPT !.busy = FALSE]
      BY <1>1 DEF WalletRejects, NotInAbi, Reverted, ReceiptLost, TimesOut, Finish, Failures
    <2> QED
      BY <2>1, EndedFields
  <1>2. CASE Receive /\ ~(answer.kind = "granted" /\ TermsMatch)
    <2>1. answer \in Answers
      BY <1>2, DashFields DEF Receive
    <2>2. answer.kind # "granted" => FailureKind \in Failures
      BY <2>1 DEF FailureKind, Failures, Answers
    <2>3. \E f \in Failures : dash' = [[dash EXCEPT !.failure = f] EXCEPT !.busy = FALSE]
      BY <1>2, <2>2 DEF Receive, Finish, Failures
    <2> QED
      BY <2>3, EndedFields
  <1>3. CASE LoadFails \/ (ReadStream /\ chain = Absent)
    <2>1. dash' = [[dash EXCEPT !.chainError = TRUE] EXCEPT !.busy = FALSE]
      BY <1>3 DEF LoadFails, ReadStream, Finish
    <2> QED
      BY <2>1, EndedFields
  <1>4. CASE NotIndexed \/ ReadSealed
    <2>1. \E x \in BOOLEAN :
            dash' = [[dash EXCEPT !.sealed = x, !.chainError = FALSE] EXCEPT !.busy = FALSE]
      BY <1>4 DEF NotIndexed, ReadSealed, Finish
    <2> QED
      BY <2>1, EndedFields
  <1> QED
    BY <1>1, <1>2, <1>3, <1>4 DEF Ends

LEMMA EndsKept ==
    ASSUME DashOK, Ends
    PROVE  DashOK'
  <1>1. UNCHANGED <<chain, clock>> /\ step' = "idle"
    BY DEF Ends, NotIndexed, LoadFails, ReadSealed, ReadStream, WalletRejects, Receive,
           TimesOut, NotInAbi, Reverted, ReceiptLost, Finish, Fault, chainVars
  <1>2. answer' \in {answer, None}
    BY DEF Ends, NotIndexed, LoadFails, ReadSealed, ReadStream, WalletRejects, Receive,
           TimesOut, NotInAbi, Reverted, ReceiptLost, Waiting
  <1>3. request' = None
    <2>1. CASE WalletRejects \/ Receive \/ TimesOut
      BY <2>1 DEF WalletRejects, Receive, TimesOut
    <2>2. CASE NotIndexed \/ LoadFails \/ ReadSealed \/ ReadStream \/ NotInAbi \/ Reverted
               \/ ReceiptLost
      <3>1. request' = request /\ step \notin {"signing", "asking"}
        BY <2>2 DEF NotIndexed, LoadFails, ReadSealed, ReadStream, NotInAbi, Reverted,
                    ReceiptLost, Waiting, GivesUp
      <3> QED
        BY <3>1 DEF DashOK, DashControl
    <2> QED
      BY <2>1, <2>2 DEF Ends
  <1>4. receipt' # "success"
    <2>1. CASE Reverted \/ ReceiptLost
      BY <2>1, NoneElse DEF Reverted, ReceiptLost
    <2>2. CASE NotIndexed \/ LoadFails \/ ReadSealed \/ ReadStream \/ NotInAbi \/ WalletRejects
               \/ Receive \/ TimesOut
      <3>1. receipt' = receipt /\ step # "mining"
        BY <2>2 DEF NotIndexed, LoadFails, ReadSealed, ReadStream, NotInAbi, WalletRejects,
                    Receive, TimesOut, Waiting, GivesUp
      <3> QED
        BY <3>1 DEF DashOK, DashControl
    <2> QED
      BY <2>1, <2>2 DEF Ends
  <1>6. PICK f \in Failures, e \in BOOLEAN, x \in BOOLEAN : dash' = Ended(f, e, x)
    BY EndsAre
  <1> QED
    BY <1>1, <1>2, <1>3, <1>4, <1>6, FailureKept DEF Ended

LEMMA ReadStreamKept ==
    ASSUME ChainOK, DashOK, ReadStream, chain # Absent
    PROVE  DashOK'
  <1>1. /\ step = "readStream" /\ step' = "readMeta"
        /\ dash' = [dash EXCEPT !.stream = chain]
        /\ UNCHANGED <<chain, clock, request, answer, receipt>>
    BY DEF ReadStream, Waiting, chainVars
  <1>2. chain \in Record /\ chain # None
    BY NoneElse DEF ChainOK
  <1>3. dash' \in DashStates
    BY <1>1, <1>2, DashFields DEF DashStates
  <1>4. /\ dash'.stream = chain
        /\ dash'.auth = dash.auth /\ dash'.terms = dash.terms /\ dash'.sealed = dash.sealed
        /\ dash'.busy = dash.busy /\ dash'.withdrawTx = dash.withdrawTx
    BY <1>1, DashFields DEF DashStates
  <1>5. DashTypeOK'
    BY <1>1, <1>3, DashFields DEF DashTypeOK, Steps
  <1>6. DashControl' /\ receipt # "success"
    BY <1>1, <1>2, <1>4 DEF DashOK, DashControl, Loading1
  <1>7. DashLag'
    BY <1>1, <1>2, <1>4, <1>6, RecordFields DEF DashOK, DashLag, Behind, Earned
  <1> QED
    BY <1>5, <1>6, <1>7 DEF DashOK

LEMMA ReadMetaKept ==
    ASSUME DashOK, ReadMeta
    PROVE  DashOK'
  <1>1. /\ step = "readMeta" /\ step' = "readSealed"
        /\ dash' = [dash EXCEPT !.meta = TRUE]
        /\ UNCHANGED <<chain, clock, request, answer, receipt>>
    BY DEF ReadMeta, Waiting, chainVars
  <1>2. dash' \in DashStates
    BY <1>1, DashFields DEF DashStates
  <1>3. /\ dash'.stream = dash.stream
        /\ dash'.auth = dash.auth /\ dash'.terms = dash.terms /\ dash'.sealed = dash.sealed
        /\ dash'.busy = dash.busy /\ dash'.withdrawTx = dash.withdrawTx
    BY <1>1, DashFields DEF DashStates
  <1>4. DashTypeOK'
    BY <1>1, <1>2, DashFields DEF DashTypeOK, Steps
  <1>5. DashControl'
    BY <1>1, <1>3 DEF DashOK, DashControl, Loading1
  <1>6. DashLag'
    BY <1>1, <1>3 DEF DashOK, DashLag, Behind, Earned
  <1> QED
    BY <1>4, <1>5, <1>6 DEF DashOK

\* Pressing a button: it is there only while nothing is under way.
LEMMA ButtonsWhenIdle ==
    ASSUME DashOK, CanUnlock \/ CanSubmit
    PROVE  step = "idle" /\ dash.stream # None /\ receipt # "success"
  <1>1. ~dash.busy /\ dash.stream # None /\ (dash.sealed \/ dash.terms # None)
    BY DEF CanUnlock, CanSubmit, Rendered
  <1>2. step \notin {"signing", "asking", "confirming", "mining"} /\ ~Loading1
    BY <1>1 DEF DashOK, DashControl, Loading1
  <1> QED
    BY <1>1, <1>2, DashFields DEF DashOK, DashControl, Steps, Loading1

LEMMA UnlockKept ==
    ASSUME ChainOK, DashOK, Unlock
    PROVE  DashOK'
  <1>1. /\ CanUnlock /\ step' = "signing"
        /\ dash' = [dash EXCEPT !.busy = TRUE, !.failure = None]
        /\ request' = [issuedAt |-> clock, signer |-> account]
        /\ UNCHANGED <<chain, clock, answer, receipt>>
    BY DEF Unlock, issuedAt, chainVars
  <1>2. step = "idle" /\ dash.stream # None /\ receipt # "success"
    BY <1>1, ButtonsWhenIdle
  <1>3. request' # None
    <2>1. account \in Users
      BY <1>1, DashboardAssumption DEF CanUnlock
    <2>2. request' \in [issuedAt : Nat, signer : Users]
      BY <1>1, <2>1 DEF ChainOK
    <2> QED
      BY <2>2, DashboardAssumption
  <1>4. dash' \in DashStates
    BY <1>1, DashFields DEF DashStates, Failures
  <1>5. /\ dash'.stream = dash.stream
        /\ dash'.auth = dash.auth /\ dash'.terms = dash.terms /\ dash'.sealed = dash.sealed
        /\ dash'.busy = TRUE /\ dash'.withdrawTx = dash.withdrawTx
    BY <1>1, DashFields DEF DashStates
  <1>6. DashTypeOK'
    BY <1>1, <1>4, DashFields DEF DashTypeOK, Steps
  <1>7. DashControl'
    BY <1>1, <1>2, <1>3, <1>5 DEF DashOK, DashControl, Loading1
  <1>8. DashLag'
    BY <1>1, <1>2, <1>5 DEF DashOK, DashLag, Behind, Earned
  <1> QED
    BY <1>6, <1>7, <1>8 DEF DashOK

LEMMA WithdrawKept ==
    ASSUME DashOK, Withdraw
    PROVE  DashOK'
  <1>1. /\ CanSubmit /\ step' = "confirming"
        /\ dash' = [dash EXCEPT !.busy = TRUE, !.failure = None]
        /\ UNCHANGED <<chain, clock, request, answer, receipt>>
    BY DEF Withdraw, Waiting, chainVars
  <1>2. step = "idle" /\ dash.stream # None /\ receipt # "success" /\ dash.auth # None
    BY <1>1, ButtonsWhenIdle DEF CanSubmit
  <1>4. dash' \in DashStates
    BY <1>1, DashFields DEF DashStates, Failures
  <1>5. /\ dash'.stream = dash.stream
        /\ dash'.auth = dash.auth /\ dash'.terms = dash.terms /\ dash'.sealed = dash.sealed
        /\ dash'.busy = TRUE /\ dash'.withdrawTx = dash.withdrawTx
    BY <1>1, DashFields DEF DashStates
  <1>6. DashTypeOK'
    BY <1>1, <1>4, DashFields DEF DashTypeOK, Steps
  <1>7. DashControl'
    BY <1>1, <1>2, <1>5 DEF DashOK, DashControl, Loading1
  <1>8. DashLag'
    BY <1>1, <1>2, <1>5 DEF DashOK, DashLag, Behind, Earned
  <1> QED
    BY <1>6, <1>7, <1>8 DEF DashOK

\* Steps that leave the state of the page and the chain alone.
LEMMA PromptsKept ==
    ASSUME DashOK, SignMessage \/ Submit \/ SwitchAccount
    PROVE  DashOK'
  <1>1. /\ UNCHANGED <<chain, clock, dash, request, answer, receipt>>
        /\ \/ step = "signing" /\ step' = "asking"
           \/ step = "confirming" /\ step' = "mining"
           \/ step' = step
    BY DEF SignMessage, Submit, SwitchAccount, Waiting, chainVars
  <1>2. DashTypeOK'
    BY <1>1, DashFields DEF DashTypeOK, Steps
  <1>3. DashControl'
    BY <1>1 DEF DashOK, DashControl, Loading1
  <1>4. DashLag'
    BY <1>1 DEF DashOK, DashLag, Behind, Earned
  <1> QED
    BY <1>2, <1>3, <1>4 DEF DashOK

\* Whoever answers, an authorization in the answer that the enclave signed is for a
\* second that has come.
LEMMA AnswersKept ==
    ASSUME ChainOK, DashOK, EnclaveAnswers \/ OtherAnswers
    PROVE  DashOK'
  <1>1. UNCHANGED <<chain, clock, dash, step, request, receipt>> /\ step = "asking"
    BY DEF EnclaveAnswers, OtherAnswers, Fault, chainVars
  <1>2. dash.stream.commitment = Commitment
    BY <1>1, DashFields, RecordFields DEF DashOK, DashControl
  <1>3. /\ \A t \in 0..clock : SignedAt(t) \in PageAuthorizations /\ Earned(SignedAt(t))
        /\ \A auth \in [accrued : Figures, deadline : Figures, signed : {FALSE}] :
             auth \in PageAuthorizations /\ Earned(auth)
    <2>1. \A t \in 0..clock : SignedAt(t) \in PageAuthorizations /\ Earned(SignedAt(t))
      BY SignedFigure DEF Earned, ChainOK
    <2>2. \A auth \in [accrued : Figures, deadline : Figures, signed : {FALSE}] :
            auth \in PageAuthorizations /\ auth.signed = FALSE
      BY DashboardAssumption DEF PageAuthorizations
    <2> QED
      BY <2>1, <2>2 DEF Earned
  <1>4. \/ \E k \in {"refused", "httpError", "garbled"} : answer' = [kind |-> k]
        \/ \E h \in {Commitment, "another hash"}, auth \in PageAuthorizations :
              Earned(auth) /\ answer' = [kind |-> "granted", hash |-> h, auth |-> auth]
    <2>1. CASE EnclaveAnswers
      <3>1. clock \in 0..clock
        BY DEF ChainOK
      <3>2. SignedAt(clock) \in PageAuthorizations /\ Earned(SignedAt(clock))
        BY <1>3, <3>1
      <3> QED
        BY <2>1, <1>2, <3>2 DEF EnclaveAnswers
    <2>2. CASE OtherAnswers
      BY <2>2, <1>2, <1>3 DEF OtherAnswers
    <2> QED
      BY <2>1, <2>2
  <1>5. answer' \in Answers /\ (answer'.kind = "granted" => Earned(answer'.auth))
    <2>2. CASE \E k \in {"refused", "httpError", "garbled"} : answer' = [kind |-> k]
      <3>1. PICK k \in {"refused", "httpError", "garbled"} : answer' = [kind |-> k]
        BY <2>2
      <3>2. [kind |-> k] \in [kind : {"refused", "httpError", "garbled"}] /\ answer'.kind = k
        BY <3>1
      <3> QED
        BY <3>1, <3>2 DEF Answers
    <2>3. CASE \E h \in {Commitment, "another hash"}, auth \in PageAuthorizations :
                 Earned(auth) /\ answer' = [kind |-> "granted", hash |-> h, auth |-> auth]
      <3>1. PICK h \in {Commitment, "another hash"}, auth \in PageAuthorizations :
                   Earned(auth) /\ answer' = [kind |-> "granted", hash |-> h, auth |-> auth]
        BY <2>3
      <3>2. /\ [kind |-> "granted", hash |-> h, auth |-> auth] \in
                 [kind : {"granted"}, hash : {Commitment, "another hash"},
                  auth : PageAuthorizations]
            /\ answer'.auth = auth
        BY <3>1
      <3> QED
        BY <3>1, <3>2 DEF Answers
    <2> QED
      BY <1>4, <2>2, <2>3
  <1>6. DashTypeOK'
    BY <1>1, <1>5, DashFields DEF DashTypeOK
  <1>7. DashControl'
    BY <1>1 DEF DashOK, DashControl, Loading1
  <1>8. DashLag'
    BY <1>1, <1>5 DEF DashOK, DashLag, Behind, Earned
  <1> QED
    BY <1>6, <1>7, <1>8 DEF DashOK

LEMMA ReceiveKept ==
    ASSUME DashOK, Receive, answer.kind = "granted", TermsMatch
    PROVE  DashOK'
  <1>1. /\ step = "asking" /\ step' = "idle" /\ answer # None
        /\ dash' = [[dash EXCEPT !.terms = answer.hash, !.auth = answer.auth] EXCEPT !.busy = FALSE]
        /\ request' = None /\ answer' = None
        /\ UNCHANGED <<chain, clock, receipt>>
    BY DEF Receive, Finish, chainVars
  <1>2. dash.stream # None /\ receipt # "success"
    BY <1>1 DEF DashOK, DashControl
  <1>3. answer.hash = Commitment
    BY <1>2, DashFields, RecordFields DEF TermsMatch
  <1>4. Earned(answer.auth) /\ answer.auth \in PageAuthorizations
    BY <1>1 DEF DashOK, DashLag, Earned
  <1>5. dash' \in DashStates
    BY <1>1, <1>3, <1>4, DashFields DEF DashStates
  <1>6. /\ dash'.stream = dash.stream /\ dash'.auth = answer.auth
        /\ dash'.busy = FALSE /\ dash'.withdrawTx = dash.withdrawTx
    BY <1>1, DashFields DEF DashStates
  <1>7. DashTypeOK'
    BY <1>1, <1>5 DEF DashTypeOK, Steps
  <1>8. DashControl'
    BY <1>1, <1>2, <1>6 DEF DashOK, DashControl, Loading1
  <1>9. DashLag'
    BY <1>1, <1>2, <1>4, <1>6 DEF DashOK, DashLag, Behind, Earned
  <1> QED
    BY <1>7, <1>8, <1>9 DEF DashOK

LEMMA MinedKept ==
    ASSUME ChainOK, DashOK, Mined
    PROVE  ChainOK' /\ ChainGrows /\ UNCHANGED reveals /\ DashOK'
  <1>1. /\ step = "mining"
        /\ UNCHANGED <<clock, reveals, dash, step, request, answer>>
    BY DEF Mined
  <1>2. /\ dash.auth \in PageAuthorizations /\ dash.stream \in Record /\ chain \in Record
        /\ dash.stream.funded <= chain.funded
    BY <1>1 DEF DashOK, DashControl, DashLag, Behind, Earned
  <1>3. CASE FromTeeSigner(dash.auth) /\ CanWithdraw(chain, dash.auth, clock)
    <2>0. /\ dash.auth.accrued \in Nat /\ accruedAt(StreamTerms, clock) \in Nat
          /\ dash.auth.accrued <= accruedAt(StreamTerms, clock)
      <3>1. dash.auth.accrued <= accruedAt(StreamTerms, clock)
        BY <1>1, <1>3 DEF FromTeeSigner, DashOK, DashControl, DashLag, Earned
      <3>2. dash.auth.accrued \in Nat /\ accruedAt(StreamTerms, clock) \in Nat
        BY <1>2, AccruedBounded, ChainViewAssumption DEF PageAuthorizations, ChainOK
      <3> QED
        BY <3>1, <3>2
    <2>1. chain' = AfterWithdraw(chain, dash.auth) /\ CapOf(chain, dash.auth) > chain.withdrawn
      BY <1>3 DEF Mined, CanWithdraw
    <2>2. /\ chain' \in Record
          /\ chain'.funded = chain.funded
          /\ chain'.withdrawn = CapOf(chain, dash.auth)
      BY <1>2, <2>0, <2>1, WithdrawnRecord
    <2>3. CapOf(chain, dash.auth) \in Nat /\ CapOf(chain, dash.auth) <= dash.auth.accrued
      BY <1>2, <2>0, CapBounds, RecordFields
    <2>4. ChainOK' /\ ChainGrows
      BY <1>1, <1>2, <2>0, <2>1, <2>2, <2>3, RecordFields DEF ChainOK, ChainGrows
    <2>5. CapOf(chain, dash.auth) >= CapOf(dash.stream, dash.auth)
      BY <1>2, <2>0, RecordFields DEF CapOf
    <2>6. DashTypeOK' /\ DashControl'
      BY <1>1 DEF DashOK, DashTypeOK, DashControl, Loading1
    <2>7. DashLag'
      <3>1. Behind(dash.stream)'
        BY <1>1, <1>2, <2>2 DEF Behind
      <3> QED
        BY <1>1, <2>2, <2>5, <3>1 DEF DashOK, DashLag, Earned
    <2> QED
      BY <1>1, <2>4, <2>6, <2>7 DEF DashOK
  <1>4. CASE ~(FromTeeSigner(dash.auth) /\ CanWithdraw(chain, dash.auth, clock))
    <2>1. UNCHANGED chain /\ receipt' = "reverted"
      BY <1>4 DEF Mined
    <2>2. ChainOK' /\ ChainGrows
      BY <1>1, <2>1, ChainKept
    <2>3. DashTypeOK' /\ DashControl'
      BY <1>1, <2>1 DEF DashOK, DashTypeOK, DashControl, Loading1
    <2>4. DashLag'
      BY <1>1, <2>1 DEF DashOK, DashLag, Behind, Earned
    <2> QED
      BY <1>1, <2>2, <2>3, <2>4 DEF DashOK
  <1> QED
    BY <1>3, <1>4

LEMMA ConfirmedKept ==
    ASSUME DashOK, Confirmed
    PROVE  DashOK'
  <1>1. /\ step = "mining" /\ step' = "readStream" /\ receipt' = None
        /\ dash' = [dash EXCEPT !.withdrawTx = TRUE, !.auth = None]
        /\ UNCHANGED <<chain, clock, request, answer>>
    BY DEF Confirmed, chainVars
  <1>2. dash.busy
    BY <1>1 DEF DashOK, DashControl
  <1>4. dash' \in DashStates
    BY <1>1, DashFields DEF DashStates
  <1>5. /\ dash'.stream = dash.stream /\ dash'.auth = None /\ dash'.terms = dash.terms
        /\ dash'.busy = dash.busy /\ dash'.withdrawTx = TRUE
    BY <1>1, DashFields DEF DashStates
  <1>6. DashTypeOK'
    BY <1>1, <1>4, DashFields DEF DashTypeOK, Steps
  <1>7. DashControl'
    BY <1>1, <1>2, <1>5, NoneElse DEF DashOK, DashControl, Loading1
  <1>8. DashLag'
    BY <1>1, <1>5, NoneElse DEF DashOK, DashLag, Behind, Earned
  <1> QED
    BY <1>6, <1>7, <1>8 DEF DashOK

LEMMA FreshOK ==
    ASSUME dash = FreshPage, step = "readStream", request = None, answer = None, receipt = None
    PROVE  DashOK
  <1>1. DashTypeOK
    BY DEF DashTypeOK, FreshPage, DashStates, Steps, Failures
  <1>2. DashControl
    BY NoneElse DEF DashControl, FreshPage, Loading1
  <1>3. DashLag
    BY NoneElse DEF DashLag, FreshPage
  <1> QED
    BY <1>1, <1>2, <1>3 DEF DashOK

LEMMA RestartKept ==
    ASSUME Restart
    PROVE  DashOK'
  <1>1. DashTypeOK'
    BY DEF Restart, DashTypeOK, FreshPage, DashStates, Steps, Failures
  <1>2. DashControl'
    BY NoneElse DEF Restart, DashControl, FreshPage, Loading1
  <1>3. DashLag'
    BY NoneElse DEF Restart, DashLag, FreshPage
  <1> QED
    BY <1>1, <1>2, <1>3 DEF DashOK

\* Every step of the dashboard keeps the invariant of the dashboard.
LEMMA DashStepKept ==
    ASSUME ChainOK, DashOK, DashStep
    PROVE  ChainOK' /\ ChainGrows /\ UNCHANGED reveals /\ DashOK'
  <1>1. CASE Mined
    BY <1>1, MinedKept
  <1>2. ASSUME ~Mined PROVE UNCHANGED <<chain, clock, reveals>>
    BY <1>2 DEF DashStep, SwitchAccount, ReadStream, ReadMeta, ReadSealed, NotIndexed, LoadFails,
         Unlock, SignMessage, WalletRejects, EnclaveAnswers, OtherAnswers, Receive, TimesOut,
         Withdraw, NotInAbi, Submit, Confirmed, Reverted, ReceiptLost, Reload, ReloadAnyway,
         Fault, chainVars
  <1>3. ASSUME ~Mined PROVE DashOK'
    <2>1. CASE Ends
      BY <2>1, EndsKept
    <2>2. CASE ReadStream /\ chain # Absent
      BY <2>2, ReadStreamKept
    <2>3. CASE Receive /\ answer.kind = "granted" /\ TermsMatch
      BY <2>3, ReceiveKept
    <2>4. CASE ReadMeta
      BY <2>4, ReadMetaKept
    <2>5. CASE Unlock \/ Withdraw
      BY <2>5, UnlockKept, WithdrawKept
    <2>6. CASE SignMessage \/ Submit \/ SwitchAccount
      BY <2>6, PromptsKept
    <2>7. CASE EnclaveAnswers \/ OtherAnswers
      BY <2>7, AnswersKept
    <2>8. CASE Confirmed
      BY <2>8, ConfirmedKept
    <2>9. CASE Reload \/ ReloadAnyway
      BY <2>9, RestartKept DEF Reload, ReloadAnyway
    <2> QED
      BY <1>3, <2>1, <2>2, <2>3, <2>4, <2>5, <2>6, <2>7, <2>8, <2>9 DEF DashStep, Ends
  <1> QED
    BY <1>1, <1>2, <1>3, ChainKept

------------------------------------------------------------------------------
(* The landing page *)

LEMMA LandingKept ==
    ASSUME ChainOK, ChainOK', LandingOK, clock <= clock', UNCHANGED landingVars,
           UNCHANGED reveals \/ reveals' = reveals \cup {clock}
    PROVE  LandingOK'
  <1>1. UNCHANGED <<data, error, loads>> /\ clock \in Nat /\ clock' \in Nat
    BY DEF landingVars, ChainOK
  <1>2. \A slot \in Slots : loads[slot].step = "logs" => loads[slot].head <= clock'
    <2> SUFFICES ASSUME NEW slot \in Slots, loads[slot].step = "logs"
                 PROVE  loads[slot].head <= clock'
      OBVIOUS
    <2>1. loads[slot] \in Loads /\ loads[slot].head <= clock
      BY DEF LandingOK
    <2>2. loads[slot].head \in Nat
      BY <2>1 DEF Loads, Free
    <2> QED
      BY <1>1, <2>1, <2>2
  <1>3. ASSUME data # None PROVE data.head \in 0..clock' /\ RevealFound'
    <2>1. data.head \in 0..clock /\ RevealFound
      BY <1>3 DEF LandingOK
    <2>2. data.head > DEMO_REVEAL_BLOCK /\ DEMO_REVEAL_BLOCK \in reveals'
            => DEMO_REVEAL_BLOCK \in reveals
      BY <1>1, <2>1, ChainViewAssumption
    <2> QED
      BY <1>1, <2>1, <2>2 DEF RevealFound
  <1> QED
    BY <1>1, <1>2, <1>3 DEF LandingOK

\* The window that is searched holds the pinned block once the head has passed it.
LEMMA WindowHoldsBlock ==
    ASSUME NEW head \in Nat, DEMO_REVEAL_BLOCK > 0, DEMO_REVEAL_BLOCK <= head
    PROVE  DEMO_REVEAL_BLOCK \in fromBlock(head)..toBlock(head)
  <1>1. DEMO_REVEAL_BLOCK \in Nat /\ Span \in Nat
    BY ChainViewAssumption
  <1>2. anchor(head) = DEMO_REVEAL_BLOCK
    BY DEF anchor
  <1> QED
    BY <1>1, <1>2 DEF fromBlock, toBlock

\* A load moves on to its next await, or ends without a result.
LEMMA LoadKept ==
    ASSUME ChainOK, LandingOK, NEW slot \in Slots,
           Loading(slot) \/ LoadErrs(slot), ~LoadLogs(slot)
    PROVE  LandingOK'
  <1>1. UNCHANGED <<chain, clock, reveals, data>>
    BY DEF Loading, StartLoad, LoadStream, LoadHead, LoadRefused, LoadErrs, Fault, chainVars
  <1>2. PICK load : loads' = [loads EXCEPT ![slot] = load] /\ load \in Loads
                    /\ (load.step = "logs" => load.head <= clock)
    <2>1. CASE StartLoad(slot)
      <3> DEFINE load == [step |-> "stream"]
      <3>1. load \in Loads /\ load.step # "logs"
        BY DEF Loads
      <3>2. loads' = [loads EXCEPT ![slot] = load]
        BY <2>1 DEF StartLoad
      <3> HIDE DEF load
      <3> QED
        BY <3>1, <3>2
    <2>2. CASE LoadStream(slot)
      <3> DEFINE load == [step |-> "head", stream |-> chain]
      <3>1. load \in Loads /\ load.step # "logs"
        BY DEF Loads, ChainOK
      <3>2. loads' = [loads EXCEPT ![slot] = load]
        BY <2>2 DEF LoadStream
      <3> HIDE DEF load
      <3> QED
        BY <3>1, <3>2
    <2>3. CASE LoadHead(slot)
      <3> DEFINE load == [step |-> "logs", stream |-> loads[slot].stream, head |-> clock]
      <3>1. loads[slot] \in Loads /\ loads[slot].step = "head" /\ loads[slot].stream # Absent
        BY <2>3 DEF LandingOK, LoadHead
      <3>2. loads[slot].stream \in Record
        BY <3>1 DEF Loads, Free
      <3>3. load \in Loads /\ load.head <= clock
        BY <3>2 DEF Loads, ChainOK
      <3>4. loads' = [loads EXCEPT ![slot] = load]
        BY <2>3 DEF LoadHead
      <3> HIDE DEF load
      <3> QED
        BY <3>3, <3>4
    <2>4. CASE LoadRefused(slot) \/ LoadErrs(slot)
      BY <2>4 DEF LoadRefused, LoadErrs, Loads, Free
    <2> QED
      BY <2>1, <2>2, <2>3, <2>4 DEF Loading
  <1>3. loads' \in [Slots -> Loads]
    BY <1>2 DEF LandingOK
  <1>4. \A x \in Slots : loads'[x].step = "logs" => loads'[x].head <= clock
    BY <1>2 DEF LandingOK
  <1>5. RevealFound' <=> RevealFound
    BY <1>1 DEF RevealFound
  <1> QED
    BY <1>1, <1>3, <1>4, <1>5 DEF LandingOK

\* A search that is answered finds a reveal that was made before its head.
LEMMA LoadLogsKept ==
    ASSUME ChainOK, LandingOK, NEW slot \in Slots, LoadLogs(slot)
    PROVE  LandingOK'
  <1> DEFINE load == loads[slot]
  <1>1. /\ UNCHANGED <<chain, clock, reveals>>
        /\ load.step = "logs"
        /\ data' = [stream |-> load.stream, head |-> load.head,
                    terms |-> Found(load.head) /\ load.stream.commitment = Commitment]
        /\ loads' = [loads EXCEPT ![slot] = Free]
    BY DEF LoadLogs, chainVars
  <1>2. load \in Loads /\ load.head <= clock /\ clock \in Nat
    BY <1>1 DEF LandingOK, ChainOK
  <1>3. load.stream \in Record /\ load.head \in Nat
    BY <1>1, <1>2 DEF Loads, Free
  <1> HIDE DEF load
  <1>4. data'.head = load.head /\ data'.head \in 0..clock
    BY <1>1, <1>2, <1>3
  <1>5. ASSUME DEMO_REVEAL_BLOCK > 0, DEMO_REVEAL_BLOCK \in reveals, load.head > DEMO_REVEAL_BLOCK
        PROVE  data'.terms
    <2>1. DEMO_REVEAL_BLOCK <= load.head
      BY <1>3, <1>5, ChainViewAssumption
    <2>2. Found(load.head)
      BY <1>3, <1>5, <2>1, WindowHoldsBlock DEF Found
    <2> QED
      BY <1>1, <1>3, <2>2, RecordFields
  <1>6. RevealFound'
    BY <1>1, <1>4, <1>5 DEF RevealFound
  <1>7. loads' \in [Slots -> Loads]
    BY <1>1 DEF LandingOK, Loads
  <1>8. \A x \in Slots : loads'[x].step = "logs" => loads'[x].head <= clock
    BY <1>1 DEF LandingOK, Free
  <1> QED
    BY <1>1, <1>4, <1>6, <1>7, <1>8 DEF LandingOK

LEMMA LandingStepKept ==
    ASSUME ChainOK, LandingOK, LandingStep
    PROVE  LandingOK' /\ UNCHANGED <<chain, clock, reveals>>
  <1>1. PICK slot \in Slots : Loading(slot) \/ LoadErrs(slot)
    BY DEF LandingStep
  <1>2. UNCHANGED <<chain, clock, reveals>>
    BY <1>1 DEF Loading, StartLoad, LoadStream, LoadHead, LoadLogs, LoadRefused, LoadErrs,
         Fault, chainVars
  <1> QED
    BY <1>1, <1>2, LoadKept, LoadLogsKept

------------------------------------------------------------------------------
(* The verify page *)

\* A text that is terms has the same verdict against every record of the stream.
LEMMA OneVerdict ==
    ASSUME NEW s \in Record, NEW t \in Record, NEW text \in Texts
    PROVE  verdict(s, text) = verdict(t, text)
  BY RecordFields DEF verdict

LEMMA VerifyStepKept ==
    ASSUME ChainOK, VerifyOK, VerifyStep
    PROVE  VerifyOK' /\ UNCHANGED <<chain, clock, reveals>>
  <1>1. UNCHANGED <<chain, clock, reveals>>
    BY DEF VerifyStep, VerifyStream, VerifyMeta, VerifyFails, LookupHead, LookupLogs, LookupFails,
           Type, CopyLink, OpenLink, Fault, chainVars
  <1>2. verify \in VerifyStates
    BY DEF VerifyOK
  <1>3. CASE VerifyStream \/ VerifyMeta \/ VerifyFails
    <2>1. UNCHANGED <<lookup, link>>
      BY <1>3 DEF VerifyStream, VerifyMeta, VerifyFails
    <2>2. /\ verify' \in VerifyStates
          /\ verify'.query = verify.query /\ verify'.edited = verify.edited
          /\ verify'.termsHex = verify.termsHex
      BY <1>2, <1>3 DEF VerifyStream, VerifyMeta, VerifyFails, VerifyStates, ChainOK
    <2> QED
      BY <1>1, <2>1, <2>2 DEF VerifyOK
  <1>4. CASE LookupHead \/ LookupFails
    <2>1. UNCHANGED <<verify, link>> /\ (lookup' = NoLookup \/ lookup # NoLookup)
      BY <1>4 DEF LookupHead, LookupFails, NoLookup, NoHeadYet
    <2> QED
      BY <1>1, <2>1 DEF VerifyOK
  <1>5. CASE LookupLogs
    <2>1. UNCHANGED link /\ lookup' = NoLookup /\ lookup # NoLookup
      BY <1>5 DEF LookupLogs, NoLookup
    <2>2. verify' \in VerifyStates /\ verify'.query = verify.query
      BY <1>2, <1>5 DEF LookupLogs, VerifyStates, Texts
    <2> QED
      BY <1>1, <2>1, <2>2 DEF VerifyOK
  <1>6. CASE \E text \in Texts : Type(text)
    <2>1. UNCHANGED <<lookup, link>>
      BY <1>6 DEF Type
    <2>2. verify' \in VerifyStates /\ verify'.query = verify.query /\ verify'.edited = TRUE
      BY <1>2, <1>6 DEF Type, VerifyStates
    <2> QED
      BY <1>1, <2>1, <2>2 DEF VerifyOK
  <1>7. CASE CopyLink
    <2> DEFINE text == verify.termsHex
    <2>1. /\ UNCHANGED <<verify, lookup>>
          /\ verify.stream \in Record
          /\ text \in Texts
          /\ computed(text) # None
          /\ link' = [query |-> text, verdict |-> verdict(verify.stream, text)]
      BY <1>2, <1>7 DEF CopyLink, VerifyStates
    <2>2. text \in {"terms", "other terms"}
      BY <2>1 DEF computed, Texts
    <2>3. \A s \in Record : link'.verdict = verdict(s, link'.query)
      BY <2>1, OneVerdict
    <2> QED
      BY <1>1, <2>1, <2>2, <2>3 DEF VerifyOK
  <1>8. CASE OpenLink
    <2>1. link' = link /\ link.query \in {"terms", "other terms"}
      BY <1>8 DEF OpenLink, VerifyOK
    <2>2. /\ verify' = [step |-> "stream", stream |-> None, error |-> FALSE,
                        termsHex |-> link.query, query |-> link.query, edited |-> FALSE]
          /\ lookup' = NoLookup
      BY <1>8, <2>1 DEF OpenLink, Opening, SeedFromReveal
    <2>3. verify' \in VerifyStates
      BY <2>1, <2>2 DEF VerifyStates, Texts
    <2> QED
      BY <1>1, <2>1, <2>2, <2>3 DEF VerifyOK
  <1> QED
    BY <1>1, <1>3, <1>4, <1>5, <1>6, <1>7, <1>8 DEF VerifyStep

------------------------------------------------------------------------------
(* The invariant, and what it says of the runs' properties *)

LEMMA InitFInv == Init => FInv
  <1> SUFFICES ASSUME Init PROVE FInv
    OBVIOUS
  <1>1. ChainOK
    BY DEF Init, ChainInit, ChainOK
  <1>2. DashOK
    BY FreshOK DEF Init, DashInit
  <1>3. LandingOK
    BY DEF Init, LandingInit, LandingOK, Loads, Free
  <1>4. VerifyOK
    <2>1. verify \in VerifyStates
      BY DEF Init, VerifyInit, VerifyStates, Texts
    <2>2. verify.query = "" /\ link = None
      BY DEF Init, VerifyInit
    <2> QED
      BY <2>1, <2>2 DEF VerifyOK
  <1> QED
    BY <1>1, <1>2, <1>3, <1>4 DEF FInv

LEMMA NextFInv == FInv /\ [Next]_vars => FInv'
  <1> SUFFICES ASSUME FInv, [Next]_vars PROVE FInv'
    OBVIOUS
  <1>1. ChainOK /\ DashOK /\ LandingOK /\ VerifyOK
    BY DEF FInv
  <1>2. ASSUME UNCHANGED verifyVars PROVE VerifyOK'
    BY <1>1, <1>2 DEF VerifyOK, verifyVars
  <1>3. ASSUME ChainOK', ChainGrows, UNCHANGED dashVars PROVE DashOK'
    BY <1>1, <1>3, DashKept DEF dashVars
  <1>4. CASE OnChain(Transaction /\ (open = "dashboard" \/ chain'.funded <= MaxShown))
    <2>1. ChainOK' /\ ChainGrows /\ UNCHANGED reveals
      BY <1>1, <1>4, TransactionGrows DEF OnChain
    <2>2. LandingOK'
      BY <1>1, <1>4, <2>1, LandingKept DEF OnChain, ChainGrows
    <2> QED
      BY <1>2, <1>3, <1>4, <2>1, <2>2 DEF OnChain, FInv
  <1>5. CASE OnChain(NextBlock)
    <2>1. ChainOK' /\ ChainGrows /\ UNCHANGED reveals
      BY <1>1, <1>5, NextBlockGrows DEF OnChain
    <2>2. LandingOK'
      BY <1>1, <1>5, <2>1, LandingKept DEF OnChain, ChainGrows
    <2> QED
      BY <1>2, <1>3, <1>5, <2>1, <2>2 DEF OnChain, FInv
  <1>6. CASE OnChain(open # "dashboard" /\ Reveal)
    <2>1. ChainOK' /\ ChainGrows /\ reveals' = reveals \cup {clock}
      BY <1>1, <1>6, RevealGrows DEF OnChain
    <2>2. LandingOK'
      BY <1>1, <1>6, <2>1, LandingKept DEF OnChain, ChainGrows
    <2> QED
      BY <1>2, <1>3, <1>6, <2>1, <2>2 DEF OnChain, FInv
  <1>7. CASE OnDashboard(DashStep)
    <2>1. ChainOK' /\ ChainGrows /\ UNCHANGED reveals /\ DashOK'
      BY <1>1, <1>7, DashStepKept DEF OnDashboard
    <2>2. LandingOK'
      BY <1>1, <1>7, <2>1, LandingKept DEF OnDashboard, ChainGrows
    <2> QED
      BY <1>2, <1>7, <2>1, <2>2 DEF OnDashboard, FInv
  <1>8. CASE OnLanding(LandingStep)
    <2>1. LandingOK' /\ ChainOK' /\ ChainGrows
      BY <1>1, <1>8, LandingStepKept, ChainKept DEF OnLanding
    <2> QED
      BY <1>2, <1>3, <1>8, <2>1 DEF OnLanding, FInv
  <1>9. CASE OnVerify(VerifyStep)
    <2>1. VerifyOK' /\ UNCHANGED <<chain, clock, reveals>>
      BY <1>1, <1>9, VerifyStepKept DEF OnVerify
    <2>2. ChainOK' /\ ChainGrows
      BY <1>1, <2>1, ChainKept
    <2>3. LandingOK'
      BY <1>1, <1>9, <2>1, <2>2, LandingKept DEF OnVerify, ChainGrows
    <2> QED
      BY <1>3, <1>9, <2>1, <2>2, <2>3 DEF OnVerify, FInv
  <1>10. CASE UNCHANGED vars
    <2>1. ChainOK' /\ ChainGrows /\ UNCHANGED reveals
      BY <1>1, <1>10, ChainKept DEF vars, chainVars
    <2>2. LandingOK'
      BY <1>1, <1>10, <2>1, LandingKept DEF vars, ChainGrows
    <2> QED
      BY <1>2, <1>3, <1>10, <2>1, <2>2 DEF vars, FInv
  <1> QED
    BY <1>4, <1>5, <1>6, <1>7, <1>8, <1>9, <1>10 DEF Next

\* What the pages hold is what some earlier state of the chain was.
THEOREM PagesLag == Spec => []FInv
  BY InitFInv, NextFInv, PTL DEF Spec

\* The record stays within the contract's bounds and the state of the pages
\* within what their code can set.
THEOREM FrontendTypes == Spec => []FrontendTypeOK
  <1>1. FInv => FrontendTypeOK
    <2> SUFFICES ASSUME FInv PROVE FrontendTypeOK
      OBVIOUS
    <2>1. chain = Absent \/ chain.withdrawn \in 0..chain.funded
      BY RecordFields DEF FInv, ChainOK
    <2>2. /\ reveals \subseteq 0..clock
          /\ step \in Steps
          /\ dash.failure \in Failures
          /\ dash.auth = None \/ dash.auth \in PageAuthorizations
          /\ verify.termsHex \in Texts
      BY DEF FInv, ChainOK, DashOK, DashTypeOK, DashStates, VerifyOK, VerifyStates
    <2> QED
      BY <2>1, <2>2 DEF FInv, DashOK, DashControl, FrontendTypeOK
  <1> QED
    BY <1>1, PagesLag, PTL

\* Whoever answers the dashboard, the terms it shows are those of the vault's
\* commitment, and whatever authorization it submits the vault pays no more than
\* those terms have earned.
THEOREM TermsVerifiedHolds == Spec => []TermsVerified
  <1>1. FInv => TermsVerified
    <2> SUFFICES ASSUME FInv PROVE TermsVerified
      OBVIOUS
    <2>1. ASSUME dash.terms # None PROVE chain # Absent /\ dash.terms = chain.commitment
      <3>1. dash.terms = Commitment
        BY <2>1 DEF FInv, DashOK, DashTypeOK, DashStates
      <3>2. chain \in Record
        BY <2>1 DEF FInv, DashOK, DashControl, DashLag, Behind
      <3> QED
        BY <3>1, <3>2, RecordFields
    <2>2. chain # Absent => chain.withdrawn <= accruedAt(StreamTerms, clock)
      BY DEF FInv, ChainOK
    <2> QED
      BY <2>1, <2>2 DEF TermsVerified
  <1> QED
    BY <1>1, PagesLag, PTL

\* A landing page that searched at a head past the pinned block shows the terms
\* that were revealed there, whatever order its loads ended in.
THEOREM RevealFoundHolds == Spec => []RevealFound
  <1>1. FInv => RevealFound
    BY DEF FInv, LandingOK, RevealFound
  <1> QED
    BY <1>1, PagesLag, PTL

\* Whoever opens a verification link sees the verdict it was copied with.
THEOREM SharedVerdictHolds == Spec => []SharedVerdict
  <1>1. FInv => SharedVerdict
    <2> SUFFICES ASSUME FInv, link # None, verify.query = link.query, ~verify.edited,
                        verify.stream # None
                 PROVE  verdict(verify.stream, verify.termsHex) = link.verdict
      BY DEF SharedVerdict
    <2>1. verify.stream \in Record /\ link.query \in {"terms", "other terms"}
      BY DEF FInv, VerifyOK, VerifyStates
    <2>2. verify.termsHex = link.query
      BY <2>1 DEF FInv, VerifyOK
    <2> QED
      BY <2>1, <2>2 DEF FInv, VerifyOK
  <1> QED
    BY <1>1, PagesLag, PTL

\* The dashboard lets go of an authorization, other than by a reload, only after
\* the stream has paid what was signed.
THEOREM AuthSpentHolds == Spec => AuthSpentOnlyWhenPaid
  <1> DEFINE Paid == dash.auth # None /\ dash'.auth = None /\ dash' # FreshPage
                       => chain.withdrawn >= CapOf(dash.stream, dash.auth)
  <1>1. FInv /\ [Next]_vars => [Paid]_vars
    <2> SUFFICES ASSUME FInv, Next, dash.auth # None, dash'.auth = None, dash' # FreshPage
                 PROVE  chain.withdrawn >= CapOf(dash.stream, dash.auth)
      OBVIOUS
    <2>1. dash \in DashStates /\ DashOK /\ ChainOK
      BY DEF FInv, DashOK, DashTypeOK
    <2>2. dash' # dash
      OBVIOUS
    <2>3. DashStep
      BY <2>2 DEF Next, OnChain, OnLanding, OnVerify, OnDashboard, dashVars
    <2>4. CASE Ends
      <3>1. \E f \in Failures, e \in BOOLEAN, x \in BOOLEAN : dash' = Ended(f, e, x)
        BY <2>1, <2>4, EndsAre
      <3>2. dash'.auth = dash.auth
        BY <2>1, <3>1 DEF Ended, DashStates
      <3> QED
        BY <3>2
    <2>5. CASE ReadStream /\ chain # Absent
      BY <2>1, <2>5 DEF ReadStream, DashStates
    <2>6. CASE Receive /\ answer.kind = "granted" /\ TermsMatch
      <3>1. dash'.auth = answer.auth
        BY <2>1, <2>6 DEF Receive, Finish, DashStates
      <3>2. answer.auth \in PageAuthorizations
        BY <2>1, <2>6 DEF Receive, DashOK, DashLag, Earned
      <3> QED
        BY <3>1, <3>2, NoneElse
    <2>7. CASE ReadMeta \/ Unlock \/ Withdraw
      BY <2>1, <2>7 DEF ReadMeta, Unlock, Withdraw, DashStates
    <2>8. CASE SignMessage \/ Submit \/ SwitchAccount \/ EnclaveAnswers \/ OtherAnswers \/ Mined
      BY <2>2, <2>8 DEF SignMessage, Submit, SwitchAccount, EnclaveAnswers, OtherAnswers, Mined
    <2>9. CASE Confirmed
      BY <2>1, <2>9 DEF Confirmed, Succeeded, DashOK, DashLag
    <2>10. CASE Reload \/ ReloadAnyway
      BY <2>10 DEF Reload, ReloadAnyway, Restart
    <2> QED
      BY <2>3, <2>4, <2>5, <2>6, <2>7, <2>8, <2>9, <2>10 DEF DashStep, Ends
  <1> QED
    BY <1>1, PagesLag, PTL DEF Spec, AuthSpentOnlyWhenPaid
==============================================================================
