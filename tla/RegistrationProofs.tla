------------------------- MODULE RegistrationProofs -------------------------
(***************************************************************************)
(* What a registration run may rely on, for every sequence of commands,    *)
(* resumed or not, and any number of mishaps.                              *)
(***************************************************************************)
EXTENDS TeeRegistration, TLAPS

Calls == [op : {"register", "attest", "check", "production"}, id : Nat]

\* An attestation instruction, and an availability check, of the present registration.
Fresh(c) == c \in Nat /\ since < c /\ c <= challenges
FreshCheck(i) == i \in DOMAIN checks /\ since < checks[i]

\* The registries' records are about instructions that exist.
ChainInv ==
    /\ registered \in BOOLEAN /\ production \in BOOLEAN
    /\ challenges \in Nat /\ checks \in Seq(Nat)
    /\ live \subseteq Issued /\ proofs \subseteq Checked
    /\ \A i \in DOMAIN checks : checks[i] \in Issued
    /\ orphans \in Seq(Calls)

\* The local variables of a run have their types, whatever they say.
LocalTypes ==
    /\ status \in {"off", "running", "failed", "done"}
    /\ command \subseteq {"r", "R", "a", "p"}
    /\ at \in 1..5
    /\ phase \in {"begin", "send", "wait", "back", "save"}
    /\ machine \in BOOLEAN
    /\ state \in States
    /\ teeAttestInstructionID \in Nat /\ instructionID \in Nat
    /\ receipt \in [success : BOOLEAN, id : Nat]
    /\ since \in Nat
    /\ stateFile \in States \cup {Missing, Torn}

\* The progress in memory is true, of the present registration.
Progress ==
    /\ "r" \in state.steps => registered
    /\ state.steps \cap {"r", "R"} # {} => Fresh(state.attest)
    /\ "a" \in state.steps => FreshCheck(state.check)

\* What the steps so far have left in the local variables and on the chain.
Obtained ==
    /\ at > 1 /\ "r" \in command => registered /\ Fresh(teeAttestInstructionID)
    /\ at > 2 /\ "R" \in command => Fresh(teeAttestInstructionID)
    /\ at > 3 /\ "a" \in command => FreshCheck(instructionID)
    /\ at > 4 /\ "p" \in command => production
    /\ teeAttestInstructionID = 0 \/ Fresh(teeAttestInstructionID)

\* The step under way: the call it waits for, what a receipt tells, what is to be saved.
Waiting ==
    phase = "wait" =>
        /\ at <= 4
        /\ tx \in Calls
        /\ step \in {"r", "R"} => tx.op \in {"register", "attest"}
        /\ step = "a" => tx.op = "check" /\ Fresh(tx.id)
        /\ step = "p" => tx.op = "production"

Receipt ==
    phase = "back" =>
        /\ at <= 4
        /\ receipt.success =>
             /\ step \in {"r", "R"} => registered /\ Fresh(receipt.id)
             /\ step = "a" => FreshCheck(receipt.id)
             /\ step = "p" => production

Saving ==
    phase = "save" =>
        /\ at <= 3
        /\ step \in {"r", "R"} => registered /\ Fresh(teeAttestInstructionID)
        /\ step = "a" => FreshCheck(instructionID)

RunInv ==
    /\ status \in {"running", "done"} =>
         /\ since <= challenges
         /\ Progress /\ Obtained
    /\ status = "running" => Waiting /\ Receipt /\ Saving
    /\ status = "done" => at = 5

RInv == ChainInv /\ LocalTypes /\ FileTruth /\ RunInv

------------------------------------------------------------------------------
(* The registries *)

\* Nothing on the chain is taken back.
Grows ==
    /\ registered => registered'
    /\ production => production'
    /\ challenges <= challenges'
    /\ \A i \in DOMAIN checks : i \in DOMAIN checks' /\ checks'[i] = checks[i]

\* A transaction that is mined leaves the registries' records in order, and what was
\* there before.
LEMMA MinedGrows ==
    ASSUME ChainInv, NEW t \in Calls, Mined(t), orphans' \in Seq(Calls)
    PROVE  ChainInv' /\ Grows
  <1>1. CASE ~CanExecute(t)
    <2>1. UNCHANGED <<registered, challenges, live, checks, proofs, production>>
      BY <1>1 DEF Mined, chain
    <2>2. ChainInv'
      BY <2>1 DEF ChainInv, Issued, Checked
    <2>3. Grows
      BY <2>1 DEF ChainInv, Grows
    <2> QED
      BY <2>2, <2>3
  <1>2. CASE CanExecute(t) /\ t.op \in {"register", "attest"}
    <2>1. /\ registered' = TRUE
          /\ challenges' = challenges + 1
          /\ live' = live \cup {challenges + 1}
          /\ UNCHANGED <<checks, proofs, production>>
      BY <1>2 DEF Mined, Execute
    <2> QED
      BY <2>1 DEF ChainInv, Grows, Issued, Checked
  <1>3. CASE CanExecute(t) /\ t.op = "check"
    <2>1. /\ checks' = Append(checks, t.id)
          /\ live' = live \ {t.id}
          /\ proofs' \subseteq proofs \cup {Len(checks) + 1}
          /\ UNCHANGED <<registered, challenges, production>>
      BY <1>3 DEF Mined, Execute, OrMishap
    <2>2. t.id \in live
      BY <1>3 DEF CanExecute
    <2>3. t.id \in Nat /\ t.id \in Issued
      BY <2>2 DEF ChainInv, Calls
    <2>4. /\ checks' \in Seq(Nat)
          /\ DOMAIN checks' = 1..Len(checks) + 1
          /\ DOMAIN checks = 1..Len(checks)
          /\ \A i \in DOMAIN checks : i \in DOMAIN checks' /\ checks'[i] = checks[i]
          /\ \A i \in DOMAIN checks' : i \in DOMAIN checks \/ checks'[i] = t.id
      BY <2>1, <2>3 DEF ChainInv
    <2>5. \A i \in DOMAIN checks' : checks'[i] \in Issued
      BY <2>3, <2>4 DEF ChainInv
    <2>6. proofs' \subseteq DOMAIN checks'
      BY <2>1, <2>4 DEF ChainInv, Checked
    <2>7. ChainInv'
      BY <2>1, <2>4, <2>5, <2>6 DEF ChainInv, Issued, Checked
    <2>8. Grows
      BY <2>1, <2>4 DEF ChainInv, Grows
    <2> QED
      BY <2>7, <2>8
  <1>4. CASE CanExecute(t) /\ t.op = "production"
    <2>1. production' = TRUE /\ UNCHANGED <<registered, challenges, live, checks, proofs>>
      BY <1>4 DEF Mined, Execute
    <2> QED
      BY <2>1 DEF ChainInv, Grows, Issued, Checked
  <1> QED
    BY <1>1, <1>2, <1>3, <1>4 DEF Calls

\* So what a run, or the file, has of it stays true.
LEMMA FactsKept ==
    ASSUME ChainInv, LocalTypes, ChainInv', Grows, UNCHANGED since
    PROVE  /\ \A c : Fresh(c) => Fresh(c)'
           /\ \A i : FreshCheck(i) => FreshCheck(i)'
           /\ FileTruth /\ UNCHANGED stateFile => FileTruth'
           /\ Progress /\ UNCHANGED state => Progress'
           /\ Obtained /\ UNCHANGED <<at, command, teeAttestInstructionID, instructionID>>
                => Obtained'
  <1>1. \A c : Fresh(c) => Fresh(c)'
    BY DEF Fresh, Grows, ChainInv, LocalTypes
  <1>2. \A i : FreshCheck(i) => FreshCheck(i)'
    BY DEF FreshCheck, Grows
  <1>3. FileTruth /\ UNCHANGED stateFile => FileTruth'
    BY DEF FileTruth, Issued, Checked, Grows, ChainInv, States
  <1>4. Progress /\ UNCHANGED state => Progress'
    BY <1>1, <1>2 DEF Progress, Grows
  <1>5. ASSUME Obtained, UNCHANGED <<at, command, teeAttestInstructionID, instructionID>>
        PROVE  Obtained'
    BY <1>1, <1>2, <1>5 DEF Obtained, Grows
  <1> QED
    BY <1>1, <1>2, <1>3, <1>4, <1>5

------------------------------------------------------------------------------
(* A run *)

LEMMA StepValues ==
    ASSUME at \in 1..5, at <= 4
    PROVE  \/ at = 1 /\ step = "r"
           \/ at = 2 /\ step = "R"
           \/ at = 3 /\ step = "a"
           \/ at = 4 /\ step = "p"
  BY DEF step, Order

\* A step of the run itself leaves the chain as it is.
LEMMA ChainKept ==
    ASSUME ChainInv, UNCHANGED chain, orphans' \in Seq(Calls)
    PROVE  ChainInv' /\ Grows
  <1>1. UNCHANGED <<registered, challenges, live, checks, proofs, production>>
    BY DEF chain
  <1>2. ChainInv'
    BY <1>1 DEF ChainInv, Issued, Checked
  <1>3. Grows
    BY <1>1 DEF ChainInv, Grows
  <1> QED
    BY <1>2, <1>3

\* Between two calls a run has nothing to show but its progress.
LEMMA BetweenCalls ==
    ASSUME status' = "running", phase' \in {"begin", "send"},
           since' <= challenges', Progress', Obtained'
    PROVE  RunInv'
  BY DEF RunInv, Waiting, Receipt, Saving

LEMMA NotRunning ==
    ASSUME status' = "failed"
    PROVE  RunInv'
  BY DEF RunInv

LEMMA NotAskedKeeps ==
    ASSUME RInv, NotAsked
    PROVE  RInv'
  <1>1. /\ status = "running" /\ at <= 4 /\ phase = "begin" /\ step \notin command
        /\ at' = at + 1
        /\ UNCHANGED <<status, command, since, phase, machine, state, teeAttestInstructionID,
                       instructionID, tx, receipt, stateFile, orphans, chain>>
    BY DEF NotAsked, Running, flags, result
  <1>2. ChainInv' /\ Grows
    BY <1>1, ChainKept DEF RInv, ChainInv
  <1>3. LocalTypes'
    BY <1>1 DEF RInv, LocalTypes
  <1>4. FileTruth' /\ Progress'
    BY <1>1, <1>2, FactsKept DEF RInv, RunInv
  <1>5. Obtained'
    <2>1. \/ at = 1 /\ "r" \notin command
          \/ at = 2 /\ "R" \notin command
          \/ at = 3 /\ "a" \notin command
          \/ at = 4 /\ "p" \notin command
      BY <1>1, StepValues DEF RInv, LocalTypes
    <2>2. Obtained
      BY <1>1 DEF RInv, RunInv
    <2>3. /\ \A c : Fresh(c) => Fresh(c)'
          /\ \A c : FreshCheck(c) => FreshCheck(c)'
      BY <1>1, <1>2, FactsKept DEF RInv
    <2> QED
      BY <1>1, <1>2, <2>1, <2>2, <2>3 DEF Obtained, Grows
  <1>6. since' <= challenges'
    BY <1>1 DEF RInv, RunInv, chain
  <1> QED
    BY <1>1, <1>2, <1>3, <1>4, <1>5, <1>6, BetweenCalls DEF RInv

LEMMA CompletedKeeps ==
    ASSUME RInv, Completed
    PROVE  RInv'
  <1>1. /\ status = "running" /\ at <= 4 /\ phase = "begin"
        /\ step \in command /\ step \in state.steps
        /\ at' = at + 1
        /\ teeAttestInstructionID' = IF step = "a" THEN teeAttestInstructionID ELSE state.attest
        /\ instructionID' = IF step = "a" THEN state.check ELSE instructionID
        /\ UNCHANGED <<status, command, since, phase, machine, state, tx, receipt, stateFile,
                       orphans, chain>>
    BY DEF Completed, Recalled, Running, flags
  <1>2. ChainInv' /\ Grows
    BY <1>1, ChainKept DEF RInv, ChainInv
  <1>3. LocalTypes'
    BY <1>1 DEF RInv, LocalTypes, States
  <1>4. FileTruth' /\ Progress'
    BY <1>1, <1>2, FactsKept DEF RInv, RunInv
  <1>5. Obtained'
    <2>1. \/ at = 1 /\ step = "r"
          \/ at = 2 /\ step = "R"
          \/ at = 3 /\ step = "a"
      BY <1>1, StepValues DEF RInv, LocalTypes, States
    <2>2. Obtained /\ Progress
      BY <1>1 DEF RInv, RunInv
    <2>3. /\ \A c : Fresh(c) => Fresh(c)'
          /\ \A c : FreshCheck(c) => FreshCheck(c)'
      BY <1>1, <1>2, FactsKept DEF RInv
    <2>4. CASE at = 3
      <3>1. FreshCheck(state.check) /\ instructionID' = state.check
        BY <1>1, <2>1, <2>2, <2>4 DEF Progress
      <3>2. FreshCheck(instructionID)' /\ UNCHANGED teeAttestInstructionID
        BY <1>1, <2>1, <2>3, <2>4, <3>1 DEF FreshCheck
      <3> QED
        BY <1>1, <1>2, <2>2, <2>3, <2>4, <3>2 DEF Obtained, Grows
    <2>5. CASE at \in {1, 2}
      <3>1. Fresh(state.attest) /\ teeAttestInstructionID' = state.attest
        BY <1>1, <2>1, <2>2, <2>5 DEF Progress
      <3>2. Fresh(teeAttestInstructionID)'
        BY <3>1, <2>3 DEF Fresh
      <3>3. at' > 1 /\ "r" \in command' => registered'
        BY <1>1, <1>2, <2>1, <2>2, <2>5 DEF Obtained, Progress, Grows
      <3> QED
        BY <1>1, <2>5, <3>2, <3>3 DEF Obtained
    <2> QED
      BY <2>1, <2>4, <2>5
  <1>6. since' <= challenges'
    BY <1>1 DEF RInv, RunInv, chain
  <1> QED
    BY <1>1, <1>2, <1>3, <1>4, <1>5, <1>6, BetweenCalls DEF RInv

LEMMA GetTeeMachineKeeps ==
    ASSUME RInv, GetTeeMachine
    PROVE  RInv'
  <1>1. /\ status = "running" /\ phase' = "send" /\ machine' \in BOOLEAN
        /\ UNCHANGED <<status, command, since, at, state, teeAttestInstructionID,
                       instructionID, tx, receipt, stateFile, orphans, chain>>
    BY DEF GetTeeMachine, OrMishap, Running, flags, result, RInv, ChainInv
  <1>2. ChainInv' /\ Grows
    BY <1>1, ChainKept DEF RInv, ChainInv
  <1>3. LocalTypes'
    BY <1>1 DEF RInv, LocalTypes
  <1>4. FileTruth' /\ Progress' /\ Obtained'
    BY <1>1, <1>2, FactsKept DEF RInv, RunInv
  <1>5. since' <= challenges'
    BY <1>1 DEF RInv, RunInv, chain
  <1> QED
    BY <1>1, <1>2, <1>3, <1>4, <1>5, BetweenCalls DEF RInv

LEMMA SendKeeps ==
    ASSUME RInv, Send
    PROVE  RInv'
  <1>1. /\ status = "running" /\ at <= 4
        /\ UNCHANGED <<command, since, at, machine, state, teeAttestInstructionID,
                       instructionID, receipt, stateFile, orphans, chain>>
    BY DEF Send, Running, flags, result
  <1>2. ChainInv' /\ Grows
    BY <1>1, ChainKept DEF RInv, ChainInv
  <1>3. FileTruth' /\ Progress' /\ Obtained'
    BY <1>1, <1>2, FactsKept DEF RInv, RunInv
  <1>4. CASE ~CanExecute(Call)
    <2>1. status' = "failed" /\ UNCHANGED <<tx, phase>>
      BY <1>4 DEF Send
    <2>2. LocalTypes'
      BY <1>1, <2>1 DEF RInv, LocalTypes
    <2> QED
      BY <1>2, <1>3, <2>1, <2>2, NotRunning DEF RInv
  <1>5. CASE CanExecute(Call)
    <2>1. tx' = Call /\ phase' = "wait" /\ status' = "running"
      BY <1>1, <1>5 DEF Send
    <2>2. LocalTypes'
      BY <1>1, <2>1 DEF RInv, LocalTypes
    <2>3. /\ step \in {"r", "R"} => Call.op \in {"register", "attest"} /\ Call.id = 0
          /\ step = "a" => Call.op = "check" /\ Call.id = teeAttestInstructionID
          /\ step = "p" => Call.op = "production" /\ Call.id = instructionID
          /\ Call \in Calls
      <3>1. CASE step = "r"
        BY <3>1 DEF Call, Calls
      <3>2. CASE step = "R"
        BY <3>2 DEF Call, Calls
      <3>3. CASE step = "a"
        BY <3>3 DEF Call, Calls, RInv, LocalTypes
      <3>4. CASE step = "p"
        BY <3>4 DEF Call, Calls, RInv, LocalTypes
      <3> QED
        BY <1>1, <3>1, <3>2, <3>3, <3>4, StepValues DEF RInv, LocalTypes
    <2>4. step = "a" => Fresh(teeAttestInstructionID)
      <3>1. step = "a" => teeAttestInstructionID \in live
        BY <1>5, <2>3 DEF CanExecute
      <3>2. step = "a" => teeAttestInstructionID # 0
        BY <3>1 DEF RInv, ChainInv, Issued
      <3> QED
        BY <1>1, <3>2 DEF RInv, RunInv, Obtained
    <2>5. Waiting'
      <3>1. step' = step
        BY <1>1 DEF step
      <3>2. step = "a" => Fresh(tx.id)'
        BY <1>1, <2>1, <2>3, <2>4 DEF Fresh, chain
      <3> QED
        BY <1>1, <2>1, <2>3, <3>1, <3>2 DEF Waiting
    <2>6. since' <= challenges'
      BY <1>1 DEF RInv, RunInv, chain
    <2>7. RunInv'
      BY <1>3, <2>1, <2>5, <2>6 DEF RunInv, Receipt, Saving
    <2> QED
      BY <1>2, <1>3, <2>2, <2>7 DEF RInv
  <1> QED
    BY <1>4, <1>5

LEMMA CheckTxKeeps ==
    ASSUME RInv, CheckTx
    PROVE  RInv'
  <1>1. /\ status = "running" /\ at <= 4 /\ phase = "back"
        /\ UNCHANGED <<command, since, machine, tx, receipt, stateFile, orphans, chain>>
    BY DEF CheckTx, Running, flags
  <1>2. ChainInv' /\ Grows
    BY <1>1, ChainKept DEF RInv, ChainInv
  <1>3. FileTruth' /\ since' <= challenges'
    BY <1>1, <1>2, FactsKept DEF RInv, RunInv, chain
  <1>4. /\ \A c : Fresh(c) => Fresh(c)'
        /\ \A c : FreshCheck(c) => FreshCheck(c)'
    BY <1>1, <1>2, FactsKept DEF RInv
  <1>5. Progress /\ Obtained /\ Receipt
    BY <1>1 DEF RInv, RunInv
  <1>6. CASE Reverted
    <2>1. status' = "failed" /\ UNCHANGED <<at, phase, state, teeAttestInstructionID, instructionID>>
      BY <1>6 DEF CheckTx, result
    <2>2. LocalTypes'
      BY <1>1, <2>1 DEF RInv, LocalTypes
    <2> QED
      BY <1>2, <1>3, <2>1, <2>2, NotRunning DEF RInv
  <1>7. CASE ~Reverted /\ Attested
    <2>1. /\ status' = "running" /\ phase' = "save" /\ at' = at
          /\ step \in {"r", "R"}
          /\ teeAttestInstructionID' = receipt.id /\ instructionID' = instructionID
          /\ state' = [state EXCEPT !.steps = @ \cup {step}, !.attest = receipt.id]
      BY <1>1, <1>7 DEF CheckTx, Attested
    <2>2. registered /\ Fresh(receipt.id)
      BY <1>1, <1>5, <1>7, <2>1 DEF Receipt, Reverted
    <2>3. /\ state'.steps = state.steps \cup {step}
          /\ state'.attest = receipt.id
          /\ state'.check = state.check
          /\ state' \in States
      BY <2>1 DEF RInv, LocalTypes, States
    <2>4. LocalTypes'
      BY <1>1, <2>1, <2>3 DEF RInv, LocalTypes
    <2>5. registered' /\ Fresh(teeAttestInstructionID)' /\ Fresh(state.attest)'
      BY <1>2, <1>4, <2>1, <2>2, <2>3 DEF Fresh, Grows
    <2>6. Progress'
      BY <1>4, <1>5, <2>1, <2>3, <2>5 DEF Progress, FreshCheck
    <2>7. Obtained'
      BY <1>1, <1>2, <1>4, <1>5, <2>1, <2>5 DEF Obtained, Grows
    <2>8. Saving'
      <3>1. at <= 3 /\ step' = step /\ step # "a"
        BY <1>1, <2>1, StepValues DEF RInv, LocalTypes, step
      <3> QED
        BY <2>1, <2>5, <3>1 DEF Saving
    <2>9. RunInv'
      BY <1>3, <2>1, <2>6, <2>7, <2>8 DEF RunInv, Waiting, Receipt
    <2> QED
      BY <1>2, <1>3, <2>4, <2>9 DEF RInv
  <1>8. CASE ~Reverted /\ AvailabilityChecked
    <2>1. /\ status' = "running" /\ phase' = "save" /\ at' = at
          /\ step = "a"
          /\ instructionID' = receipt.id /\ teeAttestInstructionID' = teeAttestInstructionID
          /\ state' = [state EXCEPT !.steps = @ \cup {step}, !.check = receipt.id]
      BY <1>1, <1>8 DEF CheckTx, AvailabilityChecked
    <2>2. FreshCheck(receipt.id)
      BY <1>1, <1>5, <1>8, <2>1 DEF Receipt, Reverted
    <2>3. /\ state'.steps = state.steps \cup {"a"}
          /\ state'.attest = state.attest
          /\ state'.check = receipt.id
          /\ state' \in States
      BY <2>1 DEF RInv, LocalTypes, States
    <2>4. LocalTypes'
      BY <1>1, <2>1, <2>3 DEF RInv, LocalTypes
    <2>5. FreshCheck(instructionID)' /\ FreshCheck(state.check)'
      BY <1>4, <2>1, <2>2, <2>3 DEF FreshCheck
    <2>6. Progress'
      BY <1>2, <1>4, <1>5, <2>3, <2>5 DEF Progress, Fresh, Grows
    <2>7. Obtained'
      BY <1>1, <1>2, <1>4, <1>5, <2>1, <2>5 DEF Obtained, Grows
    <2>8. Saving'
      <3>1. at = 3 /\ step' = step
        BY <1>1, <2>1, StepValues DEF RInv, LocalTypes, step
      <3> QED
        BY <2>1, <2>5, <3>1 DEF Saving
    <2>9. RunInv'
      BY <1>3, <2>1, <2>6, <2>7, <2>8 DEF RunInv, Waiting, Receipt
    <2> QED
      BY <1>2, <1>3, <2>4, <2>9 DEF RInv
  <1>9. CASE ~Reverted /\ InProduction
    <2>1. /\ status' = "running" /\ phase' = "begin" /\ at' = 5 /\ step = "p"
          /\ UNCHANGED <<state, teeAttestInstructionID, instructionID>>
      BY <1>1, <1>9 DEF CheckTx, InProduction, result
    <2>2. production
      BY <1>1, <1>5, <1>9, <2>1 DEF Receipt, Reverted
    <2>3. at = 4
      BY <1>1, <2>1, StepValues DEF RInv, LocalTypes
    <2>4. LocalTypes'
      BY <1>1, <2>1 DEF RInv, LocalTypes
    <2>5. Progress'
      BY <1>1, <1>2, <1>5, <2>1, FactsKept DEF RInv
    <2>6. Obtained'
      BY <1>1, <1>2, <1>4, <1>5, <2>1, <2>2, <2>3 DEF Obtained, Grows
    <2> QED
      BY <1>2, <1>3, <2>1, <2>4, <2>5, <2>6, BetweenCalls DEF RInv
  <1> QED
    BY <1>6, <1>7, <1>8, <1>9 DEF CheckTx

LEMMA saveStateKeeps ==
    ASSUME RInv, saveState
    PROVE  RInv'
  <1>1. /\ status = "running" /\ at <= 4 /\ phase = "save"
        /\ stateFile' \in {state, stateFile, Torn}
        /\ at' = at + 1 /\ phase' = "begin"
        /\ UNCHANGED <<status, command, since, machine, state, teeAttestInstructionID,
                       instructionID, tx, receipt, orphans, chain>>
    BY DEF saveState, OrMishap, Running, flags, result
  <1>2. ChainInv' /\ Grows
    BY <1>1, ChainKept DEF RInv, ChainInv
  <1>3. LocalTypes'
    BY <1>1 DEF RInv, LocalTypes
  <1>4. Progress /\ Obtained /\ Saving
    BY <1>1 DEF RInv, RunInv
  <1>5. Progress' /\ since' <= challenges'
    BY <1>1, <1>2, <1>4, FactsKept DEF RInv, RunInv, chain
  <1>6. FileTruth'
    <2>1. CASE stateFile' = state
      <3>1. stateFile' = state'
        BY <1>1, <2>1
      <3> QED
        BY <1>2, <1>3, <1>5, <3>1
           DEF FileTruth, Progress, Fresh, FreshCheck, Issued, Checked, ChainInv, LocalTypes
    <2>2. CASE stateFile' = stateFile
      BY <1>1, <1>2, <2>2, FactsKept DEF RInv
    <2>3. CASE stateFile' = Torn
      BY <2>3, RegistrationAssumption DEF FileTruth
    <2> QED
      BY <1>1, <2>1, <2>2, <2>3
  <1>7. Obtained'
    <2>1. \/ at = 1 /\ step = "r"
          \/ at = 2 /\ step = "R"
          \/ at = 3 /\ step = "a"
      BY <1>1, <1>4, StepValues DEF Saving, RInv, LocalTypes
    <2>2. /\ \A c : Fresh(c) => Fresh(c)'
          /\ \A c : FreshCheck(c) => FreshCheck(c)'
      BY <1>1, <1>2, FactsKept DEF RInv
    <2>3. /\ at \in {1, 2} => registered /\ Fresh(teeAttestInstructionID)
          /\ at = 3 => FreshCheck(instructionID)
      BY <1>1, <1>4, <2>1 DEF Saving
    <2> QED
      BY <1>1, <1>2, <1>4, <2>1, <2>2, <2>3 DEF Obtained, Grows
  <1> QED
    BY <1>1, <1>2, <1>3, <1>5, <1>6, <1>7, BetweenCalls DEF RInv

\* With the file gone there is nothing for it to say.
LEMMA FileGone ==
    ASSUME FileTruth, ChainInv, LocalTypes, ChainInv', Grows, UNCHANGED since,
           stateFile' \in {stateFile, Missing}
    PROVE  FileTruth'
  <1>1. CASE stateFile' = stateFile
    BY <1>1, FactsKept
  <1>2. CASE stateFile' = Missing
    BY <1>2, RegistrationAssumption DEF FileTruth
  <1> QED
    BY <1>1, <1>2

LEMMA FinishKeeps ==
    ASSUME RInv, Finish
    PROVE  RInv'
  <1>1. /\ status = "running" /\ at = 5 /\ status' = "done"
        /\ stateFile' \in {stateFile, Missing}
        /\ UNCHANGED <<command, since, at, phase, machine, state, teeAttestInstructionID,
                       instructionID, tx, receipt, orphans, chain>>
    BY DEF Finish, OrMishap, flags, result
  <1>2. ChainInv' /\ Grows
    BY <1>1, ChainKept DEF RInv, ChainInv
  <1>3. LocalTypes'
    BY <1>1 DEF RInv, LocalTypes
  <1>4. FileTruth'
    BY <1>1, <1>2, FileGone DEF RInv
  <1>5. Progress' /\ Obtained' /\ since' <= challenges'
    BY <1>1, <1>2, FactsKept DEF RInv, RunInv, chain
  <1>6. RunInv'
    BY <1>1, <1>5 DEF RunInv
  <1> QED
    BY <1>2, <1>3, <1>4, <1>6 DEF RInv

LEMMA FailKeeps ==
    ASSUME RInv, Fail
    PROVE  RInv'
  <1>1. /\ status = "running" /\ status' = "failed"
        /\ orphans' = IF phase = "wait" THEN Append(orphans, tx) ELSE orphans
        /\ UNCHANGED <<command, since, at, phase, machine, state, teeAttestInstructionID,
                       instructionID, tx, receipt, stateFile, chain>>
    BY DEF Fail, flags, result
  <1>2. orphans' \in Seq(Calls)
    <2>1. phase = "wait" => tx \in Calls
      BY <1>1 DEF RInv, RunInv, Waiting
    <2> QED
      BY <1>1, <2>1 DEF RInv, ChainInv
  <1>3. ChainInv' /\ Grows
    BY <1>1, <1>2, ChainKept DEF RInv
  <1>4. LocalTypes'
    BY <1>1 DEF RInv, LocalTypes
  <1>5. FileTruth'
    BY <1>1, <1>3, FactsKept DEF RInv
  <1> QED
    BY <1>1, <1>3, <1>4, <1>5, NotRunning DEF RInv

LEMMA BeginKeeps ==
    ASSUME RInv, NEW cmd \in Commands, NEW res \in Resumes, Begin(cmd, res)
    PROVE  RInv'
  <1>1. /\ stateFile' \in {stateFile, Missing}
        /\ command' = cmd
        /\ since' = IF stateFile' = Missing THEN challenges ELSE 0
        /\ status' = IF stateFile' = Torn THEN "failed" ELSE "running"
        /\ state' = IF stateFile' \in {Missing, Torn} THEN NoState ELSE stateFile'
        /\ teeAttestInstructionID' = 0
        /\ instructionID' \in IF "a" \in cmd THEN {0} ELSE 0..Len(checks)
        /\ at' = 1 /\ phase' = "begin"
        /\ UNCHANGED <<machine, tx, receipt, orphans, chain>>
    BY DEF Begin, StaleRemoved, OrMishap
  <1>2. ChainInv' /\ Grows
    BY <1>1, ChainKept DEF RInv, ChainInv
  <1>3. stateFile' \in States \cup {Missing, Torn}
    BY <1>1 DEF RInv, LocalTypes
  <1>4. LocalTypes'
    <2>1. cmd \subseteq {"r", "R", "a", "p"}
      BY RegistrationAssumption
    <2>2. state' \in States
      BY <1>1, <1>3 DEF States, NoState
    <2>3. instructionID' \in Nat
      BY <1>1 DEF RInv, ChainInv
    <2>4. since' \in Nat
      BY <1>1 DEF RInv, ChainInv
    <2> QED
      BY <1>1, <1>3, <2>1, <2>2, <2>3, <2>4 DEF RInv, LocalTypes
  <1>5. UNCHANGED <<registered, challenges, checks>>
    BY <1>1 DEF chain
  <1>6. FileTruth'
    <2>1. CASE stateFile' = stateFile
      BY <1>5, <2>1 DEF RInv, FileTruth, Issued, Checked
    <2>2. CASE stateFile' = Missing
      BY <2>2, RegistrationAssumption DEF FileTruth
    <2> QED
      BY <1>1, <2>1, <2>2
  <1>7. since' <= challenges'
    BY <1>1, <1>5 DEF RInv, ChainInv
  <1>8. Progress'
    <2>1. CASE stateFile' \in {Missing, Torn}
      BY <1>1, <2>1 DEF Progress, NoState
    <2>2. CASE stateFile' \in States /\ stateFile' \notin {Missing, Torn}
      <3>1. since' = 0 /\ state' = stateFile'
        BY <1>1, <2>2
      <3>2. \A i \in DOMAIN checks' : checks'[i] \in Nat /\ 0 < checks'[i]
        BY <1>2 DEF ChainInv, Issued
      <3> QED
        BY <1>2, <1>6, <2>2, <3>1, <3>2
           DEF FileTruth, Progress, Fresh, FreshCheck, Issued, Checked, ChainInv
    <2> QED
      BY <1>3, <2>1, <2>2
  <1>9. Obtained'
    BY <1>1 DEF Obtained
  <1>10. RunInv'
    <2>1. CASE status' = "failed"
      BY <2>1, NotRunning
    <2>2. CASE status' = "running"
      BY <1>1, <1>7, <1>8, <1>9, <2>2, BetweenCalls
    <2> QED
      BY <1>1, <2>1, <2>2
  <1> QED
    BY <1>2, <1>4, <1>6, <1>10 DEF RInv

------------------------------------------------------------------------------
(* The chain moves *)

\* What is mined for others takes nothing from a run.
LEMMA MineOrphanKeeps ==
    ASSUME RInv, MineOrphan
    PROVE  RInv'
  <1>1. /\ UNCHANGED <<status, command, since, at, phase, machine, state,
                       teeAttestInstructionID, instructionID, tx, receipt, stateFile>>
    BY DEF MineOrphan, flags, result
  <1>2. Head(orphans) \in Calls /\ orphans' \in Seq(Calls)
    BY DEF MineOrphan, RInv, ChainInv
  <1>3. ChainInv' /\ Grows
    BY <1>2, MinedGrows DEF MineOrphan, RInv
  <1>4. LocalTypes'
    BY <1>1 DEF RInv, LocalTypes
  <1>5. FileTruth'
    BY <1>1, <1>3, FactsKept DEF RInv
  <1>6. RunInv'
    <2>1. /\ \A c : Fresh(c) => Fresh(c)'
          /\ \A c : FreshCheck(c) => FreshCheck(c)'
          /\ Progress => Progress'
          /\ Obtained => Obtained'
      BY <1>1, <1>3, FactsKept DEF RInv
    <2>2. since <= challenges => since' <= challenges'
      BY <1>1, <1>3 DEF Grows, RInv, ChainInv, LocalTypes
    <2>3. step' = step
      BY <1>1 DEF step
    <2>4. Waiting => Waiting'
      BY <1>1, <2>1, <2>3 DEF Waiting
    <2>5. Receipt => Receipt'
      BY <1>1, <1>3, <2>1, <2>3 DEF Receipt, Grows
    <2>6. Saving => Saving'
      BY <1>1, <1>3, <2>1, <2>3 DEF Saving, Grows
    <2> QED
      BY <1>1, <2>1, <2>2, <2>4, <2>5, <2>6 DEF RInv, RunInv
  <1> QED
    BY <1>3, <1>4, <1>5, <1>6 DEF RInv

\* A receipt of success is about the instruction this run issued.
LEMMA MineOwnKeeps ==
    ASSUME RInv, MineOwn
    PROVE  RInv'
  <1>1. /\ status = "running" /\ at <= 4 /\ phase = "wait" /\ phase' = "back"
        /\ Mined(tx)
        /\ receipt' = [success |-> CanExecute(tx),
                       id |-> IF tx.op = "check" THEN Len(checks') ELSE challenges']
        /\ UNCHANGED <<status, command, since, at, machine, state, teeAttestInstructionID,
                       instructionID, tx, stateFile, orphans>>
    BY DEF MineOwn, Running, flags, result
  <1>2. Waiting /\ Progress /\ Obtained /\ since <= challenges
    BY <1>1 DEF RInv, RunInv
  <1>3. tx \in Calls
    BY <1>1, <1>2 DEF Waiting
  <1>4. ChainInv' /\ Grows
    BY <1>1, <1>3, MinedGrows DEF RInv, ChainInv
  <1>5. FileTruth' /\ Progress' /\ Obtained'
    BY <1>1, <1>2, <1>4, FactsKept DEF RInv
  <1>6. CanExecute(tx) \in BOOLEAN /\ Len(checks') \in Nat /\ challenges' \in Nat
    BY <1>4 DEF ChainInv, CanExecute
  <1>7. receipt' \in [success : BOOLEAN, id : Nat]
    BY <1>1, <1>6
  <1>8. LocalTypes'
    BY <1>1, <1>7 DEF RInv, LocalTypes
  <1>9. Receipt'
    <2>1. step' = step
      BY <1>1 DEF step
    <2>2. SUFFICES ASSUME CanExecute(tx)
                   PROVE  /\ step \in {"r", "R"} => registered' /\ Fresh(receipt.id)'
                          /\ step = "a" => FreshCheck(receipt.id)'
                          /\ step = "p" => production'
      BY <1>1, <1>6, <2>1 DEF Receipt
    <2>3. Execute(tx)
      BY <1>1, <2>2 DEF Mined
    <2>4. CASE step \in {"r", "R"}
      <3>1. tx.op \in {"register", "attest"}
        BY <1>1, <1>2, <2>4 DEF Waiting
      <3>2. registered' = TRUE /\ challenges' = challenges + 1 /\ receipt'.id = challenges'
        BY <1>1, <2>3, <3>1 DEF Execute
      <3> QED
        BY <1>1, <1>2, <2>4, <3>2 DEF Fresh, RInv, ChainInv, LocalTypes
    <2>5. CASE step = "a"
      <3>1. tx.op = "check" /\ Fresh(tx.id)
        BY <1>1, <1>2, <2>5 DEF Waiting
      <3>2. checks' = Append(checks, tx.id) /\ receipt'.id = Len(checks')
        BY <1>1, <2>3, <3>1 DEF Execute
      <3>3. Len(checks') \in DOMAIN checks' /\ checks'[Len(checks')] = tx.id
        BY <3>1, <3>2 DEF RInv, ChainInv, Fresh
      <3> QED
        BY <1>1, <2>5, <3>1, <3>2, <3>3 DEF Fresh, FreshCheck
    <2>6. CASE step = "p"
      <3>1. tx.op = "production"
        BY <1>1, <1>2, <2>6 DEF Waiting
      <3> QED
        BY <2>3, <2>6, <3>1 DEF Execute
    <2> QED
      BY <2>4, <2>5, <2>6
  <1>10. since' <= challenges'
    BY <1>1, <1>2, <1>4 DEF Grows, RInv, ChainInv, LocalTypes
  <1>11. RunInv'
    BY <1>1, <1>5, <1>9, <1>10 DEF RunInv, Waiting, Saving
  <1> QED
    BY <1>4, <1>5, <1>8, <1>11 DEF RInv

LEMMA ExpireKeeps ==
    ASSUME RInv, NEW c \in live, Expire(c)
    PROVE  RInv'
  <1>1. /\ live' \subseteq live
        /\ UNCHANGED <<status, command, since, at, phase, machine, state,
                       teeAttestInstructionID, instructionID, tx, receipt, stateFile,
                       orphans, registered, challenges, checks, proofs, production>>
    BY DEF Expire, flags, result
  <1>2. ChainInv'
    BY <1>1 DEF RInv, ChainInv, Issued, Checked
  <1>3. LocalTypes'
    BY <1>1 DEF RInv, LocalTypes
  <1>4. FileTruth'
    BY <1>1 DEF RInv, FileTruth, Issued, Checked
  <1>5. RunInv'
    <2>1. Progress' = Progress /\ Obtained' = Obtained
      BY <1>1 DEF Progress, Obtained, Fresh, FreshCheck
    <2>2. Waiting' = Waiting /\ Receipt' = Receipt /\ Saving' = Saving
      BY <1>1 DEF Waiting, Receipt, Saving, Fresh, FreshCheck, step
    <2> QED
      BY <1>1, <2>1, <2>2 DEF RInv, RunInv
  <1> QED
    BY <1>2, <1>3, <1>4, <1>5 DEF RInv

------------------------------------------------------------------------------
(* The theorems *)

LEMMA InitRInv ==
    ASSUME Init
    PROVE  RInv
  <1>1. ChainInv
    <2>1. registered \in BOOLEAN /\ production \in BOOLEAN
      BY DEF Init
    <2>2. /\ challenges = 0 /\ checks = <<>> /\ orphans = <<>>
          /\ live = {} /\ proofs = {}
      BY DEF Init
    <2>3. checks \in Seq(Nat) /\ orphans \in Seq(Calls) /\ DOMAIN checks = {}
      BY <2>2
    <2> QED
      BY <2>1, <2>2, <2>3 DEF ChainInv, Issued, Checked
  <1>2. LocalTypes
    <2>1. machine \in BOOLEAN /\ receipt \in [success : BOOLEAN, id : Nat]
      BY DEF Init
    <2>2. state \in States
      BY DEF Init, States, NoState
    <2> QED
      BY <2>1, <2>2 DEF Init, LocalTypes
  <1>3. FileTruth
    BY RegistrationAssumption DEF Init, FileTruth
  <1>4. RunInv
    BY DEF Init, RunInv
  <1> QED
    BY <1>1, <1>2, <1>3, <1>4 DEF RInv

LEMMA NextRInv ==
    ASSUME RInv, [Next]_vars
    PROVE  RInv'
  <1>1. CASE Start
    <2>1. PICK cmd \in Commands, res \in Resumes : Begin(cmd, res)
      BY <1>1 DEF Start
    <2> QED
      BY <2>1, BeginKeeps
  <1>2. CASE Run
    <2>1. CASE NotAsked
      BY <2>1, NotAskedKeeps
    <2>2. CASE Completed
      BY <2>2, CompletedKeeps
    <2>3. CASE GetTeeMachine
      BY <2>3, GetTeeMachineKeeps
    <2>4. CASE Send
      BY <2>4, SendKeeps
    <2>5. CASE CheckTx
      BY <2>5, CheckTxKeeps
    <2>6. CASE saveState
      BY <2>6, saveStateKeeps
    <2>7. CASE Finish
      BY <2>7, FinishKeeps
    <2> QED
      BY <1>2, <2>1, <2>2, <2>3, <2>4, <2>5, <2>6, <2>7 DEF Run
  <1>3. CASE Fail
    BY <1>3, FailKeeps
  <1>4. CASE MineOrphan
    BY <1>4, MineOrphanKeeps
  <1>5. CASE MineOwn
    BY <1>5, MineOwnKeeps
  <1>6. CASE \E c \in live : Expire(c)
    BY <1>6, ExpireKeeps
  <1>7. CASE UNCHANGED vars
    <2>1. UNCHANGED <<status, command, since, at, phase, machine, state,
                      teeAttestInstructionID, instructionID, tx, receipt, stateFile,
                      orphans, registered, challenges, live, checks, proofs, production>>
      BY <1>7 DEF vars, flags, result, chain
    <2>2. ChainInv' = ChainInv /\ LocalTypes' = LocalTypes /\ FileTruth' = FileTruth
      BY <2>1 DEF ChainInv, LocalTypes, FileTruth, Issued, Checked
    <2>3. Progress' = Progress /\ Obtained' = Obtained
      BY <2>1 DEF Progress, Obtained, Fresh, FreshCheck
    <2>4. Waiting' = Waiting /\ Receipt' = Receipt /\ Saving' = Saving
      BY <2>1 DEF Waiting, Receipt, Saving, Fresh, FreshCheck, step
    <2>5. RunInv' = RunInv
      BY <2>1, <2>3, <2>4 DEF RunInv
    <2> QED
      BY <2>2, <2>5 DEF RInv
  <1> QED
    BY <1>1, <1>2, <1>3, <1>4, <1>5, <1>6, <1>7 DEF Next

\* RegisterNode keeps RInv through crashes, lost receipts, late transactions and resumes:
\* what the file, the memory and the receipt in hand say is on the chain, and of the
\* present registration.
THEOREM RegistrationInvariance == Spec => []RInv
  BY InitRInv, NextRInv, PTL DEF Spec

\* The ids a run and the file hold, also after the run has failed, when RunInv says nothing
\* of them.
Names ==
    /\ Named(state)
    /\ stateFile \in States => Named(stateFile)
    /\ teeAttestInstructionID \in {0} \cup Issued
    /\ instructionID \in {0} \cup Checked

LEMMA InstructionsStay ==
    ASSUME RInv, [Next]_vars
    PROVE  Issued \subseteq Issued' /\ Checked \subseteq Checked'
  <1>0. ASSUME ChainInv', Grows PROVE Issued \subseteq Issued' /\ Checked \subseteq Checked'
    BY <1>0 DEF RInv, ChainInv, Grows, Issued, Checked
  <1>1. CASE MineOrphan
    <2>1. Head(orphans) \in Calls /\ orphans' \in Seq(Calls) /\ Mined(Head(orphans))
      BY <1>1 DEF MineOrphan, RInv, ChainInv
    <2> QED
      BY <1>0, <2>1, MinedGrows DEF RInv
  <1>2. CASE MineOwn
    <2>1. Mined(tx) /\ tx \in Calls /\ orphans' \in Seq(Calls)
      BY <1>2 DEF MineOwn, Running, RInv, RunInv, Waiting, ChainInv
    <2> QED
      BY <1>0, <2>1, MinedGrows DEF RInv
  <1>3. CASE ~MineOrphan /\ ~MineOwn
    <2>1. UNCHANGED <<challenges, checks>>
      BY <1>3 DEF Next, Start, Begin, Run, NotAsked, Completed, GetTeeMachine, Send, CheckTx,
                  saveState, Finish, Fail, Expire, vars, chain
    <2> QED
      BY <2>1 DEF Issued, Checked
  <1> QED
    BY <1>1, <1>2, <1>3

LEMMA NextNames ==
    ASSUME RInv, Names, [Next]_vars
    PROVE  Names'
  <1>1. Issued \subseteq Issued' /\ Checked \subseteq Checked'
    BY InstructionsStay
  <1>2. ASSUME NEW s, Named(s)
        PROVE  s.attest \in {0} \cup Issued' /\ s.check \in {0} \cup Checked'
    BY <1>1, <1>2 DEF Named
  <1>3. ASSUME UNCHANGED <<state, teeAttestInstructionID, instructionID>>,
               stateFile' \in {stateFile, state, Missing, Torn}
        PROVE  Names'
    BY <1>1, <1>2, <1>3, RegistrationAssumption DEF Names, Named
  <1>4. CASE Start
    <2>1. PICK cmd \in Commands, res \in Resumes : Begin(cmd, res)
      BY <1>4 DEF Start
    <2>2. /\ stateFile' \in {stateFile, Missing}
          /\ state' = IF stateFile' \in {Missing, Torn} THEN NoState ELSE stateFile'
          /\ teeAttestInstructionID' = 0
          /\ instructionID' \in 0..Len(checks)
      BY <2>1 DEF Begin, StaleRemoved, OrMishap, RInv, ChainInv
    <2>3. instructionID' \in {0} \cup Checked
      BY <2>2 DEF Checked, RInv, ChainInv
    <2>4. stateFile \in States \cup {Missing, Torn} /\ Named(NoState)
      BY DEF RInv, LocalTypes, Named, NoState
    <2> QED
      BY <1>1, <1>2, <2>2, <2>3, <2>4, RegistrationAssumption DEF Names, Named
  <1>5. CASE Completed
    <2>1. /\ teeAttestInstructionID' \in {teeAttestInstructionID, state.attest}
          /\ instructionID' \in {instructionID, state.check}
          /\ UNCHANGED <<state, stateFile>>
      BY <1>5 DEF Completed, Recalled
    <2> QED
      BY <1>1, <1>2, <2>1 DEF Names, Named
  <1>6. CASE CheckTx
    <2>1. /\ status = "running" /\ phase = "back" /\ UNCHANGED stateFile /\ Receipt
          /\ state \in States
      BY <1>6 DEF CheckTx, Running, RInv, RunInv, LocalTypes
    <2>2. CASE Reverted
      BY <1>3, <1>6, <2>1, <2>2 DEF CheckTx, result
    <2>3. CASE ~Reverted /\ Attested
      <3>1. Fresh(receipt.id)
        BY <2>1, <2>3 DEF Receipt, Reverted, Attested
      <3>2. receipt.id \in Issued
        BY <3>1 DEF Fresh, Issued, RInv, ChainInv, LocalTypes
      <3>3. /\ teeAttestInstructionID' = receipt.id /\ UNCHANGED instructionID
            /\ state'.attest = receipt.id /\ state'.check = state.check
        BY <2>1, <2>3 DEF Attested, States
      <3> QED
        BY <1>1, <1>2, <2>1, <3>2, <3>3 DEF Names, Named
    <2>4. CASE ~Reverted /\ AvailabilityChecked
      <3>1. receipt.id \in Checked
        BY <2>1, <2>4 DEF Receipt, Reverted, AvailabilityChecked, FreshCheck, Checked
      <3>2. /\ instructionID' = receipt.id /\ UNCHANGED teeAttestInstructionID
            /\ state'.attest = state.attest /\ state'.check = receipt.id
        BY <2>1, <2>4 DEF AvailabilityChecked, States
      <3> QED
        BY <1>1, <1>2, <2>1, <3>1, <3>2 DEF Names, Named
    <2>5. CASE ~Reverted /\ InProduction
      BY <1>3, <2>1, <2>5 DEF InProduction, result
    <2> QED
      BY <1>6, <2>2, <2>3, <2>4, <2>5 DEF CheckTx
  <1>7. CASE ~Start /\ ~Completed /\ ~CheckTx
    <2>1. /\ UNCHANGED <<state, teeAttestInstructionID, instructionID>>
          /\ stateFile' \in {stateFile, state, Missing, Torn}
      BY <1>7 DEF Next, Run, NotAsked, GetTeeMachine, Send, saveState, Finish, Fail, MineOrphan,
                  MineOwn, Expire, OrMishap, vars, result
    <2> QED
      BY <1>3, <2>1
  <1> QED
    BY <1>4, <1>5, <1>6, <1>7

\* The variables of RegisterNode, its file and the registries keep their types: the file is
\* absent, torn or a registrationState, and no id in it, in memory or in a local variable is
\* of an instruction of another kind or of one that was never issued.
THEOREM RegistrationTypes == Spec => []RegistrationTypeOK
  <1>1. Init => Names
    BY RegistrationAssumption DEF Init, Names, Named, NoState
  <1>2. RInv /\ Names => RegistrationTypeOK
    BY DEF RInv, ChainInv, LocalTypes, Names, RegistrationTypeOK
  <1>3. Spec => []Names
    BY <1>1, NextNames, RegistrationInvariance, PTL DEF Spec
  <1> QED
    BY <1>2, <1>3, RegistrationInvariance, PTL

\* saveState only ever writes steps that were mined, and no later step of RegisterNode, of
\* this run or another, makes the file false.
THEOREM FileTruthHolds == Spec => []FileTruth
  <1>1. RInv => FileTruth
    BY DEF RInv
  <1> QED
    BY <1>1, RegistrationInvariance, PTL

\* RegisterNode resumed from the file has what a run that did the step itself would have.
THEOREM NothingSkippedHolds == Spec => []NothingSkipped
  <1>1. RInv => NothingSkipped
    <2> SUFFICES ASSUME RInv PROVE NothingSkipped
      OBVIOUS
    <2>1. status \in {"running", "done"} => Obtained
      BY DEF RInv, RunInv
    <2>2. \A c : Fresh(c) => c \in Issued
      BY DEF Fresh, Issued, RInv, ChainInv, LocalTypes
    <2>3. \A c : FreshCheck(c) => c \in Checked
      BY DEF FreshCheck, Checked
    <2>4. status = "done" => at = 5
      BY DEF RInv, RunInv
    <2>5. at \in 1..5
      BY DEF RInv, LocalTypes
    <2> QED
      BY <2>1, <2>2, <2>3, <2>4, <2>5 DEF NothingSkipped, Obtained
  <1> QED
    BY <1>1, RegistrationInvariance, PTL

\* The check that ToProduction relies on is of a challenge of the present registration.
THEOREM FreshChallengeHolds == Spec => []FreshChallenge
  <1>1. RInv => FreshChallenge
    <2> SUFFICES ASSUME RInv, status \in {"running", "done"}, at > 3, "a" \in command
                 PROVE  checks[instructionID] > since
      BY DEF FreshChallenge
    <2>1. FreshCheck(instructionID)
      BY DEF RInv, RunInv, Obtained
    <2>2. checks[instructionID] \in Nat /\ since \in Nat
      BY <2>1 DEF FreshCheck, RInv, ChainInv, LocalTypes
    <2> QED
      BY <2>1, <2>2 DEF FreshCheck
  <1> QED
    BY <1>1, RegistrationInvariance, PTL

==============================================================================
