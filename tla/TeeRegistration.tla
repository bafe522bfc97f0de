--------------------------- MODULE TeeRegistration ---------------------------
(***************************************************************************)
(* tools/cmd/register-tee and RegisterNode of tools/pkg/fccutils: a TEE    *)
(* machine is registered by four steps, each a transaction whose receipt   *)
(* is waited for, "r" (register, or attest again), "R" (attest), "a" (an   *)
(* availability check of the attested machine) and "p" (to production).    *)
(* After r, R and a the progress is saved in a file, which the next run    *)
(* goes by if it is given -resume.  A run may end anywhere, and its        *)
(* transaction be mined after that.  The registries are not in the         *)
(* repository: they are modelled from how the tools use them.              *)
(***************************************************************************)
EXTENDS Naturals, Sequences

CONSTANTS
    Missing,        \* no state file
    Torn,           \* a state file whose writing did not end: it does not parse
    Commands,       \* the values of -command: sets of steps
    Resumes,        \* the values of -resume
    MaxChallenges,  \* bound: no new run once so many challenges were issued
    MaxMishaps      \* bound: what goes wrong, of any kind

Order == <<"r", "R", "a", "p">>

\* registrationState.  Instructions are numbered as they are issued; the zero hash is 0.
States == [steps : SUBSET {"r", "R", "a"}, attest : Nat, check : Nat]
NoState == [steps |-> {}, attest |-> 0, check |-> 0]

ASSUME RegistrationAssumption ==
    /\ Missing \notin States /\ Torn \notin States /\ Missing # Torn
    /\ Commands \subseteq SUBSET {"r", "R", "a", "p"}
    /\ Resumes \subseteq BOOLEAN
    /\ MaxChallenges \in Nat /\ MaxMishaps \in Nat

VARIABLES
    status,         \* of the last run: "off", "running", "failed" or "done"
    command,        \* its flags -command and -resume
    resume,
    at,             \* its step, by position in Order; 5 after the last
    phase,          \* in the step: "begin", "send", "wait", "back" or "save"
    machine,        \* what GetTeeMachine said: registered already
    state,          \* the progress in memory
    teeAttestInstructionID,
    instructionID,
    tx,             \* the transaction of this run
    receipt,
    since,          \* history: challenges issued when a run began from nothing, else 0
    stateFile,
    orphans,        \* transactions of runs that ended before they were mined
    registered,     \* the registries: is the machine known,
    challenges,     \* how many attestation challenges were issued,
    live,           \* which of them are neither used up nor too old,
    checks,         \* the availability checks, by the challenge each is about,
    proofs,         \* those the data providers signed a proof of,
    production,     \* and is the machine in production
    mishaps

chain   == <<registered, challenges, live, checks, proofs, production>>
result  == <<teeAttestInstructionID, instructionID, state>>
flags   == <<command, resume, since>>
vars    == <<status, flags, at, phase, machine, result, tx, receipt, stateFile,
             orphans, chain, mishaps>>

Init ==
    /\ status = "off" /\ command = {} /\ resume = FALSE /\ since = 0
    /\ at = 1 /\ phase = "begin" /\ machine = FALSE
    /\ state = NoState /\ teeAttestInstructionID = 0 /\ instructionID = 0
    /\ tx = [op |-> "none", id |-> 0] /\ receipt = [success |-> FALSE, id |-> 0]
    /\ stateFile = Missing /\ orphans = <<>>
    /\ registered = FALSE /\ challenges = 0 /\ live = {} /\ checks = <<>>
    /\ proofs = {} /\ production = FALSE
    /\ mishaps = 0

Mishap == mishaps < MaxMishaps /\ mishaps' = mishaps + 1

\* It goes well, or what is given happens instead.
OrMishap(well, instead) == (well /\ UNCHANGED mishaps) \/ (instead /\ Mishap)

step == Order[at]
Running(p) == status = "running" /\ at <= 4 /\ phase = p
ToDo == step \in command \ state.steps

------------------------------------------------------------------------------
(* A run *)

\* A plausible mistake: the file is used whenever there is one.
NeverRemoved(res) == UNCHANGED <<stateFile, mishaps>>

\* Unless it resumes, the run removes the file, which may fail with a warning.
StaleRemoved(res) ==
    IF res THEN UNCHANGED <<stateFile, mishaps>>
    ELSE OrMishap(stateFile' = Missing, UNCHANGED stateFile)

\* main, then loadState.  The check of a run without "a" is the one given with -i.
Begin(cmd, res) ==
    /\ status # "running"
    /\ challenges < MaxChallenges
    /\ StaleRemoved(res)
    /\ command' = cmd /\ resume' = res
    /\ since' = IF stateFile' = Missing THEN challenges ELSE 0
    /\ status' = IF stateFile' = Torn THEN "failed" ELSE "running"
    /\ state' = IF stateFile' \in {Missing, Torn} THEN NoState ELSE stateFile'
    /\ teeAttestInstructionID' = 0
    /\ instructionID' \in IF "a" \in cmd THEN {0} ELSE 0..Len(checks)
    /\ at' = 1 /\ phase' = "begin"
    /\ UNCHANGED <<machine, tx, receipt, orphans, chain>>

\* A step that is not asked for, and one the file says is completed.
NotAsked ==
    /\ Running("begin")
    /\ step \notin command
    /\ at' = at + 1
    /\ UNCHANGED <<status, flags, phase, machine, result, tx, receipt, stateFile, orphans,
                   chain, mishaps>>

\* A plausible mistake: the id that the file has is not read back.
Forgotten == teeAttestInstructionID' = teeAttestInstructionID /\ instructionID' = instructionID

Recalled ==
    /\ teeAttestInstructionID' = IF step = "a" THEN teeAttestInstructionID ELSE state.attest
    /\ instructionID' = IF step = "a" THEN state.check ELSE instructionID

Completed ==
    /\ Running("begin")
    /\ step \in command \cap state.steps
    /\ Recalled
    /\ at' = at + 1
    /\ UNCHANGED <<status, flags, phase, machine, state, tx, receipt, stateFile, orphans,
                   chain, mishaps>>

\* A plausible mistake: a machine that is registered has an attestation already.
ReuseLatest ==
    /\ Running("begin")
    /\ step = "r" /\ ToDo
    /\ machine' = registered
    /\ IF registered
       THEN teeAttestInstructionID' = challenges /\ at' = at + 1 /\ UNCHANGED phase
       ELSE phase' = "send" /\ UNCHANGED <<teeAttestInstructionID, at>>
    /\ UNCHANGED <<status, flags, instructionID, state, tx, receipt, stateFile, orphans,
                   chain, mishaps>>

\* "r" asks whether the machine is registered already; an error counts as no.
GetTeeMachine ==
    /\ Running("begin")
    /\ step = "r" /\ ToDo
    /\ OrMishap(machine' = registered, machine' = FALSE)
    /\ phase' = "send"
    /\ UNCHANGED <<status, flags, at, result, tx, receipt, stateFile, orphans, chain>>

\* What the registries accept.
CanExecute(t) ==
    \/ t.op = "register" /\ ~registered
    \/ t.op = "attest" /\ registered
    \/ t.op = "check" /\ t.id \in live
    \/ t.op = "production" /\ t.id \in proofs

Call ==
    CASE step = "r" -> [op |-> IF machine THEN "attest" ELSE "register", id |-> 0]
      [] step = "R" -> [op |-> "attest", id |-> 0]
      [] step = "a" -> [op |-> "check", id |-> teeAttestInstructionID]
      [] OTHER      -> [op |-> "production", id |-> instructionID]

\* Estimating the gas of what would revert is an error, and so is a proof that does not come.
Send ==
    /\ Running(IF step = "r" THEN "send" ELSE "begin")
    /\ ToDo
    /\ IF CanExecute(Call)
       THEN tx' = Call /\ phase' = "wait" /\ UNCHANGED status
       ELSE status' = "failed" /\ UNCHANGED <<tx, phase>>
    /\ UNCHANGED <<flags, at, machine, result, receipt, stateFile, orphans, chain, mishaps>>

\* A plausible mistake: the id of the attestation is saved as that of the check.
Misfiled ==
    /\ step \in {"r", "R"}
    /\ teeAttestInstructionID' = receipt.id
    /\ state' = [state EXCEPT !.steps = @ \cup {step}, !.check = receipt.id]
    /\ phase' = "save"
    /\ UNCHANGED <<instructionID, at>>

\* A step after its receipt: the instruction's id, and the progress to save.
Attested ==
    /\ step \in {"r", "R"}
    /\ teeAttestInstructionID' = receipt.id
    /\ state' = [state EXCEPT !.steps = @ \cup {step}, !.attest = receipt.id]
    /\ phase' = "save"
    /\ UNCHANGED <<instructionID, at>>

AvailabilityChecked ==
    /\ step = "a"
    /\ instructionID' = receipt.id
    /\ state' = [state EXCEPT !.steps = @ \cup {step}, !.check = receipt.id]
    /\ phase' = "save"
    /\ UNCHANGED <<teeAttestInstructionID, at>>

InProduction == step = "p" /\ at' = 5 /\ phase' = "begin" /\ UNCHANGED result

\* A plausible mistake: a receipt is a receipt.
Unread == FALSE
Reverted == ~receipt.success

CheckTx ==
    /\ Running("back")
    /\ IF Reverted
       THEN status' = "failed" /\ UNCHANGED <<at, phase, result>>
       ELSE (Attested \/ AvailabilityChecked \/ InProduction) /\ UNCHANGED status
    /\ UNCHANGED <<flags, machine, tx, receipt, stateFile, orphans, chain, mishaps>>

\* WriteFile truncates and writes; that it failed is a warning.
saveState ==
    /\ Running("save")
    /\ OrMishap(stateFile' = state, stateFile' \in {stateFile, Torn})
    /\ at' = at + 1 /\ phase' = "begin"
    /\ UNCHANGED <<status, flags, machine, result, tx, receipt, orphans, chain>>

\* All steps completed: the file is removed, and nobody looks whether it was.
Finish ==
    /\ status = "running" /\ at = 5
    /\ status' = "done"
    /\ OrMishap(stateFile' = Missing, stateFile' = stateFile)
    /\ UNCHANGED <<flags, at, phase, machine, result, tx, receipt, orphans, chain>>

\* The process dies, a call gives an error, a receipt has not the logs it should have, the
\* proxy's signing policy is out of sync, the two minutes for a receipt are over.  What was
\* sent stays sent.
Fail ==
    /\ status = "running"
    /\ status' = "failed"
    /\ Mishap
    /\ orphans' = IF phase = "wait" THEN Append(orphans, tx) ELSE orphans
    /\ UNCHANGED <<flags, at, phase, machine, result, tx, receipt, stateFile, chain>>

------------------------------------------------------------------------------
(* The registries *)

\* A challenge is good for one check; a check is worth something if the data providers
\* sign it.
Execute(t) ==
    \/ /\ t.op \in {"register", "attest"}
       /\ registered' = TRUE
       /\ challenges' = challenges + 1
       /\ live' = live \cup {challenges + 1}
       /\ UNCHANGED <<checks, proofs, production, mishaps>>
    \/ /\ t.op = "check"
       /\ checks' = Append(checks, t.id)
       /\ live' = live \ {t.id}
       /\ OrMishap(proofs' = proofs \cup {Len(checks) + 1}, proofs' = proofs)
       /\ UNCHANGED <<registered, challenges, production>>
    \/ /\ t.op = "production"
       /\ production' = TRUE
       /\ UNCHANGED <<registered, challenges, live, checks, proofs, mishaps>>

Mined(t) == IF CanExecute(t) THEN Execute(t) ELSE UNCHANGED <<chain, mishaps>>

\* The transactions of the account are mined in the order they were sent.
MineOrphan ==
    /\ orphans # <<>>
    /\ Mined(Head(orphans))
    /\ orphans' = Tail(orphans)
    /\ UNCHANGED <<status, flags, at, phase, machine, result, tx, receipt, stateFile>>

MineOwn ==
    /\ orphans = <<>>
    /\ Running("wait")
    /\ Mined(tx)
    /\ phase' = "back"
    /\ receipt' = [success |-> CanExecute(tx),
                   id |-> IF tx.op = "check" THEN Len(checks') ELSE challenges']
    /\ UNCHANGED <<status, flags, at, machine, result, tx, stateFile, orphans>>

\* A challenge is good for some time.
Expire(c) ==
    /\ c \in live
    /\ live' = live \ {c}
    /\ Mishap
    /\ UNCHANGED <<status, flags, at, phase, machine, result, tx, receipt, stateFile,
                   orphans, registered, challenges, checks, proofs, production>>

------------------------------------------------------------------------------
Start == \E cmd \in Commands, res \in Resumes : Begin(cmd, res)

Run == NotAsked \/ Completed \/ GetTeeMachine \/ Send \/ CheckTx \/ saveState \/ Finish

Next ==
    \/ Start \/ Run \/ Fail
    \/ MineOrphan \/ MineOwn
    \/ \E c \in live : Expire(c)

Spec == Init /\ [][Next]_vars

\* A process that does not die goes on, what is sent is mined, and the operator runs the
\* command again.
FairSpec == Spec /\ WF_vars(Start) /\ WF_vars(Run) /\ WF_vars(MineOrphan \/ MineOwn)

------------------------------------------------------------------------------
Issued  == 1..challenges
Checked == DOMAIN checks

\* Every id a registrationState has is the zero hash or of an instruction of its kind.
Named(s) == s.attest \in {0} \cup Issued /\ s.check \in {0} \cup Checked

\* The variables of RegisterNode and the registries have their types, the file is absent,
\* torn or a registrationState; and neither the progress in memory, also of a run that
\* failed, nor the file, nor a local variable names an instruction of another kind or one
\* that was never issued.
RegistrationTypeOK ==
    /\ status \in {"off", "running", "failed", "done"}
    /\ command \subseteq {"r", "R", "a", "p"}
    /\ at \in 1..5
    /\ phase \in {"begin", "send", "wait", "back", "save"}
    /\ state \in States /\ Named(state)
    /\ stateFile \in States \cup {Missing, Torn}
    /\ stateFile \in States => Named(stateFile)
    /\ teeAttestInstructionID \in {0} \cup Issued
    /\ instructionID \in {0} \cup Checked
    /\ live \subseteq Issued /\ proofs \subseteq Checked

\* Wherever a run of RegisterNode ended, the file never says more than what is on the chain: a step it
\* calls completed was mined, and its instructions exist.
FileTruth ==
    stateFile \in States =>
        /\ "r" \in stateFile.steps => registered
        /\ stateFile.steps \cap {"r", "R"} # {} => stateFile.attest \in Issued
        /\ "a" \in stateFile.steps => stateFile.check \in Checked

\* A resumed RegisterNode has, after each step it was asked for, what a run that did the
\* step has; and when it says that the machine is registered, it is in production.
NothingSkipped ==
    /\ status \in {"running", "done"} =>
         /\ at > 1 /\ "r" \in command => registered
         /\ at > 2 /\ command \cap {"r", "R"} # {} => teeAttestInstructionID \in Issued
         /\ at > 3 /\ "a" \in command => instructionID \in Checked
    /\ status = "done" /\ "p" \in command => production

\* What RegisterNode sends to production is a check of a challenge that this run asked for,
\* if it did not begin with a file, however many runs were given up before it.
FreshChallenge ==
    status \in {"running", "done"} /\ at > 3 /\ "a" \in command =>
        checks[instructionID] > since

\* Run again after every failure, register-tee completes the registration, if it starts
\* fresh each time from some time on.  Resumed, it may go on for ever with a challenge that
\* has expired, a check whose proof never comes, or a file it cannot parse.
StartsFresh == ~resume /\ {"r", "a", "p"} \subseteq command
Completes == <>[]StartsFresh => <>production
==============================================================================
