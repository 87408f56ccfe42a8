--------------------------- MODULE ArtifactSetup ----------------------------
(***************************************************************************)
(* priv_tx_setup and bridge_tx_setup: each builds, or finds on disk, the   *)
(* aggregation circuits, the BN128 wrapper and the Groth16 keys of one     *)
(* kind of batch, one file after the other; a run may die at any point,    *)
(* also in the middle of a file.                                           *)
(***************************************************************************)
EXTENDS Naturals, Sequences, SequencesExt, FiniteSets

CONSTANTS MaxCrashes

Kinds == {"priv", "bridge"}

VARIABLES
    code,       \* version of the circuits in the binaries
    disk,       \* kind -> file -> content
    setup,      \* kind -> state of the setup process
    keys,       \* kind -> trusted setups run so far
    verifier,   \* doxa-solidity/src/DoxaBatchTransactionVerifier.sol
    crashes

setupVars == <<code, disk, setup, keys, verifier, crashes>>

\* Files of the three stages in the order they are written; a file stands for those that
\* one call writes and that are missing, torn or whole together as far as its readers can
\* tell.  super is the subtree circuit with the super circuit.
AggFiles(k) ==
    IF k = "priv" THEN <<"manifest", "levels", "super">>
    ELSE <<"manifest", "levels", "pair_leaf", "super">>
BnFiles == <<"common", "verifier_only", "proof", "native", "bn128">>
GrothFiles == <<"groth_dir", "r1cs", "proving_key", "verifying_key", "Verifier_sol">>
KeyFiles == {"r1cs", "proving_key", "verifying_key"}
Files(k) == ToSet(AggFiles(k) \o BnFiles \o GrothFiles) \cup KeyFiles

Absent == [st |-> "absent", v |-> 0, key |-> 0]
Torn == [st |-> "torn", v |-> 0, key |-> 0]
Content(v, key) == [st |-> "whole", v |-> v, key |-> key]

Exist(k, fs) == \A f \in fs : disk[k][f].st # "absent"
Whole(k, fs) == \A f \in fs : disk[k][f].st = "whole"
Versions(k, fs) == {disk[k][f].v : f \in fs}

\* Of the circuits' files only the manifest is looked into before loading, and one that
\* does not parse counts as missing.
GenericAggregator_has_full(k) == Exist(k, {"manifest", "levels"}) /\ Whole(k, {"manifest"})
GenericAggregator_loads(k) == Whole(k, {"manifest", "levels"})
PairLeafCircuit_has(k) == k = "bridge" => Exist(k, {"pair_leaf"})
PairLeafCircuit_loads(k) == k = "bridge" => Whole(k, {"pair_leaf"})
SuperCircuit_has(k) == Exist(k, {"super"})
SuperCircuit_loads(k) == Whole(k, {"super"})

\* Mutant: the super circuit's files are not looked for.
has_full_artifacts_NoSuper(k) == GenericAggregator_has_full(k) /\ PairLeafCircuit_has(k)

\* has_full_artifacts and from_artifacts of PrivTxAggregator and BridgeTxAggregator.
has_full_artifacts(k) == GenericAggregator_has_full(k) /\ PairLeafCircuit_has(k) /\ SuperCircuit_has(k)
from_artifacts_loads(k) == GenericAggregator_loads(k) /\ PairLeafCircuit_loads(k) /\ SuperCircuit_loads(k)

has_full_bn128(k) == Exist(k, {"native", "bn128", "proof"})
bn128_loads(k) == Whole(k, {"native", "bn128", "proof"})

\* Groth16Wrapper::init returns an error when a key file is missing, and the process
\* dies when a file it reads is torn (the Go side returns a null string).
init_finds(k) == Exist(k, KeyFiles)
init_loads(k) == Whole(k, KeyFiles \cup {"common", "verifier_only"})

-----------------------------------------------------------------------------

Idle == [pc |-> "off", todo |-> <<>>, agg |-> {}, v |-> 0, key |-> 0]

SetupInit ==
    /\ code = 1
    /\ disk = [k \in Kinds |-> [f \in Files(k) |-> Absent]]
    /\ setup = [k \in Kinds |-> Idle]
    /\ keys = [k \in Kinds |-> 0]
    /\ verifier = Absent
    /\ crashes = 0

Running(k) == setup[k].pc \notin {"off", "failed", "ready"}

At(k, pc) == setup[k].pc = pc
Goto(k, pc) == setup' = [setup EXCEPT ![k].pc = pc]
\* Write the files one by one, then go on at the next stage.
Store(k, files, v, key) == [pc |-> "store", todo |-> files, agg |-> setup[k].agg, v |-> v, key |-> key]

Start(k) ==
    /\ ~Running(k)
    /\ setup' = [setup EXCEPT ![k] = [Idle EXCEPT !.pc = "stage1"]]
    /\ UNCHANGED <<code, disk, keys, verifier, crashes>>

\* Stage 1: load the aggregator, or build and store it.
Stage1(k) ==
    /\ At(k, "stage1")
    /\ \/ /\ has_full_artifacts(k)
          /\ setup' = [setup EXCEPT ![k] =
                IF from_artifacts_loads(k) THEN [@ EXCEPT !.pc = "stage2", !.agg = Versions(k, ToSet(AggFiles(k)))]
                ELSE [Idle EXCEPT !.pc = "failed"]]
       \/ /\ ~has_full_artifacts(k)
          /\ setup' = [setup EXCEPT ![k] = [Store(k, AggFiles(k), code, 0) EXCEPT !.agg = {code}]]
    /\ UNCHANGED <<code, disk, keys, verifier, crashes>>

\* prove_dummy: padding proofs made with the transaction circuits of the binary and
\* aggregated by the circuits of stage 1.
prove_dummy_succeeds(k) == setup[k].agg = {code}

\* Stage 2: the wrapper is built around a dummy proof.
Stage2(k) ==
    /\ At(k, "stage2")
    /\ \/ has_full_bn128(k) /\ Goto(k, "stage3")
       \/ /\ ~has_full_bn128(k)
          /\ setup' = [setup EXCEPT ![k] = IF prove_dummy_succeeds(k) THEN Store(k, BnFiles, code, 0)
                                           ELSE [Idle EXCEPT !.pc = "failed"]]
    /\ UNCHANGED <<code, disk, keys, verifier, crashes>>

\* Stage 3: skipped when the directory is there, whatever it holds.  Every trusted
\* setup draws new keys.  The JSON files it reads are whole: they are written before
\* the file that stage 2 looks for.
Stage3(k) ==
    /\ At(k, "stage3")
    /\ \/ Exist(k, {"groth_dir"}) /\ Goto(k, "init")
       \/ /\ ~Exist(k, {"groth_dir"})
          /\ setup' = [setup EXCEPT ![k] = Store(k, GrothFiles, disk[k]["common"].v, keys[k] + 1)]
    /\ keys' = [keys EXCEPT ![k] = IF Exist(k, {"groth_dir"}) THEN @ ELSE @ + 1]
    /\ UNCHANGED <<code, disk, verifier, crashes>>

NextStage(f) == CASE f = "super" -> "stage2" [] f = "bn128" -> "stage3" [] f = "Verifier_sol" -> "init" [] OTHER -> "store"

WriteFile(k) ==
    LET p == setup[k]
        f == Head(p.todo)
    IN  /\ At(k, "store")
        /\ disk' = [disk EXCEPT ![k][f] = Content(p.v, p.key)]
        /\ setup' = [setup EXCEPT ![k].todo = Tail(@), ![k].pc = NextStage(f)]
        /\ UNCHANGED <<code, keys, verifier, crashes>>

\* The smoke test after stage 3.
SmokeTest(k) ==
    /\ At(k, "init")
    /\ Goto(k, IF init_finds(k) /\ init_loads(k) THEN IF k = "priv" THEN "stage4" ELSE "ready" ELSE "failed")
    /\ UNCHANGED <<code, disk, keys, verifier, crashes>>

\* Mutant: a verifier contract that is already there is kept.
Stage4_KeepsVerifier(k) ==
    /\ At(k, "stage4")
    /\ verifier' = IF verifier.st = "absent" THEN disk[k]["Verifier_sol"] ELSE verifier
    /\ Goto(k, IF verifier'.st = "whole" THEN "ready" ELSE "failed")
    /\ UNCHANGED <<code, disk, keys, crashes>>

\* Stage 4, private batches only: the verifier contract is replaced and compiled.
Stage4(k) ==
    /\ At(k, "stage4")
    /\ verifier' = IF Exist(k, {"Verifier_sol"}) THEN disk[k]["Verifier_sol"] ELSE verifier
    /\ Goto(k, IF Whole(k, {"Verifier_sol"}) THEN "ready" ELSE "failed")
    /\ UNCHANGED <<code, disk, keys, crashes>>

SetupStep(k) == Stage1(k) \/ Stage2(k) \/ Stage3(k) \/ WriteFile(k) \/ SmokeTest(k) \/ Stage4(k)

\* The process dies; the file it was writing is lost or torn.
SetupCrash(k) ==
    /\ Running(k) /\ crashes < MaxCrashes
    /\ crashes' = crashes + 1
    /\ setup' = [setup EXCEPT ![k] = Idle]
    /\ \/ UNCHANGED disk
       \/ /\ At(k, "store") /\ Head(setup[k].todo) # "groth_dir"
          /\ disk' = [disk EXCEPT ![k][Head(setup[k].todo)] = Torn]
    /\ UNCHANGED <<code, keys, verifier>>

\* An operator deletes the directory of a kind.  Errors about a circuit or wrapper file that
\* does not deserialize say so; those of the Groth16 stage and of a stale set do not.
Stale(k) == Versions(k, Files(k)) \ {0, code} # {}
DeleteArtifacts(k) ==
    /\ ~Running(k)
    /\ At(k, "failed") \/ Stale(k)
    /\ disk' = [disk EXCEPT ![k] = [f \in Files(k) |-> Absent]]
    /\ setup' = [setup EXCEPT ![k] = Idle]
    /\ UNCHANGED <<code, keys, verifier, crashes>>

\* New binaries with other circuits are installed.
Upgrade ==
    /\ code = 1
    /\ code' = 2
    /\ UNCHANGED <<disk, setup, keys, verifier, crashes>>

-----------------------------------------------------------------------------

(* Properties *)

Current(k, fs) == Whole(k, fs) /\ Versions(k, fs) = {code}
Complete(k) == At(k, "ready") /\ Current(k, Files(k))

\* What no further run repairs: files a stage finds, and so does not write again, that are
\* torn, missing beside the ones it looks for, or of circuits of an older binary.
StuckAggregator(k) == Exist(k, ToSet(AggFiles(k))) /\ Whole(k, {"manifest"}) /\ ~Current(k, ToSet(AggFiles(k)))
StuckWrapper(k) == Exist(k, {"native", "bn128", "proof"}) /\ ~Current(k, ToSet(BnFiles))
StuckKeys(k) == Exist(k, {"groth_dir"}) /\ ~Current(k, ToSet(GrothFiles))
Stuck(k) == StuckAggregator(k) \/ StuckWrapper(k) \/ StuckKeys(k)

\* However setups are interrupted, started over and overtaken by new binaries, running a
\* tool again leads to a complete, current set of artifacts, unless one of its stages is
\* stuck with what it finds.  A ready line over a torn wrapper or a torn Verifier.sol
\* counts as stuck, not as complete.  The tools' own comment says more, "Re-running is
\* idempotent: each stage is skipped when its artifacts are already present": the second
\* disjunct is where the skipping keeps an interrupted setup from ever being repaired.
SetupCompletesOrSticks == \A k \in Kinds : []<>Complete(k) \/ <>[]Stuck(k)
=============================================================================
