--------------------------- MODULE ProverService ----------------------------
(***************************************************************************)
(* A proving process on top of the artifacts: it fills batches, loads the  *)
(* aggregator and the wrapper of one or both kinds, aggregates finalized   *)
(* batches and wraps the result for the contract.  The Groth16 circuit and *)
(* keys live in globals of the linked Go library, one set per process.     *)
(***************************************************************************)
EXTENDS ProofBatch, ArtifactSetup

CONSTANTS MaxServed     \* bound: different proofs handed out

VARIABLES
    svc,        \* kind -> loaded circuits
    groth,      \* globals of the Go library
    proving,    \* kind of the finalized batch being proven
    served      \* Solidity proofs handed out

serviceVars == <<svc, groth, proving, served>>
proverVars == <<batchVars, setupVars, serviceVars>>

NotLoaded == [agg |-> {}, native |-> 0, bn128 |-> 0, current |-> FALSE]
NoGroth == [kind |-> "none", v |-> 0, key |-> 0]
NotProving == "none"

ServiceInit ==
    /\ svc = [k \in Kinds |-> NotLoaded]
    /\ groth = NoGroth
    /\ proving = NotProving
    /\ served = {}

Loaded(k) == svc[k].agg # {}

\* A loaded service reads the disk no more and the two setup tools write to different
\* directories, so their steps commute with each other and with those of an open
\* batch: the model runs one tool at a time, and only between batches.
Between == batch = NoBatch /\ proving = NotProving
Quiet == Between /\ \A k \in Kinds : ~Running(k)

CanLoad(k) == from_artifacts_loads(k) /\ has_full_bn128(k) /\ bn128_loads(k) /\ init_finds(k)

\* PrivTxAggregator or BridgeTxAggregator::from_artifacts, then BN128WrapperService::from_artifacts, which
\* replaces the Groth16 globals.
Load(k) ==
    /\ Quiet /\ ~Loaded(k)
    /\ CanLoad(k) /\ init_loads(k)
    /\ svc' = [svc EXCEPT ![k] = [agg |-> Versions(k, ToSet(AggFiles(k))), native |-> disk[k]["native"].v,
                                  bn128 |-> disk[k]["bn128"].v, current |-> At(k, "ready")]]
    /\ groth' = [kind |-> k, v |-> disk[k]["r1cs"].v, key |-> disk[k]["proving_key"].key]
    /\ UNCHANGED <<batchVars, setupVars, proving, served>>

ProcessDies == svc' = [j \in Kinds |-> NotLoaded] /\ groth' = NoGroth /\ proving' = NotProving

\* A torn key file kills the process, the service of the other kind included.
LoadDies(k) ==
    /\ Quiet /\ ~Loaded(k)
    /\ CanLoad(k) /\ ~init_loads(k)
    /\ ProcessDies
    /\ UNCHANGED <<batchVars, setupVars, served>>

ServiceCrash ==
    /\ \E k \in Kinds : Loaded(k)
    /\ crashes < MaxCrashes
    /\ crashes' = crashes + 1
    /\ ProcessDies
    /\ UNCHANGED <<batchVars, code, disk, setup, keys, verifier, served>>

-----------------------------------------------------------------------------
(* Batches *)

\* Bound: what a batch holds depends on no artifact, and aggregation takes whatever is
\* finalized (FinalizedBatchProves).  So the proofs of a batch are looked at before
\* the first setup only, and from there on a batch given to prove is its kind.
FillBatch ==
    /\ setupVars = <<1, [k \in Kinds |-> [f \in Files(k) |-> Absent]], [k \in Kinds |-> Idle], [k \in Kinds |-> 0], Absent, 0>>
    /\ (\E k \in Kinds : OpenBatch(k)) \/ Fill
    /\ UNCHANGED <<setupVars, serviceVars>>

GiveToProve(k) ==
    /\ Quiet /\ Loaded(k)
    /\ Cardinality(served) < MaxServed
    /\ proving' = k
    /\ UNCHANGED <<batchVars, setupVars, svc, groth, served>>

\* The aggregation circuits verify proofs of the current transaction circuits, the
\* wrapper those of the super circuit, and the Groth16 circuit those of the wrapper.
Aggregates(k) == svc[k].agg = {code}
wrap_proof_to_bn128_succeeds(k) == svc[k].native = code /\ svc[k].bn128 = code
Groth16_proves(k) == groth.kind = k /\ groth.v = code

\* Mutant: the wrapped proof is taken without looking at the circuit in the globals.
wrap_groth16_AnyCircuit(k) == wrap_proof_to_bn128_succeeds(k)

wrap_groth16_succeeds(k) == wrap_proof_to_bn128_succeeds(k) /\ Groth16_proves(k)

\* prove, then wrap_groth16.
Serve ==
    LET k == proving
    IN  /\ k # NotProving
        /\ Aggregates(k) /\ wrap_groth16_succeeds(k)
        /\ served' = served \cup {[kind |-> k, key |-> groth.key, current |-> svc[k].current]}
        /\ proving' = NotProving
        /\ UNCHANGED <<batchVars, setupVars, svc, groth>>

\* The caller gives the batch up, at will or after an error of prove or wrap_groth16.
DropBatch ==
    /\ ~Between
    /\ batch' = NoBatch /\ taken' = NoProofs
    /\ proving' = NotProving
    /\ UNCHANGED <<setupVars, svc, groth, served>>

-----------------------------------------------------------------------------

\* Deleting the artifacts makes services loaded from them outdated.
Delete(k) ==
    /\ Quiet /\ DeleteArtifacts(k)
    /\ svc' = [svc EXCEPT ![k].current = FALSE]
    /\ served' = {p \in served : p.kind # k}
    /\ UNCHANGED <<batchVars, groth, proving>>

RunSetup(k) ==
    /\ \/ Quiet /\ Start(k)
       \/ Between /\ (SetupStep(k) \/ SetupCrash(k))
    /\ UNCHANGED <<batchVars, serviceVars>>

Install == Quiet /\ Upgrade /\ UNCHANGED <<batchVars, serviceVars>>

ProverInit == BatchInit /\ SetupInit /\ ServiceInit

ProverNext ==
    \/ \E k \in Kinds : RunSetup(k) \/ Delete(k) \/ Load(k) \/ LoadDies(k) \/ GiveToProve(k)
    \/ FillBatch \/ ServiceCrash \/ Install \/ Serve \/ DropBatch

\* A tool that runs goes on, no batch stays open for ever, and a tool that did not report
\* success is run again.  Nobody is assumed to delete anything.
Step == Between /\ (\E k \in Kinds : SetupStep(k)) /\ UNCHANGED <<batchVars, serviceVars>>
ReRun(k) == Quiet /\ ~At(k, "ready") /\ Start(k) /\ UNCHANGED <<batchVars, serviceVars>>

ProverSpec ==
    /\ ProverInit /\ [][ProverNext]_proverVars
    /\ WF_proverVars(Step) /\ WF_proverVars(DropBatch)
    /\ \A k \in Kinds : SF_proverVars(ReRun(k))

-----------------------------------------------------------------------------
(* Properties *)

\* A proof handed out by a service that was loaded from a completed setup is one the
\* verifier contract written by that setup accepts, although both kinds share one set
\* of Groth16 globals and setups are interrupted, repeated and started over.
ServedProofsVerify ==
    \A p \in served :
        /\ p.current /\ p.kind = "priv" => verifier.key = p.key
        /\ p.current /\ p.kind = "bridge" /\ Whole("bridge", {"Verifier_sol"}) =>
            disk["bridge"]["Verifier_sol"].key = p.key
=============================================================================
