-------------------------- MODULE CheckpointedIndex --------------------------
(***************************************************************************)
(* What a checkpointed indexer promises its readers and its own restart:   *)
(* versions become durable in any order and stay durable, and the saved    *)
(* checkpoint only moves forward, never past a version that is not durable.*)
(* The processors are shown to implement this specification.               *)
(***************************************************************************)
EXTENDS Integers

CONSTANTS
    None,            \* the checkpoint before the first save
    InitialVersion   \* initial_starting_version of the processor

VARIABLES
    durable,         \* the versions whose rows are all in storage
    checkpoint       \* last_success_version, or None

vars == <<durable, checkpoint>>

\* Storage may hold versions from before, or have nothing to hold for some.
Init ==
    /\ durable \in SUBSET Nat
    /\ checkpoint = None

Store ==
    /\ durable \subseteq durable'
    /\ UNCHANGED checkpoint

Advance ==
    /\ checkpoint' \in Nat
    /\ checkpoint = None \/ checkpoint <= checkpoint'
    /\ InitialVersion .. checkpoint' \subseteq durable
    /\ UNCHANGED durable

Next == Store \/ Advance

Spec == Init /\ [][Next]_vars
==============================================================================
