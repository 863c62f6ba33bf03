-------------------------------- MODULE MCMounts --------------------------------
EXTENDS Mounts, TLC
OneDrive == [m \in MountIds |-> CHOOSE d \in Drives : TRUE]
Interchangeable == Permutations(Loops) \cup Permutations(MountIds)
=============================================================================
