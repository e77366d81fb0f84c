---------------------------- MODULE MCShimDevices ----------------------------
EXTENDS ShimDevices, TLC

\* No device, the device, and the number after it.
MCOrdinals == {-1, 0, 1}

\* Threads and pointers are interchangeable, and all properties are invariants.
Symmetry == Permutations(Threads) \cup Permutations(Pointers)
=============================================================================
