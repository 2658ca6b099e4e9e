----------------------------- MODULE BranchDelay -----------------------------
(***************************************************************************)
(* BranchDelaySlot of both cores, which have one slot                      *)
(* (liborbum/src/Common/Types/Mips/BranchDelaySlot.hpp).  An address is    *)
(* counted in instructions and wraps as the program counter does.          *)
(***************************************************************************)
EXTENDS Integers

CONSTANT Addresses      \* the number of addresses

Wrap(address) == address % Addresses

NoBranch == [current_slot |-> 0, branch_pc |-> 0]

\* set_branch_direct, and the other two once the target is computed
SetBranch(target) == [current_slot |-> 2, branch_pc |-> target]

StopBranch == NoBranch

IsBranchPending(bdelay) == bdelay.current_slot > 0

\* branch_pc is not read again after the branch.
AdvanceSlot(bdelay) ==
  IF bdelay.current_slot = 2 THEN [bdelay EXCEPT !.current_slot = 1] ELSE NoBranch

AdvancedPc(bdelay, pc) ==
  IF bdelay.current_slot = 1 THEN bdelay.branch_pc ELSE Wrap(pc + 1)
=============================================================================
