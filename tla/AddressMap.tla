------------------------------ MODULE AddressMap ------------------------------
(***************************************************************************)
(* What the memory functions promise their callers: an address space is a  *)
(* partial function from pages to frames, each call changes the page it    *)
(* names and no other, and the only mappings that appear unasked are those *)
(* of pool pages at their own address.                                     *)
(***************************************************************************)
EXTENDS Integers, Sequences

CONSTANTS Page, Nil, Roots, PoolPages,
          Program               \* the calls, in the order they are made

VARIABLES map,                  \* map[r][va]: the frame of va in space r, or Nil
          call                  \* how many calls have been started

\* Call op may give page va of space r the frame f.
Asked(op, r, va, f) ==
    /\ r = op.root
    /\ \/ op.op = "map_pa" /\ va = op.va /\ f = op.pa
       \/ op.op = "map_va" /\ va = op.va /\ f \in PoolPages
       \/ op.op = "map_ref" /\ va = op.va /\ f # Nil
       \/ op.op = "heap" /\ f \in PoolPages
       \/ op.op = "unmap" /\ va = op.va /\ f = Nil

\* A table page becomes visible at its own address.
TableShown(va, f) == va \in PoolPages /\ f = va

Others(r, va) == (Roots \X Page) \ {<<r, va>>}

\* One page changes, as the call last started, or being started, asks.
Change(r, va) ==
    /\ map'[r][va] # map[r][va]
    /\ \/ call' > 0 /\ Asked(Program[call'], r, va, map'[r][va])
       \/ TableShown(va, map'[r][va])
    /\ \A x \in Others(r, va) : map'[x[1]][x[2]] = map[x[1]][x[2]]

Init == (\A r \in Roots, va \in Page : map[r][va] = Nil) /\ call = 0
Next == /\ call' \in {call, call + 1}
        /\ map' = map \/ \E r \in Roots, va \in Page : Change(r, va)
Spec == Init /\ [][Next]_<<map, call>>
=============================================================================
