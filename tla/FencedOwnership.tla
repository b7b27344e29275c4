--------------------------- MODULE FencedOwnership --------------------------
(***************************************************************************)
(* What the publication batches promise each item: at any time at most one *)
(* claim owns it, and no two claims of an item, however far apart, carry   *)
(* the same number.  One step may do this for many items at once.          *)
(***************************************************************************)
EXTENDS Naturals

CONSTANT Items

VARIABLES
  owners,  \* item -> the claim numbers that own it now: none or one
  issued   \* item -> the highest number given out so far

Init ==
  /\ owners = [i \in Items |-> {}]
  /\ issued = [i \in Items |-> 0]

\* A free item, or one whose owner is let go in the same step, is claimed
\* under a number nobody ever had.
Grant(i) ==
  /\ issued'[i] = issued[i] + 1
  /\ owners'[i] = {issued'[i]}

\* A claim that comes to nothing may still use up a number.
Burn(i) ==
  /\ issued'[i] = issued[i] + 1
  /\ owners'[i] \subseteq owners[i]

\* The owner settles the item or loses it; or nothing happens to this item.
End(i) ==
  /\ issued'[i] = issued[i]
  /\ owners'[i] \subseteq owners[i]

Next == \A i \in Items : Grant(i) \/ Burn(i) \/ End(i)

Spec == Init /\ [][Next]_<<owners, issued>>

=============================================================================
