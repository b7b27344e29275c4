--------------------------- MODULE ExclusiveLease ---------------------------
(***************************************************************************)
(* What the state-writer coordinator promises its clients: an exclusive    *)
(* lease whose tokens are never reused.  A grant may end the previous      *)
(* lease in the same step, because acquire reclaims before it admits.      *)
(***************************************************************************)
EXTENDS Naturals

VARIABLES
  holders,  \* the tokens that own the lease now: none or one
  issued    \* tokens issued so far

Init == holders = {} /\ issued = 0

\* The next owner receives a token nobody ever held.
Grant ==
  /\ issued' = issued + 1
  /\ holders' = {issued + 1}

\* The lease ends: released by its owner or reclaimed from it.
End ==
  /\ holders # {}
  /\ holders' = {}
  /\ UNCHANGED issued

Next == Grant \/ End

Spec == Init /\ [][Next]_<<holders, issued>>

=============================================================================
