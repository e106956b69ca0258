-------------------------- MODULE SessionFamilies --------------------------
(***************************************************************************)
(* What the session store promises of a login: the family of refresh       *)
(* tokens it opens lives through one period of use.  It is opened once,    *)
(* and a logout, a reuse, a password reset, the passing of time or a       *)
(* failure may close it; a closed family is never reopened.                *)
(***************************************************************************)
CONSTANT FamilyId

VARIABLE phase

TypeOK == phase \in [FamilyId -> {"unborn", "open", "closed"}]

Init == phase = [f \in FamilyId |-> "unborn"]

Open(f) == /\ phase[f] = "unborn"
           /\ phase' = [phase EXCEPT ![f] = "open"]

\* Several families close at once when a user resets the password.
Close(F) == /\ \A f \in F : phase[f] = "open"
            /\ phase' = [f \in FamilyId |-> IF f \in F THEN "closed" ELSE phase[f]]

Next == (\E f \in FamilyId : Open(f)) \/ (\E F \in SUBSET FamilyId : Close(F))

Spec == Init /\ [][Next]_phase
=============================================================================
