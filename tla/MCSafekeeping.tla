--------------------------- MODULE MCSafekeeping ----------------------------
(***************************************************************************)
(* Small instances for TLC of ObjectLock, Encryption and DriveCalls, which *)
(* share no state; a behaviour is one of one of them, as focus says.       *)
(***************************************************************************)
EXTENDS ObjectLock, Encryption, DriveCalls, TLC

VARIABLE focus

keepVars == <<focus, lockVars, sealVars, callVars>>

MCInit == focus \in {"lock", "seal", "calls"} /\ LockInit /\ SealInit /\ CallInit
          /\ (focus # "lock" => ~lockBucket.on)
          /\ (focus # "seal" => defaultSse = [scheme |-> "none", versioned |-> FALSE])

MCNext ==
    /\ UNCHANGED focus
    /\ \/ focus = "lock" /\ LockNext /\ UNCHANGED <<sealVars, callVars>>
       \/ focus = "seal" /\ SealNext /\ UNCHANGED <<lockVars, callVars>>
       \/ focus = "calls" /\ CallNext /\ UNCHANGED <<lockVars, sealVars>>

MCSpec == MCInit /\ [][MCNext]_keepVars

=============================================================================
