--------------------------- MODULE FileLifecycle ---------------------------
(***************************************************************************)
(* What the object namespace promises about the files it keeps in Drive,   *)
(* with the tables, handlers and workers left out.  Every file belongs to  *)
(* the key it was uploaded for.  It is uploaded once, published at most    *)
(* once, may stop and start being the key's current content while it is    *)
(* kept as a version, and is erased only after the namespace let it go.    *)
(* A published file is never lost.                                         *)
(***************************************************************************)
CONSTANTS Key, File, KeyOf

Life == {"none", "pending", "live", "released", "erased", "lost"}

VARIABLES
    life,       \* where each file stands in its life
    current     \* the file a key resolves to (at most one)

TypeOK ==
    /\ life \in [File -> Life]
    /\ current \in [Key -> SUBSET File]

Init ==
    /\ life = [f \in File |-> "none"]
    /\ current = [k \in Key |-> {}]

\* The file that leaves a key's current place is kept as a version or let go.
Supersedes(k, f) ==
    /\ \E dropped \in SUBSET current[k] :
          life' = [g \in File |-> IF g = f THEN "live"
                                 ELSE IF g \in dropped THEN "released" ELSE life[g]]
    /\ current' = [current EXCEPT ![k] = {f}]

Create(f) ==
    /\ life[f] = "none"
    /\ life' = [life EXCEPT ![f] = "pending"]
    /\ UNCHANGED current

Publish(f) ==
    /\ life[f] = "pending"
    /\ Supersedes(KeyOf[f], f)

\* A kept version becomes current again.
Restore(f) ==
    /\ life[f] = "live" /\ f \notin current[KeyOf[f]]
    /\ Supersedes(KeyOf[f], f)

\* A key stops resolving.
Hide(k) ==
    /\ current[k] # {}
    /\ \E dropped \in SUBSET current[k] :
          life' = [g \in File |-> IF g \in dropped THEN "released" ELSE life[g]]
    /\ current' = [current EXCEPT ![k] = {}]

ReleaseVersion(f) ==
    /\ life[f] = "live" /\ f \notin current[KeyOf[f]]
    /\ life' = [life EXCEPT ![f] = "released"]
    /\ UNCHANGED current

Erase(f) ==
    /\ life[f] = "released"
    /\ life' = [life EXCEPT ![f] = "erased"]
    /\ UNCHANGED current

\* Uploads that fail, several at once in a crash, leave their files to be
\* erased, or leave them in Drive for good when nobody recorded them.
Abandon ==
    /\ life' \in [File -> Life]
    /\ \A f \in File : \/ life'[f] = life[f]
                       \/ life[f] = "pending" /\ life'[f] \in {"released", "lost"}
    /\ UNCHANGED current

Next ==
    \/ \E f \in File : Create(f) \/ Publish(f) \/ Restore(f)
                       \/ ReleaseVersion(f) \/ Erase(f)
    \/ \E k \in Key : Hide(k)
    \/ Abandon

Spec == Init /\ [][Next]_<<life, current>>

=============================================================================
