-------------------------- MODULE Background_proofs --------------------------
(***************************************************************************)
(* Theorems about what runs beside the requests: the process, how it       *)
(* starts, how its workers are stopped and the settings it reads, for any  *)
(* releases, environments, workers and clients; and imports from Drive and *)
(* snapshots into it, for any folders, pages, destinations and failures.   *)
(*                                                                         *)
(* The invariant of an import has three parts: the work (the job, its      *)
(* items and what the worker has in hand), the store (the staging rows,    *)
(* the objects and the copies in Drive), and the link of the two, which    *)
(* says that an item is an object as often as its row is committed.  A     *)
(* step is taken apart the same way, and the lemmas of a part are shared.  *)
(***************************************************************************)
EXTENDS Process, DriveImport, DbSnapshots, FiniteSetTheorems, TLAPS

-----------------------------------------------------------------------------
(* The start.  The versions on record are the first ones, and what a       *)
(* process saw of them is a beginning of what is on record now.            *)

Recorded(n) == applied = 1..n /\ \A i \in 1..n : committed[i] = i
Begun(b, n) == \E k \in 0..n : b.saw = 1..k
Ready(b, n) == b.at = "serving" => Len(b.release) <= n /\ Expected(b.release) \subseteq columns

StartInv ==
    /\ StartTypeOK /\ Recorded(Len(committed))
    /\ \A p \in Processes : Begun(booting[p], Len(committed)) /\ Ready(booting[p], Len(committed))

Release == ProgramVersions \cup {<<>>}

LEMMA ReleaseIsSequence ==
    ASSUME NEW r \in Release
    PROVE  /\ Len(r) \in Nat /\ DOMAIN r = 1..Len(r)
           /\ \A i \in 1..Len(r) : r[i] \subseteq Expected(r)
  <1>1. r \in Seq(SUBSET UNION {r[i] : i \in DOMAIN r}) \/ r = <<>>
    BY StartupAssumption DEF Release
  <1>2. Len(r) \in Nat /\ DOMAIN r = 1..Len(r)
    BY <1>1
  <1>3. QED
    BY <1>2 DEF Expected

LEMMA IdleIsBoot == Idle \in Boot /\ Idle.saw = 1..0 /\ Idle.at # "serving"
  <1>1. {} = 1..0
    OBVIOUS
  <1>2. QED
    BY <1>1 DEF Idle, Boot

LEMMA StartInitInv == StartInit => StartInv
  <1> SUFFICES ASSUME StartInit PROVE StartInv
    OBVIOUS
  <1>1. Len(committed) = 0 /\ committed \in Seq(Nat) /\ 1..0 = {}
    BY DEF StartInit, NothingYet
  <1>2. StartTypeOK
    BY <1>1, IdleIsBoot, EnvironmentsAssumption DEF StartInit, NothingYet, StartTypeOK, Idle
  <1>3. Recorded(0)
    BY <1>1 DEF Recorded, StartInit, NothingYet
  <1>4. \A p \in Processes : Begun(booting[p], 0) /\ Ready(booting[p], 0)
    BY IdleIsBoot DEF Begun, Ready, StartInit, NothingYet
  <1>5. QED
    BY <1>1, <1>2, <1>3, <1>4 DEF StartInv

\* A process that enters a place it may be in, while the record is kept.
LEMMA Entered ==
    ASSUME StartInv, UNCHANGED env, SchemaKept, NEW p \in Processes, NEW b \in Boot, Enters(p, b),
           b.saw \subseteq applied, Begun(b, Len(committed)), Ready(b, Len(committed))
    PROVE  StartInv'
  <1>1. booting \in [Processes -> Boot]
    BY DEF StartInv, StartTypeOK
  <1>2. booting' \in [Processes -> Boot] /\ \A q \in Processes : booting'[q] = IF q = p THEN b ELSE booting[q]
    BY <1>1 DEF Enters
  <1>3. StartTypeOK'
    BY <1>2 DEF StartInv, StartTypeOK, SchemaKept
  <1>4. Recorded(Len(committed))' /\ Len(committed') = Len(committed)
    BY DEF StartInv, Recorded, SchemaKept
  <1>5. \A q \in Processes : Begun(booting'[q], Len(committed))
    BY <1>2 DEF StartInv
  <1>6. \A q \in Processes : (Ready(booting[q], Len(committed)))'
    BY <1>2 DEF StartInv, Ready, SchemaKept
  <1>7. QED
    BY <1>3, <1>4, <1>5, <1>6 DEF StartInv, Begun

LEMMA StartNextInv == StartInv /\ [StartNext]_startVars => StartInv'
  <1> SUFFICES ASSUME StartInv, [StartNext]_startVars PROVE StartInv'
    OBVIOUS
  <1> DEFINE k == Len(committed)
  <1>0. /\ booting \in [Processes -> Boot] /\ k \in Nat /\ applied = 1..k /\ committed \in Seq(Nat)
        /\ \A i \in 1..k : committed[i] = i
    BY DEF StartInv, StartTypeOK, Recorded
  <1>1. ASSUME NEW p \in Processes, UNCHANGED env, SchemaKept, Enters(p, Idle) PROVE StartInv'
    <2>1. Begun(Idle, k) /\ Ready(Idle, k) /\ Idle.saw \subseteq applied
      BY <1>0, IdleIsBoot DEF Begun, Ready
    <2>2. QED
      BY <1>1, <2>1, IdleIsBoot, Entered
  <1>2. ASSUME NEW p \in Processes, NEW r \in ProgramVersions, UNCHANGED env, Boots(p, r) PROVE StartInv'
    <2> DEFINE b == [at |-> "migrating", release |-> r, saw |-> applied]
    <2>1. b \in Boot /\ b.saw \subseteq applied
      BY <1>0 DEF Boot
    <2>2. Begun(b, k) /\ Ready(b, k)
      BY <1>0 DEF Begun, Ready
    <2>3. Enters(p, b) /\ SchemaKept
      BY <1>2 DEF Boots
    <2> HIDE DEF b
    <2>4. QED
      BY <1>2, <2>1, <2>2, <2>3, Entered
  <1>3. ASSUME NEW p \in Processes, UNCHANGED env, Serve(p) PROVE StartInv'
    <2>0. booting[p] \in Boot /\ Begun(booting[p], k) /\ booting[p].saw \subseteq applied
      BY <1>0 DEF StartInv, StartTypeOK
    <2>1. CASE Drift(p) # {}
      <3>1. Enters(p, Idle) /\ SchemaKept
        BY <1>3, <2>1 DEF Serve
      <3>2. QED
        BY <1>1, <1>3, <3>1
    <2>2. CASE Drift(p) = {}
      <3> DEFINE b == [booting[p] EXCEPT !.at = "serving"]
                 r == booting[p].release
      <3>1. b \in Boot /\ b.saw = booting[p].saw /\ b.release = r /\ r \in Release
        BY <2>0 DEF Boot, Release
      <3>2. Expected(r) \subseteq columns
        BY <2>2 DEF Drift
      <3>3. PICK j \in 0..k : booting[p].saw = 1..j
        BY <2>0 DEF Begun
      <3>4. \A v \in 1..Len(r) : v \in 1..j
        BY <1>3, <3>1, <3>3, ReleaseIsSequence DEF Serve, Due
      <3>5. Len(r) \in Nat
        BY <3>1, ReleaseIsSequence
      <3>6. Len(r) <= k
        <4>1. CASE Len(r) = 0
          BY <4>1, <1>0
        <4>2. CASE Len(r) # 0
          <5>1. Len(r) \in 1..Len(r)
            BY <3>5, <4>2
          <5>2. Len(r) \in 1..j
            BY <3>4, <5>1
          <5>3. QED
            BY <5>2, <3>5, <1>0
        <4>3. QED
          BY <4>1, <4>2
      <3>7. Begun(b, k)
        BY <3>1, <2>0 DEF Begun
      <3>8. Ready(b, k)
        BY <3>1, <3>2, <3>6 DEF Ready
      <3>9. Enters(p, b) /\ SchemaKept
        BY <1>3, <2>2 DEF Serve
      <3> HIDE DEF b
      <3>10. QED
        BY <1>3, <2>0, <3>1, <3>7, <3>8, <3>9, Entered
    <2>3. QED
      BY <2>1, <2>2
  <1>4. ASSUME NEW p \in Processes, UNCHANGED env, Migrate(p) PROVE StartInv'
    <2> DEFINE v == CHOOSE w \in Due(p) : \A x \in Due(p) : w <= x
               r == booting[p].release
               b == [booting[p] EXCEPT !.saw = @ \cup {v}]
    <2>n. PICK n \in Nat : n = Len(committed)
      BY <1>0
    <2> HIDE DEF k
    <2>k. /\ booting \in [Processes -> Boot] /\ applied = 1..n /\ committed \in Seq(Nat) /\ Len(committed) = n
          /\ \A i \in 1..n : committed[i] = i
      BY <1>0, <2>n DEF k
    <2>0. booting[p] \in Boot /\ Begun(booting[p], n) /\ r \in Release
      BY <2>k DEF StartInv, Boot, Release
    <2>1. PICK j \in 0..n : booting[p].saw = 1..j
      BY <2>0 DEF Begun
    <2>2. Len(r) \in Nat /\ DOMAIN r = 1..Len(r) /\ \A i \in 1..Len(r) : r[i] \subseteq Expected(r)
      BY <2>0, ReleaseIsSequence
    <2>3. Due(p) = (j + 1)..Len(r) /\ j + 1 \in Due(p)
      <3>1. Due(p) = {w \in 1..Len(r) : w \notin 1..j}
        BY <2>1, <2>2 DEF Due
      <3>2. Due(p) = (j + 1)..Len(r)
        BY <3>1, <2>2, <2>k
      <3>3. Due(p) # {}
        BY <1>4 DEF Migrate
      <3>4. QED
        BY <3>2, <3>3, <2>2, <2>k
    <2>4. v = j + 1
      <3>1. \A x \in Due(p) : j + 1 <= x
        BY <2>3, <2>2, <2>k
      <3>2. v \in Due(p) /\ \A x \in Due(p) : v <= x
        BY <2>3, <3>1
      <3>3. v \in Int /\ v <= j + 1 /\ j + 1 <= v
        BY <2>3, <3>1, <3>2, <2>2, <2>k
      <3>4. QED
        BY <3>3, <2>k
    <2> HIDE DEF v
    <2>5. CASE ~Commits(p, v)
      <3>1. Enters(p, Idle) /\ SchemaKept
        BY <1>4, <2>5 DEF v, Migrate, AfterFailure
      <3>2. QED
        BY <1>1, <1>4, <3>1
    <2>6. CASE Commits(p, v)
      <3>1. /\ applied' = applied \cup {v} /\ columns' = columns \cup r[v]
            /\ committed' = Append(committed, v) /\ Enters(p, b)
        BY <1>4, <2>6 DEF v, Migrate
      <3>2. j = n
        BY <2>4, <2>6, <2>k DEF Commits
      <3>3. /\ committed' \in Seq(Nat) /\ Len(committed') = n + 1
            /\ \A i \in 1..(n + 1) : committed'[i] = IF i = n + 1 THEN v ELSE committed[i]
        BY <3>1, <2>4, <2>k
      <3>4. Recorded(n + 1)'
        <4>1. applied' = 1..(n + 1)
          BY <3>1, <3>2, <2>4, <2>k
        <4>2. \A i \in 1..(n + 1) : committed'[i] = i
          BY <3>2, <3>3, <2>4, <2>k
        <4>3. QED
          BY <4>1, <4>2 DEF Recorded
      <3>5. b \in Boot /\ b.saw = 1..(n + 1) /\ b.release = r /\ b.at = "migrating"
        <4>1. booting[p].saw \cup {v} = 1..(n + 1)
          BY <2>1, <2>4, <3>2
        <4>2. booting[p].at = "migrating"
          BY <1>4 DEF Migrate
        <4>3. (1..(n + 1)) \in SUBSET Nat
          OBVIOUS
        <4>4. QED
          BY <2>0, <4>1, <4>2, <4>3 DEF Boot
      <3>6. booting' \in [Processes -> Boot] /\ \A q \in Processes : booting'[q] = IF q = p THEN b ELSE booting[q]
        BY <3>1, <3>5, <2>k DEF Enters
      <3> HIDE DEF b
      <3>7. \A q \in Processes : Begun(booting'[q], n + 1)
        <4>1. Begun(b, n + 1)
          BY <3>5, <2>k DEF Begun
        <4>2. \A q \in Processes : Begun(booting[q], n + 1)
          BY <2>k DEF StartInv, Begun
        <4>3. QED
          BY <4>1, <4>2, <3>6
      <3>8. \A q \in Processes : Ready(booting[q], n + 1)'
        <4>1. columns \subseteq columns'
          BY <3>1
        <4>2. ASSUME NEW q \in Processes, booting[q].at = "serving"
              PROVE  Len(booting[q].release) <= n + 1 /\ Expected(booting[q].release) \subseteq columns'
          <5>1. Len(booting[q].release) <= n /\ Expected(booting[q].release) \subseteq columns
            <6>1. Len(booting[q].release) <= Len(committed) /\ Expected(booting[q].release) \subseteq columns
              BY <4>2 DEF StartInv, Ready
            <6>2. QED
              BY <6>1, <2>k
          <5>2. booting[q].release \in Release
            BY <2>k DEF Boot, Release
          <5>3. Len(booting[q].release) \in Nat
            BY <5>2, ReleaseIsSequence
          <5>4. QED
            BY <5>1, <5>3, <4>1, <2>k
        <4>3. QED
          BY <4>2, <3>5, <3>6 DEF Ready
      <3>9. StartTypeOK'
        <4>1. IsEnvironment(env')
          BY <1>4 DEF StartInv, StartTypeOK
        <4>2. applied' = 1..(n + 1)
          BY <3>4 DEF Recorded
        <4>3. columns' \subseteq UNION {Expected(q) : q \in ProgramVersions}
          <5>1. v \in 1..Len(r)
            BY <2>3, <2>4, <2>2
          <5>2. r \in ProgramVersions
            BY <2>0, <2>2, <5>1 DEF Release
          <5>3. columns \subseteq UNION {Expected(q) : q \in ProgramVersions}
            BY DEF StartInv, StartTypeOK
          <5>4. r[v] \subseteq Expected(r)
            BY <5>1, <2>2
          <5>5. QED
            BY <5>2, <5>3, <5>4, <3>1
        <4>4. \A q \in Processes : booting'[q].saw \subseteq applied'
          BY <3>5, <3>6, <4>2, <3>1 DEF StartInv, StartTypeOK
        <4>5. QED
          BY <3>3, <3>6, <4>1, <4>2, <4>3, <4>4, <2>k DEF StartTypeOK
      <3>10. QED
        BY <3>3, <3>4, <3>7, <3>8, <3>9 DEF StartInv, Begun
    <2>7. QED
      BY <2>5, <2>6
  <1>5. ASSUME NEW p \in Processes, UNCHANGED env, Down(p) PROVE StartInv'
    BY <1>1, <1>5 DEF Down
  <1>6. CASE UNCHANGED startVars
    BY <1>6 DEF startVars, StartInv, StartTypeOK, Recorded, Begun, Ready
  <1>7. QED
    BY <1>2, <1>3, <1>4, <1>5, <1>6 DEF StartNext

\* The names of the settings, by kind.
LEMMA CountNames ==
  DOMAIN Counts = {"uploads", "downloads", "driveRequests", "attempts", "cleanupBatch", "cleanupInterval",
                   "stagingStale", "reconcileBatch", "importPage", "importBatch", "importInterval", "expiryBatch"}
  BY DEF Counts
LEMMA RateNames ==
  DOMAIN Rates = {"login", "credentials", "signatures", "s3", "anonymous", "shares", "mfa", "keys"}
  BY DEF Rates
LEMMA BoundNames ==
  DOMAIN Bounds = {"tick", "interval", "failures", "partMb", "chunk", "shortest", "longest", "json", "xml", "parts",
                   "partBytes", "cache"}
  BY DEF Bounds
LEMMA ChoiceNames ==
  DOMAIN Named = {"mode", "tls", "origin", "domain", "emails", "inline", "file", "project"}
  BY DEF Named

\* A value of an accepted configuration is what its parser returned, or a default.
LEMMA ValueParses ==
  ASSUME IsEnvironment(env), ConfigAccepted(env), NEW s \in Setting, s \in DOMAIN env
  PROVE  Value(env, s) = env[s] /\ Parses(s, env[s])
  <1>1. Value(env, s) = env[s]
    BY DEF Value
  <1>2. Value(env, s) # Malformed
    BY DEF ConfigAccepted
  <1>3. QED
    BY <1>1, <1>2 DEF IsEnvironment

LEMMA NumberIsNat ==
  ASSUME IsEnvironment(env), ConfigAccepted(env), NEW s \in {"shortest", "longest", "partMb", "parts", "importPage"}
  PROVE  Value(env, s) \in Nat
  <1>1. s \in DOMAIN Counts \cup DOMAIN Bounds /\ s \notin DOMAIN Rates
    BY CountNames, BoundNames, RateNames
  <1>2. CASE s \in DOMAIN env
    <2>1. s \in Setting
      BY <1>1 DEF Setting
    <2>2. Value(env, s) = env[s] /\ Parses(s, env[s])
      BY <1>2, <2>1, ValueParses
    <2>3. QED
      BY <2>2, <1>1 DEF Parses
  <1>3. CASE s \notin DOMAIN env
    <2>1. Value(env, s) = Default(s)
      BY <1>3 DEF Value
    <2>2. CASE s = "importPage"
      <3>1. Default(s) = Counts["importPage"]
        BY <2>2, CountNames DEF Default
      <3>2. QED
        BY <2>1, <3>1 DEF Counts
    <2>3. CASE s # "importPage"
      <3>1. s \notin DOMAIN Counts /\ s \in DOMAIN Bounds
        BY <2>3, CountNames, BoundNames
      <3>2. Default(s) = Bounds[s]
        BY <3>1, <1>1 DEF Default
      <3>3. Bounds[s] \in Nat
        BY <2>3 DEF Bounds, Week
      <3>4. QED
        BY <2>1, <3>2, <3>3
    <2>4. QED
      BY <2>2, <2>3
  <1>4. QED
    BY <1>2, <1>3

LEMMA ChoiceDefault ==
  ASSUME NEW s \in DOMAIN Named
  PROVE  s \in Setting /\ Default(s) = Named[s]
  <1>1. s \notin DOMAIN Counts /\ s \notin DOMAIN Rates /\ s \notin DOMAIN Bounds
    BY CountNames, RateNames, BoundNames, ChoiceNames
  <1>2. QED
    BY <1>1 DEF Default, Setting

LEMMA PartSizeKnown == ASSUME NEW n \in Nat, n >= 5, n <= 5120 PROVE n \in PartSizes
  <1>1. LargestPart = 5120
    BY DEF LargestPart
  <1>2. QED
    BY <1>1 DEF PartSizes
LEMMA PartNumberKnown == ASSUME NEW n \in Nat, n > 0, n <= 10000 PROVE n \in PartNumbers
  <1>1. MostParts = 10000
    BY DEF MostParts
  <1>2. QED
    BY <1>1 DEF PartNumbers
LEMMA PageKnown == ASSUME NEW n \in Nat, n > 0, n <= 1000 PROVE n \in FilesPerPage
  <1>1. LargestPage = 1000
    BY DEF LargestPage
  <1>2. QED
    BY <1>1 DEF FilesPerPage

\* What loadConfig lets through can be used as it is.
LEMMA AcceptedUsable == StartTypeOK => AcceptedIsUsable
  <1> SUFFICES ASSUME StartTypeOK, ConfigAccepted(env) PROVE Usable(env)
    BY DEF AcceptedIsUsable
  <1>1. IsEnvironment(env)
    BY DEF StartTypeOK
  <1>d. Week \in Nat
    BY DEF Week
  <1>2. \E t \in Value(env, "shortest")..Value(env, "longest") : t \in 1..Week
    <2>1. Value(env, "shortest") \in Nat /\ Value(env, "longest") \in Nat
      BY <1>1, NumberIsNat
    <2>2. /\ Value(env, "shortest") >= 1 /\ Value(env, "longest") <= Week
          /\ Value(env, "shortest") <= Value(env, "longest")
      BY DEF ConfigAccepted, ExpiriesAccepted
    <2>3. /\ Value(env, "shortest") \in Value(env, "shortest")..Value(env, "longest")
          /\ Value(env, "shortest") \in 1..Week
      BY <2>1, <2>2, <1>d
    <2>4. QED
      BY <2>3
  <1>3. Value(env, "partMb") \in PartSizes
    <2>1. Value(env, "partMb") \in Nat
      BY <1>1, NumberIsNat
    <2>2. Value(env, "partMb") >= 5 /\ Value(env, "partMb") <= 5120
      BY DEF ConfigAccepted
    <2>3. QED
      BY <2>1, <2>2, PartSizeKnown
  <1>4. Value(env, "parts") \in PartNumbers
    <2>1. Value(env, "parts") \in Nat
      BY <1>1, NumberIsNat
    <2>2. Value(env, "parts") > 0
      BY DEF ConfigAccepted
    <2>3. Value(env, "parts") <= 10000
      BY DEF ConfigAccepted
    <2>4. QED
      BY <2>1, <2>2, <2>3, PartNumberKnown
  <1>5. Value(env, "importPage") \in FilesPerPage
    <2>1. Value(env, "importPage") \in Nat
      BY <1>1, NumberIsNat
    <2>2. Value(env, "importPage") > 0
      BY CountNames DEF ConfigAccepted
    <2>3. Value(env, "importPage") <= 1000
      BY DEF ConfigAccepted
    <2>4. QED
      BY <2>1, <2>2, <2>3, PageKnown
  <1>6. Project(env) # Blank <=> ServiceAccount(env) \in {"names a project", "names none"}
    <2>1. ASSUME NEW s \in {"inline", "file"}
          PROVE  Value(env, s) \in {"none", "names a project", "names none"}
      <3>1. s \in DOMAIN Named /\ Named[s] = "none"
        BY ChoiceNames DEF Named
      <3>2. s \in Setting /\ Default(s) = "none"
        BY <3>1, ChoiceDefault
      <3>3. CASE s \in DOMAIN env
        <4>1. Value(env, s) = env[s] /\ Parses(s, env[s])
          BY <3>2, <3>3, <1>1, ValueParses
        <4>2. QED
          BY <4>1 DEF Parses
      <3>4. CASE s \notin DOMAIN env
        BY <3>2, <3>4 DEF Value
      <3>5. QED
        BY <3>3, <3>4
    <2>2. ServiceAccount(env) \in {"none", "names a project", "names none"}
      BY <2>1 DEF ServiceAccount
    <2>3. Project(env) = Blank <=> ServiceAccount(env) = "none"
      BY DEF ConfigAccepted, QuotaAccepted
    <2>4. QED
      BY <2>2, <2>3
  <1>7. \E who \in Value(env, "emails") \cup {Value(env, "domain")} : who # Blank
    <2>1. CASE Value(env, "domain") # Blank
      BY <2>1
    <2>2. CASE Value(env, "emails") # {}
      <3>1. "emails" \in DOMAIN Named /\ Named["emails"] = {}
        BY ChoiceNames DEF Named
      <3>2. "emails" \in Setting /\ Default("emails") = {}
        BY <3>1, ChoiceDefault
      <3>3. "emails" \in DOMAIN env
        BY <2>2, <3>2 DEF Value
      <3>4. Blank \notin Value(env, "emails")
        <4>1. Value(env, "emails") = env["emails"] /\ Parses("emails", env["emails"])
          BY <3>2, <3>3, <1>1, ValueParses
        <4>2. QED
          BY <4>1 DEF Parses
      <3>5. QED
        BY <2>2, <3>4
    <2>3. QED
      BY <2>1, <2>2 DEF ConfigAccepted
  <1>8. Value(env, "mode") = "production" => Value(env, "tls") = TRUE
    <2>1. "tls" \in DOMAIN Named /\ Named["tls"] = FALSE
      BY ChoiceNames DEF Named
    <2>2. "tls" \in Setting /\ Default("tls") = FALSE
      BY <2>1, ChoiceDefault
    <2>3. Value(env, "tls") \in BOOLEAN
      <3>1. CASE "tls" \in DOMAIN env
        <4>1. Value(env, "tls") = env["tls"] /\ Parses("tls", env["tls"])
          BY <2>2, <3>1, <1>1, ValueParses
        <4>2. QED
          BY <4>1 DEF Parses
      <3>2. CASE "tls" \notin DOMAIN env
        BY <2>2, <3>2 DEF Value
      <3>3. QED
        BY <3>1, <3>2
    <2>4. Value(env, "mode") = "production" => Value(env, "tls")
      BY DEF ConfigAccepted
    <2>5. QED
      BY <2>3, <2>4
  <1>9. QED
    BY <1>2, <1>3, <1>4, <1>5, <1>6, <1>7, <1>8 DEF Usable

LEMMA StartInvSafe == StartInv => StartSafe
  <1> SUFFICES ASSUME StartInv PROVE StartSafe
    OBVIOUS
  <1> DEFINE k == Len(committed)
  <1>1. StartTypeOK /\ applied = 1..k /\ k \in Nat /\ DOMAIN committed = 1..k /\ \A i \in 1..k : committed[i] = i
    BY DEF StartInv, StartTypeOK, Recorded
  <1>2. VersionsInOrder
    BY <1>1 DEF VersionsInOrder
  <1>3. MaxVersion(applied) = k
    <2>1. CASE k = 0
      BY <1>1, <2>1 DEF MaxVersion
    <2>2. CASE k # 0
      <3>1. k \in applied /\ \A w \in applied : w <= k
        BY <1>1, <2>2
      <3> DEFINE m == CHOOSE v \in applied : \A w \in applied : w <= v
      <3>2. m \in applied /\ \A w \in applied : w <= m
        BY <3>1
      <3>3. m = k
        BY <3>1, <3>2, <1>1
      <3>4. MaxVersion(applied) = m
        BY <3>1 DEF MaxVersion
      <3>5. QED
        BY <3>3, <3>4
    <2>3. QED
      BY <2>1, <2>2
  <1>4. ServesItsSchema
    <2> SUFFICES ASSUME NEW p \in Processes, booting[p].at = "serving"
                 PROVE  Expected(booting[p].release) \subseteq columns /\ ReportsReady(p)
      BY DEF ServesItsSchema
    <2>1. Len(booting[p].release) <= k /\ Expected(booting[p].release) \subseteq columns
      BY DEF StartInv, Ready
    <2>2. booting[p].release \in Release
      BY <1>1 DEF StartTypeOK, Boot, Release
    <2>3. Len(booting[p].release) \in Nat
      BY <2>2, ReleaseIsSequence
    <2>4. QED
      BY <2>1, <2>3, <1>1, <1>3 DEF ReportsReady
  <1>5. QED
    BY <1>1, <1>2, <1>4, AcceptedUsable DEF StartSafe

\* Whatever the environment, the releases and the processes that start and
\* die beside each other: only a usable configuration is let through, versions
\* are committed once and in order, and whoever serves has its schema.
THEOREM StartsAreSafe == StartSpec => []StartSafe
  <1>1. StartSpec => []StartInv
    BY StartInitInv, StartNextInv, PTL DEF StartSpec
  <1>2. QED
    BY <1>1, StartInvSafe, PTL

-----------------------------------------------------------------------------
(* The stop.  Who has been told stays out of a pass from the moment the    *)
(* next is told, since the flag is up and its interval is gone.            *)

Last == Len(Order)
Quiet(n) == \A i \in 1..n : Order[i] \in Flagged => Order[i] \notin passing

StopInv ==
    /\ ShutdownTypeOK
    /\ life = "up" => told = 0
    /\ life = "draining" => told > 0 /\ Quiet(told - 1)
    /\ life = "exited" => told = Last /\ Quiet(Last)

LEMMA OrderFacts ==
    /\ Last = 6 /\ DOMAIN Order = 1..6
    /\ \A w \in Workers : \E i \in 1..6 : w = Order[i]
    /\ \A i \in 1..6 : Order[i] \in Workers
    /\ \A i, j \in 1..6 : Order[i] = Order[j] => i = j
  <1>1. Last = 6 /\ DOMAIN Order = 1..6
    BY DEF Last, Order
  <1>2. \A i, j \in 1..6 : Order[i] = Order[j] => i = j
    BY DEF Order
  <1>3. QED
    BY <1>1, <1>2, ShutdownAssumption

LEMMA StopInitInv == ShutdownInit => StopInv
  <1> SUFFICES ASSUME ShutdownInit PROVE StopInv
    OBVIOUS
  <1>1. life = "up" /\ told = 0 /\ passing = {} /\ timers \subseteq Workers /\ first = timers
    BY DEF ShutdownInit
  <1>2. ShutdownTypeOK
    BY <1>1, OrderFacts DEF ShutdownTypeOK, Last
  <1>3. QED
    BY <1>1, <1>2 DEF StopInv

\* A timer that fires or a pass that ends starts no pass of who is told to stop.
LEMMA Fires ==
    ASSUME StopInv, UNCHANGED <<life, told>>, life # "exited", timers' = timers, first' \subseteq first,
           passing' \subseteq Workers, \A w \in passing' : w \in passing \/ ~Stopping(w)
    PROVE  StopInv'
  <1>1. ShutdownTypeOK'
    BY DEF StopInv, ShutdownTypeOK
  <1>2. ASSUME life = "draining" PROVE Quiet(told - 1)'
    <2>1. told \in 1..6 /\ Quiet(told - 1) /\ told' = told
      BY <1>2, OrderFacts DEF StopInv, ShutdownTypeOK, Last
    <2>2. ASSUME NEW i \in 1..(told - 1), Order[i] \in Flagged, Order[i] \in passing' PROVE FALSE
      <3>1. i \in 1..told
        BY <2>1
      <3>2. Stopping(Order[i])
        BY <2>2, <3>1 DEF Stopping
      <3>3. Order[i] \in passing
        BY <2>2, <3>2
      <3>4. QED
        BY <2>1, <2>2, <3>3 DEF Quiet
    <2>3. QED
      BY <2>1, <2>2 DEF Quiet
  <1>3. QED
    BY <1>1, <1>2 DEF StopInv, ShutdownTypeOK

LEMMA StopNextInv == StopInv /\ [ShutdownNext]_lifeVars => StopInv'
  <1> SUFFICES ASSUME StopInv, [ShutdownNext]_lifeVars PROVE StopInv'
    OBVIOUS
  <1>0. /\ ShutdownTypeOK /\ told \in 0..6 /\ timers \subseteq Workers /\ first \subseteq Workers
        /\ passing \subseteq Workers /\ Last = 6 /\ Len(Order) = 6
    BY OrderFacts DEF StopInv, ShutdownTypeOK, Last
  <1>1. ASSUME NEW w \in Workers, FirstFires(w) PROVE StopInv'
    <2>1. passing' \subseteq Workers /\ \A x \in passing' : x \in passing \/ ~Stopping(x)
      BY <1>0, <1>1 DEF FirstFires, MayPass
    <2>2. QED
      BY <1>1, <2>1, Fires DEF FirstFires
  <1>2. ASSUME NEW w \in Workers, IntervalFires(w) PROVE StopInv'
    <2>1. passing' \subseteq Workers /\ \A x \in passing' : x \in passing \/ ~Stopping(x)
      BY <1>0, <1>2 DEF IntervalFires, MayPass
    <2>2. QED
      BY <1>2, <2>1, Fires DEF IntervalFires
  <1>3. ASSUME NEW w \in Workers, PassEnds(w) PROVE StopInv'
    <2>1. passing' \subseteq Workers /\ \A x \in passing' : x \in passing \/ ~Stopping(x)
      BY <1>0, <1>3 DEF PassEnds
    <2>2. QED
      BY <1>3, <2>1, Fires DEF PassEnds
  <1>4. ASSUME TellNext, UNCHANGED <<first, passing>>, life' = "draining", told < 6 PROVE ShutdownTypeOK' /\ told' = told + 1
    <2>1. told' = told + 1 /\ timers' = timers \ {Order[told + 1]}
      BY <1>4 DEF TellNext
    <2>2. told' \in 0..Len(Order)
      BY <2>1, <1>0, <1>4
    <2>3. \A i \in 1..told' : Order[i] \notin timers'
      <3>1. \A i \in 1..told' : i \in 1..told \/ i = told + 1
        BY <2>1, <1>0
      <3>2. QED
        BY <2>1, <3>1 DEF StopInv, ShutdownTypeOK
    <2>4. timers' \subseteq Workers /\ first' \subseteq Workers /\ passing' \subseteq Workers
      BY <2>1, <1>0, <1>4
    <2>5. QED
      BY <1>4, <2>1, <2>2, <2>3, <2>4 DEF ShutdownTypeOK
  <1>5. CASE Sigterm
    <2>1. life = "up" /\ life' = "draining" /\ told = 0 /\ TellNext /\ UNCHANGED <<first, passing>>
      BY <1>5 DEF Sigterm, StopInv
    <2>2. told' = 1 /\ told < 6
      BY <2>1 DEF TellNext
    <2>3. QED
      <3>1. life' \in {"up", "draining", "exited"} /\ Quiet(told - 1)'
        BY <2>1, <2>2 DEF Quiet
      <3>2. ShutdownTypeOK'
        <4>1. told' \in 0..Len(Order) /\ \A i \in 1..told' : Order[i] \notin timers'
          BY <2>1, <2>2, <1>0 DEF TellNext
        <4>2. timers' \subseteq Workers /\ first' \subseteq Workers /\ passing' \subseteq Workers
          BY <2>1, <1>0 DEF TellNext
        <4>3. QED
          BY <3>1, <4>1, <4>2 DEF ShutdownTypeOK
      <3>3. QED
        BY <2>1, <2>2, <3>1, <3>2 DEF StopInv
  <1>6. CASE StopNext
    <2>1. life = "draining" /\ told \in 1..6 /\ Quiet(told - 1) /\ PassOver(Order[told]) /\ UNCHANGED <<first, passing>>
      BY <1>0, <1>6 DEF StopNext, StopInv
    <2>2. Quiet(told)
      <3>1. \A i \in 1..told : i \in 1..(told - 1) \/ i = told
        BY <2>1
      <3>2. QED
        BY <2>1, <3>1 DEF Quiet, PassOver
    <2>3. \A n \in Nat : Quiet(n) => Quiet(n)'
      BY <2>1 DEF Quiet
    <2>4. CASE told < 6
      <3>1. TellNext /\ life' = "draining"
        BY <1>0, <1>6, <2>1, <2>4 DEF StopNext
      <3>2. told' = told + 1 /\ told' - 1 = told
        BY <3>1, <2>1 DEF TellNext
      <3>3. \A i \in 1..(told' - 1) : Order[i] \in Flagged => Order[i] \notin passing'
        BY <2>1, <2>2, <3>2 DEF Quiet
      <3>4. ShutdownTypeOK'
        BY <1>4, <2>1, <2>4, <3>1
      <3>5. QED
        BY <2>1, <3>1, <3>2, <3>3, <3>4 DEF StopInv, Quiet
    <2>5. CASE told = 6
      <3>1. life' = "exited" /\ told' = told /\ timers' = timers
        BY <1>0, <1>6, <2>5 DEF StopNext
      <3>2. ShutdownTypeOK'
        BY <1>0, <2>1, <3>1 DEF ShutdownTypeOK
      <3>3. QED
        BY <1>0, <2>1, <2>2, <2>5, <3>1, <3>2 DEF StopInv, Quiet
    <2>6. QED
      BY <2>1, <2>4, <2>5
  <1>7. CASE UNCHANGED lifeVars
    BY <1>7 DEF lifeVars, StopInv, ShutdownTypeOK, Quiet
  <1>8. QED
    BY <1>1, <1>2, <1>3, <1>5, <1>6, <1>7 DEF ShutdownNext

\* Whatever timers fire while the others are waited for, the process exits
\* only once all have been told, none with a flag being in a pass.
THEOREM NobodyWorksAtExit == ShutdownSpec => [](ShutdownTypeOK /\ DrainedAtExit)
  <1>1. ShutdownSpec => []StopInv
    BY StopInitInv, StopNextInv, PTL DEF ShutdownSpec
  <1>2. StopInv => ShutdownTypeOK /\ DrainedAtExit
    <2> SUFFICES ASSUME StopInv, life = "exited", NEW w \in passing \cap Flagged PROVE FALSE
      BY DEF StopInv, DrainedAtExit
    <2>1. PICK i \in 1..6 : w = Order[i]
      BY OrderFacts DEF Workers
    <2>2. QED
      BY <2>1, OrderFacts DEF StopInv, Quiet
  <1>3. QED
    BY <1>1, <1>2, PTL

-----------------------------------------------------------------------------
(* The settings.  Each half has its own row, so that they are of one       *)
(* client unless a process died between the two statements.                *)

SettingsInv == SettingsSafe /\ (~torn => idRow = secretRow)

LEMMA ReloadedFields ==
    ASSUME NEW id, NEW secret, NEW name
    PROVE  /\ Reloaded(id, secret, name).id = Or(id, EnvClient)
           /\ Reloaded(id, secret, name).secret = Or(secret, EnvClient)
           /\ Reloaded(id, secret, name).name = Or(name, DefaultName)
  BY DEF Reloaded

\* What is in use was read from rows that are typed: it is typed, and of one
\* client if the rows are.
LEMMA InUse ==
    ASSUME NEW id \in GoogleClients \cup {Unset}, NEW secret \in GoogleClients \cup {Unset},
           NEW name \in FolderNames \cup {Unset}
    PROVE  /\ Reloaded(id, secret, name).id \in GoogleClients
           /\ Reloaded(id, secret, name).secret \in GoogleClients
           /\ Reloaded(id, secret, name).name \in FolderNames
           /\ id = secret => Reloaded(id, secret, name).id = Reloaded(id, secret, name).secret
  BY ReloadedFields, SettingsAssumption DEF Or

LEMMA SettingsInitInv == SettingsInit => SettingsInv
  <1> SUFFICES ASSUME SettingsInit PROVE SettingsInv
    OBVIOUS
  <1>1. /\ idRow = Unset /\ secretRow = Unset /\ nameRow = Unset /\ sealedBy = Unset
        /\ masterKey \in MasterKeys /\ inUse = Reloaded(idRow, secretRow, nameRow)
    BY DEF SettingsInit
  <1>2. QED
    BY <1>1, InUse DEF SettingsInv, SettingsSafe, SettingsTypeOK, OneClientsPair, UsedIsStored, Readable

\* A step that leaves typed rows, and in use what they say or nothing.
LEMMA RowsInUse ==
    ASSUME idRow' \in GoogleClients \cup {Unset}, secretRow' \in GoogleClients \cup {Unset},
           nameRow' \in FolderNames \cup {Unset}, sealedBy' \in MasterKeys \cup {Unset}, masterKey' \in MasterKeys,
           (secretRow = Unset)' <=> (sealedBy = Unset)', ~torn' => idRow' = secretRow',
           \/ inUse' = Unset
           \/ inUse' = Reloaded(idRow', secretRow', nameRow') /\ Readable(masterKey)'
    PROVE  SettingsInv'
  <1>1. SettingsTypeOK'
    BY InUse DEF SettingsTypeOK
  <1>2. OneClientsPair'
    BY InUse DEF OneClientsPair
  <1>3. UsedIsStored'
    BY DEF UsedIsStored
  <1>4. QED
    BY <1>1, <1>2, <1>3 DEF SettingsInv, SettingsSafe

LEMMA SettingsNextInv == SettingsInv /\ [SettingsNext]_settingVars => SettingsInv'
  <1> SUFFICES ASSUME SettingsInv, [SettingsNext]_settingVars PROVE SettingsInv'
    OBVIOUS
  <1>0. /\ idRow \in GoogleClients \cup {Unset} /\ secretRow \in GoogleClients \cup {Unset}
        /\ nameRow \in FolderNames \cup {Unset} /\ sealedBy \in MasterKeys \cup {Unset} /\ masterKey \in MasterKeys
        /\ secretRow = Unset <=> sealedBy = Unset
        /\ inUse # Unset => inUse = Reloaded(idRow, secretRow, nameRow) /\ Readable(masterKey)
        /\ ~torn => idRow = secretRow
    BY DEF SettingsInv, SettingsSafe, SettingsTypeOK, UsedIsStored
  <1>k. \A k \in MasterKeys : k # Unset
    BY SettingsAssumption
  <1>c. \A c \in GoogleClients : c # Unset
    BY SettingsAssumption
  <1>1. ASSUME NEW c \in GoogleClients, UpdateClient(c) PROVE SettingsInv'
    <2>1. /\ idRow' = c /\ secretRow' = c /\ sealedBy' = masterKey /\ nameRow' = nameRow /\ masterKey' = masterKey
          /\ inUse' = Reloaded(idRow', secretRow', nameRow')
      BY <1>1 DEF UpdateClient, Writes, Reloads
    <2>2. Readable(masterKey)'
      BY <2>1 DEF Readable
    <2>3. QED
      BY <1>0, <1>k, <1>c, <2>1, <2>2, RowsInUse
  <1>2. ASSUME NEW c \in GoogleClients, DiesInUpdate(c) PROVE SettingsInv'
    <2>1. /\ idRow' = c /\ torn' = TRUE /\ UNCHANGED <<secretRow, nameRow, sealedBy, masterKey>> /\ inUse' = Unset
      BY <1>2 DEF DiesInUpdate, Dies
    <2>2. QED
      BY <1>0, <2>1, RowsInUse
  <1>3. ASSUME NEW n \in FolderNames \cup {Unset}, nameRow' = n, inUse # Unset, Reloads,
               UNCHANGED <<idRow, secretRow, sealedBy, masterKey, torn>>
        PROVE  SettingsInv'
    <2>1. inUse' = Reloaded(idRow', secretRow', nameRow')
      BY <1>3 DEF Reloads
    <2>2. Readable(masterKey)'
      BY <1>0, <1>3 DEF Readable
    <2>3. QED
      BY <1>0, <1>3, <2>1, <2>2, RowsInUse
  <1>4. ASSUME NEW k \in MasterKeys, StartsWith(k) PROVE SettingsInv'
    <2>1. masterKey' = k /\ UNCHANGED <<idRow, secretRow, nameRow, sealedBy, torn>>
      BY <1>4 DEF StartsWith
    <2>2. inUse' = Unset \/ (inUse' = Reloaded(idRow', secretRow', nameRow') /\ Readable(k))
      <3>1. CASE Readable(k)
        <4>1. inUse' = Reloaded(idRow, secretRow, nameRow)
          BY <1>4, <3>1 DEF StartsWith, Opens
        <4>2. idRow' = idRow /\ secretRow' = secretRow /\ nameRow' = nameRow
          BY <2>1
        <4>3. QED
          BY <3>1, <4>1, <4>2, Zenon
      <3>2. CASE ~Readable(k)
        BY <1>4, <3>2 DEF StartsWith, Opens
      <3>3. QED
        BY <3>1, <3>2
    <2>3. Readable(k) => Readable(masterKey)'
      BY <2>1 DEF Readable
    <2>4. QED
      BY <1>0, <2>1, <2>2, <2>3, RowsInUse
  <1>5. CASE ResetClient
    <2>1. /\ idRow' = Unset /\ secretRow' = Unset /\ sealedBy' = Unset /\ nameRow' = nameRow /\ masterKey' = masterKey
          /\ inUse' = Reloaded(idRow', secretRow', nameRow')
      BY <1>5 DEF ResetClient, Erases, ReloadsAfterReset, Reloads
    <2>2. Readable(masterKey)'
      BY <2>1 DEF Readable
    <2>3. QED
      BY <1>0, <2>1, <2>2, RowsInUse
  <1>6. CASE DiesInReset
    <2>1. /\ idRow' = Unset /\ torn' = TRUE /\ UNCHANGED <<secretRow, nameRow, sealedBy, masterKey>> /\ inUse' = Unset
      BY <1>6 DEF DiesInReset, Dies
    <2>2. QED
      BY <1>0, <2>1, RowsInUse
  <1>7. CASE DiesIdle
    <2>1. UNCHANGED <<idRow, secretRow, nameRow, sealedBy, torn, masterKey>> /\ inUse' = Unset
      BY <1>7 DEF DiesIdle, Dies
    <2>2. QED
      BY <1>0, <2>1, RowsInUse
  <1>8. CASE UNCHANGED settingVars
    <2>1. UNCHANGED <<idRow, secretRow, nameRow, sealedBy, torn, masterKey, inUse>>
      BY <1>8 DEF settingVars
    <2>2. QED
      BY <2>1 DEF SettingsInv, SettingsSafe, SettingsTypeOK, OneClientsPair, UsedIsStored, Readable
  <1>9. QED
    BY <1>1, <1>2, <1>3, <1>4, <1>5, <1>6, <1>7, <1>8 DEF SettingsNext, UpdateName, ResetName

\* For any clients and keys: what is in use is what the rows say, opened with
\* the key it was sealed with, and of one client unless a process died between
\* the two rows and no save or reset came after.
THEOREM SettingsAreSafe == SettingsSpec => []SettingsSafe
  <1>1. SettingsSpec => []SettingsInv
    BY SettingsInitInv, SettingsNextInv, PTL DEF SettingsSpec
  <1>2. SettingsInv => SettingsSafe
    BY DEF SettingsInv
  <1>3. QED
    BY <1>1, <1>2, PTL

-----------------------------------------------------------------------------
(***************************************************************************)
(* Imports from Drive, and snapshots into it.                              *)
(***************************************************************************)

Status == JobActive \cup JobEnded \cup {"none"}
Counted == [DOMAIN NoCounts -> Nat]
ImportJob == [status : Status, phase : {"scan", "copy"}, discovered : Nat, counted : Counted]
FolderRow == [status : {"none", "pending", "scanning", "completed"}, page : Nat]
ItemStatus == {"none", "imported", "conflict", "unsupported", "failed"} \cup Outstanding
Staged == {"none", "uploading", "uploaded", "committed", "failed"}
Hand == [step : {"idle", "listing", "next", "asking", "waiting", "uploading"},
         folder : Folder, batch : SUBSET File]
Copying == {"next", "asking", "waiting", "uploading"}

-----------------------------------------------------------------------------
\* The worker has something in hand only for a job at work, and a batch is of
\* items that are being imported.
HandInv ==
    /\ hand.step = "idle" => hand = NoHand
    /\ hand.step # "idle" => job.status \in JobActive
    /\ hand.step \in Copying => /\ hand.batch # {} /\ job.phase = "copy"
                                /\ \A i \in hand.batch : items[i] = "importing"

\* What the job says of its items.
Known == {i \in File : items[i] # "none"}
CountOf(rows) == [c \in DOMAIN NoCounts |-> Cardinality({i \in File : rows[i] = c})]
CountsInv ==
    /\ job.discovered = Cardinality(Known)
    /\ job.status = "completed" => job.counted = CountOf(items) /\ ~Left(items)

WorkInv ==
    /\ job \in ImportJob /\ folders \in [Folder -> FolderRow]
    /\ items \in [File -> ItemStatus] /\ hand \in Hand /\ importEvents \in Nat
    /\ HandInv /\ CountsInv

\* A copy is numbered when it is made, is stored under its item's key only, by
\* an item that is committed, and an uploaded one is not given up yet.
CopyInv ==
    /\ \A k \in Key, i \in File, n \in Nat :
          stored[k] = <<i, n>> => KeyOf[i] = k /\ n <= copies[i] /\ staging[i] = "committed"
    /\ \A i \in File, n \in Nat : <<i, n>> \in released => n <= copies[i]
    /\ \A i \in File : staging[i] = "uploaded" => <<i, copies[i]>> \notin released

StoreInv ==
    /\ staging \in [File -> Staged]
    /\ stored \in [Key -> {NoObject, Client} \cup (File \X Nat)]
    /\ released \subseteq File \X Nat
    /\ copies \in [File -> Nat]
    /\ CopyInv /\ ImportedFileKept

\* An item is committed by the row that makes it an object; only what is
\* reported as imported, or will be looked at again, is committed; and the row
\* of the item in hand is what its step left there.
LinkInv ==
    /\ commits = [i \in File |-> IF staging[i] = "committed" THEN 1 ELSE 0]
    /\ \A i \in File : /\ items[i] = "imported" => staging[i] = "committed"
                       /\ staging[i] = "committed" => items[i] \in {"imported", "importing"}
    /\ hand.step \in {"asking", "waiting"} => staging[Item] = "none"
    /\ hand.step = "uploading" => staging[Item] = "uploading"

ImportInv == WorkInv /\ StoreInv /\ LinkInv

-----------------------------------------------------------------------------
LEMMA Given == File \subseteq Nat /\ IsFiniteSet(File) /\ Root \in Folder /\ KeyOf \in [File -> Key]
  BY DriveImportAssumption

USE Given

Smaller == OpToRel(<, Nat)

LEMMA SmallerPairs == \A m, n \in Nat : m < n => <<m, n>> \in Smaller
  BY Zenon DEF Smaller, OpToRel

\* The item in hand is one of the batch.
LEMMA LeastOfBatch ==
    ASSUME NEW S \in SUBSET File, S # {}
    PROVE  Min(S) \in S
  <1>1. IsWellFoundedOn(Smaller, Nat)
    BY NatLessThanWellFounded DEF Smaller
  <1>2. S \in SUBSET Nat
    OBVIOUS
  <1>3. PICK n \in S : \A m \in S : <<m, n>> \notin Smaller
    BY <1>1, <1>2, WFMin
  <1>4. \A m \in S : m \in Nat /\ n \in Nat /\ ~(m < n)
    BY <1>2, <1>3, SmallerPairs
  <1>5. \A m \in S : n <= m
    BY <1>4
  <1>6. QED
    BY <1>5 DEF Min

\* No object, a client's object and a copy are told apart.
LEMMA ObjectsApart ==
    /\ NoObject # Client
    /\ \A i \in File, n \in Nat : <<i, n>> # NoObject /\ <<i, n>> # Client
    /\ NoObject \notin File \X Nat /\ Client \notin File \X Nat
  <1>1. NoObject # Client
    BY DEF NoObject, Client
  <1>2. ASSUME NEW i \in File, NEW n \in Nat
        PROVE  <<i, n>> # NoObject /\ <<i, n>> # Client
    BY DEF NoObject, Client
  <1>3. NoObject \notin File \X Nat
    BY DEF NoObject
  <1>4. Client \notin File \X Nat
    <2>1. ASSUME NEW p \in File \X Nat
          PROVE  p = <<p[1], p[2]>> /\ p[1] \in File /\ p[2] \in Nat
      OBVIOUS
    <2>2. QED
      BY <1>2, <2>1, Zenon
  <1>5. QED
    BY <1>1, <1>2, <1>3, <1>4, Zenon

LEMMA JobFields ==
    ASSUME NEW j \in ImportJob
    PROVE  /\ j.status \in Status /\ j.phase \in {"scan", "copy"} /\ j.discovered \in Nat /\ j.counted \in Counted
           /\ \A s \in Status :
                 LET new == [j EXCEPT !.status = s]
                 IN  /\ new \in ImportJob /\ new.status = s /\ new.phase = j.phase
                     /\ new.discovered = j.discovered /\ new.counted = j.counted
           /\ LET new == [j EXCEPT !.phase = "copy"]
              IN  /\ new \in ImportJob /\ new.status = j.status /\ new.phase = "copy"
                  /\ new.discovered = j.discovered /\ new.counted = j.counted
           /\ \A m \in Nat :
                 LET new == [j EXCEPT !.discovered = @ + m]
                 IN  /\ new \in ImportJob /\ new.status = j.status /\ new.phase = j.phase
                     /\ new.discovered = j.discovered + m /\ new.counted = j.counted
           /\ \A c \in Counted, s \in Status :
                 LET new == [j EXCEPT !.counted = c, !.status = s]
                 IN  /\ new \in ImportJob /\ new.status = s /\ new.phase = j.phase
                     /\ new.discovered = j.discovered /\ new.counted = c
  <1>1. \A m \in Nat : j.discovered + m \in Nat
    BY DEF ImportJob
  <1>2. QED
    BY <1>1 DEF ImportJob

LEMMA HandFields ==
    ASSUME NEW h \in Hand
    PROVE  /\ h.step \in {"idle", "listing"} \cup Copying /\ h.folder \in Folder /\ h.batch \in SUBSET File
           /\ \A s \in {"listing"} \cup Copying :
                 LET new == [h EXCEPT !.step = s]
                 IN  new \in Hand /\ new.step = s /\ new.batch = h.batch /\ new.folder = h.folder
           /\ \A i : LET new == [h EXCEPT !.step = "next", !.batch = @ \ {i}]
                     IN  new \in Hand /\ new.step = "next" /\ new.batch = h.batch \ {i}
  BY DEF Hand, Copying

LEMMA NoHandFields ==
    /\ NoHand \in Hand /\ NoHand.step = "idle" /\ NoHand.batch = {}
    /\ \A f \in Folder : LET new == [NoHand EXCEPT !.step = "listing", !.folder = f]
                         IN  new \in Hand /\ new.step = "listing"
    /\ \A b \in SUBSET File : LET new == [NoHand EXCEPT !.step = "next", !.batch = b]
                              IN  new \in Hand /\ new.step = "next" /\ new.batch = b
  BY DEF NoHand, Hand

LEMMA CountsType ==
    ASSUME NEW rows
    PROVE  CountOf(rows) \in Counted
  <1>1. \A c : IsFiniteSet({i \in File : rows[i] = c})
    BY FS_Subset
  <1>2. \A c : Cardinality({i \in File : rows[i] = c}) \in Nat
    BY <1>1, FS_CardinalityType
  <1>3. QED
    BY <1>2 DEF Counted, CountOf

\* A job that is refreshed has the counts of its items, and is completed when
\* nothing is left.
LEMMA RefreshedFields ==
    ASSUME NEW j \in ImportJob, NEW rows
    PROVE  /\ Refreshed(j, rows) \in ImportJob
           /\ Refreshed(j, rows).phase = j.phase /\ Refreshed(j, rows).discovered = j.discovered
           /\ Refreshed(j, rows).counted = CountOf(rows)
           /\ Refreshed(j, rows).status \in {j.status, "cancelled", "completed"}
           /\ Refreshed(j, rows).status = "completed" => j.status = "completed" \/ ~Left(rows)
  <1> DEFINE status == IF j.status = "cancel_requested" THEN "cancelled"
                       ELSE IF j.phase = "copy" /\ ~Left(rows) THEN "completed" ELSE j.status
             new == Refreshed(j, rows)
  <1>1. new = [j EXCEPT !.counted = CountOf(rows), !.status = status]
    BY DEF Refreshed, CountOf
  <1>2. CountOf(rows) \in Counted
    BY CountsType
  <1>3. status \in Status /\ status \in {j.status, "cancelled", "completed"}
        /\ (status = "completed" => j.status = "completed" \/ ~Left(rows))
    BY JobFields DEF JobEnded, Status
  <1> HIDE DEF status, new
  <1>4. PICK c \in Counted, s \in Status : c = CountOf(rows) /\ s = status
    BY <1>2, <1>3
  <1>5. new = [j EXCEPT !.counted = c, !.status = s]
    BY <1>1, <1>4
  <1>6. /\ new \in ImportJob /\ new.status = s /\ new.phase = j.phase
        /\ new.discovered = j.discovered /\ new.counted = c
    BY <1>5 DEF ImportJob
  <1>7. QED
    BY <1>3, <1>4, <1>6 DEF new

-----------------------------------------------------------------------------
(***************************************************************************)
(* The job, its items and the worker.                                      *)
(***************************************************************************)

LEMMA CountsKept ==
    ASSUME CountsInv,
           job'.discovered = job.discovered,
           \A i \in File : items'[i] = "none" <=> items[i] = "none",
           job'.status = "completed" => job'.counted = CountOf(items') /\ ~Left(items')
    PROVE  CountsInv'
  <1>1. Known' = Known
    BY DEF Known
  <1>2. QED
    BY <1>1 DEF CountsInv

\* The worker is idle again, at a job that is not completed unless nothing is left.
LEMMA IdleAgain ==
    ASSUME WorkInv, hand' = NoHand, importEvents' \in Nat,
           job' \in ImportJob, folders' \in [Folder -> FolderRow], items' \in [File -> ItemStatus],
           job'.discovered = job.discovered,
           \A i \in File : items'[i] = "none" <=> items[i] = "none",
           job'.status = "completed" => job'.counted = CountOf(items') /\ ~Left(items')
    PROVE  WorkInv'
  <1>1. CountsInv'
    BY CountsKept DEF WorkInv
  <1>2. hand' \in Hand /\ hand'.step = "idle"
    BY NoHandFields
  <1>3. HandInv'
    BY <1>2 DEF HandInv, Copying
  <1>4. QED
    BY <1>1, <1>2, <1>3 DEF WorkInv

LEMMA InHand ==
    ASSUME WorkInv, hand.step \in Copying
    PROVE  /\ Item \in File /\ Item \in hand.batch /\ items[Item] = "importing"
           /\ job.status \in JobActive /\ job.phase = "copy" /\ job.status # "completed"
  <1>1. hand.batch # {} /\ hand.batch \in SUBSET File
    BY HandFields DEF WorkInv, HandInv
  <1>2. Item \in hand.batch
    BY <1>1, LeastOfBatch DEF Item
  <1>3. QED
    BY <1>1, <1>2 DEF WorkInv, HandInv, Copying, JobActive

LEMMA AnotherStep ==
    ASSUME WorkInv, hand.step \in Copying, NEW s \in Copying, hand' = [hand EXCEPT !.step = s],
           job' = job, folders' = folders, items' = items, importEvents' = importEvents
    PROVE  WorkInv' /\ hand'.step = s /\ Item' = Item
  <1>1. hand' \in Hand /\ hand'.step = s /\ hand'.batch = hand.batch
    BY HandFields DEF WorkInv
  <1>2. HandInv'
    BY <1>1 DEF WorkInv, HandInv, Copying
  <1>3. CountsInv'
    BY CountsKept DEF WorkInv, CountsInv
  <1>4. QED
    BY <1>1, <1>2, <1>3 DEF WorkInv, Item

LEMMA MarkWorks ==
    ASSUME WorkInv, hand.step \in Copying, NEW s \in {"imported", "conflict", "failed"},
           Mark(Item, s), folders' = folders, importEvents' = importEvents
    PROVE  WorkInv' /\ items' = [items EXCEPT ![Item] = s] /\ hand'.step \in {"idle", "next"}
  <1> DEFINE i == Item
  <1>1. i \in File /\ i \in hand.batch /\ items[i] = "importing" /\ job.phase = "copy"
        /\ job.status \in JobActive /\ job.status # "completed"
    BY InHand
  <1>2. items' = [items EXCEPT ![i] = s]
    BY DEF Mark
  <1>3. \/ hand.batch = {i} /\ hand' = NoHand /\ job' = Refreshed(job, items')
        \/ hand.batch # {i} /\ hand' = [hand EXCEPT !.step = "next", !.batch = @ \ {i}] /\ job' = job
    BY DEF Mark
  <1> HIDE DEF i
  <1>4. items' \in [File -> ItemStatus]
    BY <1>1, <1>2 DEF WorkInv, ItemStatus
  <1>5. \A j \in File : items'[j] = "none" <=> items[j] = "none"
    BY <1>1, <1>2 DEF WorkInv
  <1>6. CASE hand' = NoHand /\ job' = Refreshed(job, items')
    <2>1. job' \in ImportJob /\ job'.discovered = job.discovered
          /\ (job'.status = "completed" => job'.counted = CountOf(items') /\ ~Left(items'))
      BY <1>1, <1>6, RefreshedFields DEF WorkInv
    <2>2. WorkInv'
      BY <1>4, <1>5, <1>6, <2>1, IdleAgain DEF WorkInv
    <2>3. QED
      BY <1>2, <1>6, <2>2, NoHandFields DEF i
  <1>7. CASE hand.batch # {i} /\ hand' = [hand EXCEPT !.step = "next", !.batch = @ \ {i}] /\ job' = job
    <2>1. hand' \in Hand /\ hand'.step = "next" /\ hand'.batch = hand.batch \ {i}
      BY <1>7, HandFields DEF WorkInv
    <2>2. hand.batch \in SUBSET File /\ \A j \in hand.batch : items[j] = "importing"
      BY HandFields DEF WorkInv, HandInv
    <2>3. hand'.batch # {} /\ \A j \in hand'.batch : items'[j] = "importing"
      BY <1>1, <1>2, <1>7, <2>1, <2>2 DEF WorkInv
    <2>4. HandInv'
      BY <1>1, <1>7, <2>1, <2>3 DEF HandInv
    <2>5. CountsInv'
      BY <1>1, <1>5, <1>7, CountsKept DEF WorkInv
    <2>6. QED
      BY <1>2, <1>4, <1>7, <2>1, <2>4, <2>5 DEF WorkInv, i
  <1>8. QED
    BY <1>3, <1>6, <1>7

LEMMA CreateWorks ==
    ASSUME WorkInv, CreateJob
    PROVE  WorkInv' /\ hand' = NoHand
  <1>1. job' = [job EXCEPT !.status = "queued"] /\ folders' = [folders EXCEPT ![Root].status = "pending"]
        /\ items' = items /\ hand' = hand /\ importEvents' = importEvents
    BY DEF CreateJob, Created, NewJob
  <1>2. job' \in ImportJob /\ job'.discovered = job.discovered /\ job'.status = "queued"
    BY <1>1 DEF WorkInv, ImportJob, Status, JobActive
  <1>3. folders' \in [Folder -> FolderRow]
    BY <1>1 DEF WorkInv, FolderRow
  <1>4. hand' = NoHand
    BY <1>1 DEF CreateJob, WorkInv, HandInv, JobActive
  <1>5. QED
    BY <1>1, <1>2, <1>3, <1>4, IdleAgain DEF WorkInv

LEMMA CancelWorks ==
    ASSUME WorkInv, CancelJob
    PROVE  WorkInv' /\ hand' = hand
  <1>1. job' = [job EXCEPT !.status = "cancel_requested"] /\ job.status \in {"queued", "running"}
        /\ folders' = folders /\ items' = items /\ hand' = hand /\ importEvents' = importEvents
    <2>1. job.status \notin {"queued", "running"} => Cancelled(job) = job
      BY DEF Cancelled, WorkInv, ImportJob
    <2>2. job.status \in {"queued", "running"} => Cancelled(job) = [job EXCEPT !.status = "cancel_requested"]
      BY DEF Cancelled
    <2>3. QED
      BY <2>1, <2>2 DEF CancelJob
  <1>2. job' \in ImportJob /\ job'.discovered = job.discovered /\ job'.status = "cancel_requested"
        /\ job'.phase = job.phase
    BY <1>1 DEF WorkInv, ImportJob, Status, JobActive
  <1>3. HandInv'
    BY <1>1, <1>2 DEF WorkInv, HandInv, JobActive
  <1>4. CountsInv'
    BY <1>1, <1>2, CountsKept DEF WorkInv
  <1>5. QED
    BY <1>1, <1>2, <1>3, <1>4 DEF WorkInv

LEMMA FinishCancelWorks ==
    ASSUME WorkInv, FinishCancel
    PROVE  WorkInv' /\ hand' = NoHand
  <1>1. job' = Refreshed(job, items) /\ folders' = folders /\ items' = items /\ hand' = NoHand
        /\ importEvents' = importEvents /\ job.status = "cancel_requested"
    BY DEF FinishCancel
  <1>2. job' \in ImportJob /\ job'.discovered = job.discovered
        /\ (job'.status = "completed" => job'.counted = CountOf(items') /\ ~Left(items'))
    BY <1>1, RefreshedFields DEF WorkInv
  <1>3. QED
    BY <1>1, <1>2, IdleAgain DEF WorkInv

LEMMA JobFailsWorks ==
    ASSUME WorkInv, JobFails
    PROVE  WorkInv' /\ hand' = NoHand
  <1>1. job' = [job EXCEPT !.status = "failed"] /\ folders' = folders /\ items' = items /\ hand' = NoHand
        /\ importEvents' = importEvents
    BY DEF JobFails
  <1>2. job' \in ImportJob /\ job'.discovered = job.discovered /\ job'.status = "failed"
    BY <1>1 DEF WorkInv, ImportJob, Status, JobEnded
  <1>3. QED
    BY <1>1, <1>2, IdleAgain DEF WorkInv

LEMMA ClaimFolderWorks ==
    ASSUME WorkInv, ClaimFolder
    PROVE  WorkInv' /\ items' = items /\ hand'.step = "listing"
  <1>1. PICK f \in NextFolders : /\ folders' = [folders EXCEPT ![f].status = "scanning"]
                                 /\ hand' = [NoHand EXCEPT !.step = "listing", !.folder = f]
    BY DEF ClaimFolder
  <1>2. job' = [job EXCEPT !.status = "running"] /\ items' = items /\ importEvents' = importEvents
    BY DEF ClaimFolder
  <1>3. f \in Folder
    BY DEF NextFolders, FoldersThat
  <1>4. folders' \in [Folder -> FolderRow]
    BY <1>1, <1>3 DEF WorkInv, FolderRow
  <1>5. job' \in ImportJob /\ job'.discovered = job.discovered /\ job'.status = "running"
    BY <1>2 DEF WorkInv, ImportJob, Status, JobActive
  <1>6. hand' \in Hand /\ hand'.step = "listing"
    BY <1>1, <1>3, NoHandFields
  <1>7. HandInv'
    BY <1>5, <1>6 DEF HandInv, JobActive, Copying
  <1>8. CountsInv'
    BY <1>2, <1>5, CountsKept DEF WorkInv
  <1>9. QED
    BY <1>2, <1>4, <1>5, <1>6, <1>7, <1>8 DEF WorkInv

\* Saving a page counts exactly the files that were not on record.
LEMMA SavePageWorks ==
    ASSUME WorkInv, SavePage
    PROVE  /\ WorkInv' /\ hand' = NoHand
           /\ \A i \in File : items'[i] = items[i] \/ (items[i] = "none" /\ items'[i] \in {"pending", "unsupported"})
  <1> DEFINE at == hand.folder
             page == Listed(at)
             more == folders[at].page < Len(Pages[at])
             found == Inserted(page \cap File)
  <1>1. /\ folders' = [f \in Folder |->
               IF f = at THEN [status |-> IF more THEN "scanning" ELSE "completed",
                               page |-> folders[at].page + IF more THEN 1 ELSE 0]
               ELSE [folders[f] EXCEPT !.status = IF f \in page /\ @ = "none" THEN "pending" ELSE @]]
        /\ items' = [i \in File |-> IF i \in page \cap File /\ items[i] = "none" THEN FoundAs(i) ELSE items[i]]
        /\ job' = [job EXCEPT !.discovered = @ + Cardinality(found)]
        /\ hand' = NoHand /\ importEvents' = importEvents /\ hand.step = "listing"
    BY Zenon DEF SavePage
  <1>2. found = {i \in page \cap File : items[i] = "none"}
    BY DEF Inserted
  <1>3. at \in Folder
    BY HandFields DEF WorkInv
  <1> HIDE DEF at, page, more, found
  <1>4. folders' \in [Folder -> FolderRow]
    <2>1. folders[at].page \in Nat /\ folders[at].page + (IF more THEN 1 ELSE 0) \in Nat
      BY <1>3 DEF WorkInv, FolderRow
    <2>2. ASSUME NEW f \in Folder
          PROVE  folders'[f] \in FolderRow
      <3>1. CASE f = at
        BY <1>1, <2>1, <3>1 DEF FolderRow
      <3>2. CASE f # at
        <4>1. folders[f] \in FolderRow
          BY DEF WorkInv
        <4>2. folders'[f] = [folders[f] EXCEPT !.status = IF f \in page /\ @ = "none" THEN "pending" ELSE @]
          BY <1>1, <3>2
        <4>3. QED
          BY <4>1, <4>2 DEF FolderRow
      <3>3. QED
        BY <3>1, <3>2
    <2>3. QED
      BY <1>1, <2>2, Zenon
  <1>5. \A i \in File : FoundAs(i) \in {"pending", "unsupported"}
    BY DEF FoundAs
  <1>6. \A i \in File : items'[i] = items[i] \/ (items[i] = "none" /\ items'[i] \in {"pending", "unsupported"})
    BY <1>1, <1>5
  <1>7. items' \in [File -> ItemStatus]
    BY <1>1, <1>5 DEF WorkInv, ItemStatus, Outstanding
  <1>8. IsFiniteSet(found) /\ IsFiniteSet(Known) /\ Known' = Known \cup found /\ Known \cap found = {}
    <2>1. found \in SUBSET File /\ Known \in SUBSET File
      BY <1>2 DEF Known
    <2>2. IsFiniteSet(found) /\ IsFiniteSet(Known)
      BY <2>1, FS_Subset
    <2>3. \A i \in File : items'[i] # "none" <=> items[i] # "none" \/ i \in found
      BY <1>1, <1>2, <1>5
    <2>4. Known' = Known \cup found
      BY <2>1, <2>3 DEF Known
    <2>5. Known \cap found = {}
      BY <1>2 DEF Known
    <2>6. QED
      BY <2>2, <2>4, <2>5
  <1>9. Cardinality(Known') = Cardinality(Known) + Cardinality(found) /\ Cardinality(found) \in Nat
    <2>1. Cardinality(Known \cup found) = Cardinality(Known) + Cardinality(found) - Cardinality(Known \cap found)
      BY <1>8, FS_Union
    <2>2. Cardinality(Known \cap found) = 0
      BY <1>8, FS_EmptySet
    <2>3. Cardinality(Known) \in Nat /\ Cardinality(found) \in Nat
      BY <1>8, FS_CardinalityType
    <2>4. QED
      BY <1>8, <2>1, <2>2, <2>3
  <1>10. job' \in ImportJob /\ job'.discovered = job.discovered + Cardinality(found) /\ job'.status = job.status
    <2>1. job \in ImportJob /\ \A m \in Nat : job.discovered + m \in Nat
      BY DEF WorkInv, ImportJob
    <2>2. job' = [job EXCEPT !.discovered = job.discovered + Cardinality(found)]
      BY <1>1
    <2>3. QED
      BY <1>9, <2>1, <2>2 DEF ImportJob
  <1>11. job.status # "completed"
    BY <1>1 DEF WorkInv, HandInv, JobActive
  <1>12. CountsInv'
    BY <1>9, <1>10, <1>11 DEF WorkInv, CountsInv
  <1>13. hand' \in Hand /\ HandInv'
    BY <1>1, NoHandFields DEF HandInv, Copying
  <1>14. QED
    BY <1>1, <1>4, <1>6, <1>7, <1>10, <1>12, <1>13 DEF WorkInv

LEMMA FinalizeWorks ==
    ASSUME WorkInv, FinalizeScan
    PROVE  /\ WorkInv' /\ hand' = NoHand
           /\ \A i \in File : items'[i] = items[i] \/ (items[i] = "pending" /\ items'[i] = "conflict")
  <1> DEFINE j == [job EXCEPT !.phase = "copy"]
  <1>1. /\ items' = [i \in File |-> IF items[i] = "pending" /\ Conflicts(i) THEN "conflict" ELSE items[i]]
        /\ job' = Refreshed(j, items') /\ folders' = folders /\ hand' = NoHand /\ importEvents' = importEvents
        /\ job.status \in {"queued", "running"}
    BY DEF FinalizeScan, Scanning
  <1>2. j \in ImportJob /\ j.discovered = job.discovered /\ j.status = job.status
    BY JobFields DEF WorkInv
  <1> HIDE DEF j
  <1>3. job' \in ImportJob /\ job'.discovered = job.discovered
        /\ (job'.status = "completed" => job'.counted = CountOf(items') /\ ~Left(items'))
    BY <1>1, <1>2, RefreshedFields
  <1>4. \A i \in File : items'[i] = items[i] \/ (items[i] = "pending" /\ items'[i] = "conflict")
    BY <1>1
  <1>5. items' \in [File -> ItemStatus]
    BY <1>1 DEF WorkInv, ItemStatus
  <1>6. \A i \in File : items'[i] = "none" <=> items[i] = "none"
    BY <1>4
  <1>7. QED
    BY <1>1, <1>3, <1>4, <1>5, <1>6, IdleAgain DEF WorkInv

LEMMA ClaimItemsWorks ==
    ASSUME WorkInv, ClaimItems
    PROVE  /\ WorkInv' /\ hand'.step \in {"idle", "next"}
           /\ \A i \in File : items'[i] = items[i] \/ (items[i] \in Outstanding /\ items'[i] = "importing")
  <1> DEFINE batch == Oldest(ToClaim)
  <1>1. /\ items' = [i \in File |-> IF i \in batch THEN "importing" ELSE items[i]]
        /\ IF batch = {} THEN job' = Refreshed(job, items) /\ hand' = hand
           ELSE hand' = [NoHand EXCEPT !.step = "next", !.batch = batch] /\ job' = job
        /\ folders' = folders /\ hand = NoHand /\ importEvents' = importEvents
        /\ job.status \in {"queued", "running"} /\ job.phase = "copy"
    BY DEF ClaimItems
  <1>2. batch \in SUBSET File /\ \A i \in batch : items[i] \in Outstanding
    BY DEF Oldest, ToClaim, ItemsThat, Outstanding
  <1> HIDE DEF batch
  <1>3. \A i \in File : items'[i] = items[i] \/ (items[i] \in Outstanding /\ items'[i] = "importing")
    BY <1>1, <1>2
  <1>4. items' \in [File -> ItemStatus]
    BY <1>1 DEF WorkInv, ItemStatus, Outstanding
  <1>5. \A i \in File : items'[i] = "none" <=> items[i] = "none"
    BY <1>3 DEF Outstanding
  <1>6. CASE batch = {}
    <2>1. items' = items
      BY <1>1, <1>6 DEF WorkInv
    <2>2. job' = Refreshed(job, items') /\ job \in ImportJob /\ job.status # "completed"
      BY <1>1, <1>6, <2>1 DEF WorkInv
    <2>3. job' \in ImportJob /\ job'.discovered = job.discovered
          /\ (job'.status = "completed" => job'.counted = CountOf(items') /\ ~Left(items'))
      BY <2>2, RefreshedFields
    <2>4. QED
      BY <1>1, <1>3, <1>4, <1>5, <1>6, <2>3, IdleAgain, NoHandFields DEF WorkInv
  <1>7. CASE batch # {}
    <2>1. hand' \in Hand /\ hand'.step = "next" /\ hand'.batch = batch /\ job' = job
      BY <1>1, <1>2, <1>7 DEF NoHand, Hand
    <2>2. HandInv'
      BY <1>1, <1>2, <1>7, <2>1 DEF HandInv, JobActive
    <2>3. CountsInv'
      BY <1>1, <1>5, <2>1, CountsKept DEF WorkInv
    <2>4. QED
      BY <1>1, <1>3, <1>4, <2>1, <2>2, <2>3 DEF WorkInv
  <1>8. QED
    BY <1>6, <1>7

-----------------------------------------------------------------------------
(***************************************************************************)
(* The staging rows, the objects and the copies in Drive.                  *)
(***************************************************************************)

LEMMA CopyParts ==
    ASSUME NEW p \in File \X Nat
    PROVE  \E i \in File, n \in Nat : p = <<i, n>>
  <1>1. p = <<p[1], p[2]>> /\ p[1] \in File /\ p[2] \in Nat
    OBVIOUS
  <1>2. QED
    BY <1>1, Zenon

LEMMA CopyStored ==
    ASSUME StoreInv, NEW k \in Key, NEW j \in File, NEW m \in Nat, stored[k] = <<j, m>>
    PROVE  KeyOf[j] = k /\ m <= copies[j] /\ staging[j] = "committed" /\ <<j, m>> \notin released
  <1>1. KeyOf[j] = k /\ m <= copies[j] /\ staging[j] = "committed"
    BY DEF StoreInv, CopyInv
  <1>2. stored[k] \notin released
    BY DEF StoreInv, ImportedFileKept
  <1>3. QED
    BY <1>1, <1>2

\* The files kept, from the other invariants of the next state.
LEMMA KeptNext ==
    ASSUME stored' \in [Key -> {NoObject, Client} \cup (File \X Nat)], released' \subseteq File \X Nat,
           \A k \in Key, i \in File, n \in Nat : stored'[k] = <<i, n>> => <<i, n>> \notin released'
    PROVE  ImportedFileKept'
  <1>1. ASSUME NEW k \in Key
        PROVE  stored'[k] \notin released'
    <2>1. CASE stored'[k] \in {NoObject, Client}
      BY <2>1, ObjectsApart
    <2>2. CASE stored'[k] \in File \X Nat
      <3>1. PICK i \in File, n \in Nat : stored'[k] = <<i, n>>
        BY <2>2, CopyParts
      <3>2. QED
        BY <3>1
    <2>3. QED
      BY <2>1, <2>2
  <1>2. QED
    BY <1>1 DEF ImportedFileKept

\* Steps that move staging rows only.
LEMMA RowsMove ==
    ASSUME StoreInv, stored' = stored, released' = released, copies' = copies, staging' \in [File -> Staged],
           \A i \in File : staging[i] = "committed" => staging'[i] = "committed",
           \A i \in File : staging'[i] = "uploaded" => staging[i] = "uploaded"
    PROVE  StoreInv'
  <1>1. CopyInv'
    BY DEF StoreInv, CopyInv
  <1>2. QED
    BY <1>1 DEF StoreInv, ImportedFileKept

LEMMA PublishStores ==
    ASSUME StoreInv, NEW i \in File, NEW n \in Nat, Publish(i, <<i, n>>), stored[KeyOf[i]] = NoObject,
           released' = released, <<i, n>> \notin released,
           copies' \in [File -> Nat], \A j \in File : copies[j] <= copies'[j],
           \A j \in File : j # i => copies'[j] = copies[j], n <= copies'[i]
    PROVE  StoreInv'
  <1>1. staging' = [staging EXCEPT ![i] = "committed"] /\ stored' = [stored EXCEPT ![KeyOf[i]] = <<i, n>>]
    BY DEF Publish
  <1>2. KeyOf[i] \in Key
    OBVIOUS
  <1>3. staging' \in [File -> Staged] /\ staging'[i] = "committed"
        /\ \A j \in File : j # i => staging'[j] = staging[j]
    BY <1>1 DEF StoreInv, Staged
  <1>4. stored' \in [Key -> {NoObject, Client} \cup (File \X Nat)] /\ stored'[KeyOf[i]] = <<i, n>>
        /\ \A k \in Key : k # KeyOf[i] => stored'[k] = stored[k]
    BY <1>1, <1>2 DEF StoreInv
  <1>5. \A k \in Key, j \in File, m \in Nat :
            stored'[k] = <<j, m>> => KeyOf[j] = k /\ m <= copies'[j] /\ staging'[j] = "committed"
                                     /\ <<j, m>> \notin released'
    <2> TAKE k \in Key, j \in File, m \in Nat
    <2> HAVE stored'[k] = <<j, m>>
    <2>1. CASE k = KeyOf[i]
      <3>1. j = i /\ m = n
        BY <1>4, <2>1
      <3>2. QED
        BY <1>3, <2>1, <3>1
    <2>2. CASE k # KeyOf[i]
      <3>1. stored[k] = <<j, m>>
        BY <1>4, <2>2
      <3>2. KeyOf[j] = k /\ m <= copies[j] /\ staging[j] = "committed" /\ <<j, m>> \notin released
        BY <3>1, CopyStored
      <3>3. m <= copies'[j]
        BY <3>2 DEF StoreInv
      <3>4. QED
        BY <1>3, <3>2, <3>3
    <2>3. QED
      BY <2>1, <2>2
  <1>6. ASSUME NEW j \in File, NEW m \in Nat, <<j, m>> \in released'
        PROVE  m <= copies'[j]
    <2>1. m <= copies[j]
      BY <1>6 DEF StoreInv, CopyInv
    <2>2. QED
      BY <2>1 DEF StoreInv
  <1>7. ASSUME NEW j \in File, staging'[j] = "uploaded"
        PROVE  <<j, copies'[j]>> \notin released'
    <2>1. j # i /\ staging[j] = "uploaded" /\ copies'[j] = copies[j]
      BY <1>3, <1>7
    <2>2. QED
      BY <2>1 DEF StoreInv, CopyInv
  <1>8. CopyInv'
    <2>1. \A l \in Key, f \in File, o \in Nat :
              stored'[l] = <<f, o>> => KeyOf[f] = l /\ o <= copies'[f] /\ staging'[f] = "committed"
      BY <1>5
    <2>2. \A j \in File, m \in Nat : <<j, m>> \in released' => m <= copies'[j]
      BY <1>6
    <2>3. \A j \in File : staging'[j] = "uploaded" => <<j, copies'[j]>> \notin released'
      BY <1>7
    <2>4. QED
      BY <2>1, <2>2, <2>3 DEF CopyInv
  <1>9. ImportedFileKept'
    BY <1>4, <1>5, KeptNext DEF StoreInv
  <1>10. QED
    BY <1>3, <1>4, <1>8, <1>9 DEF StoreInv

LEMMA DiscardStores ==
    ASSUME StoreInv, NEW i \in File, NEW n \in Nat, Discard(i, <<i, n>>), staging[i] # "committed",
           stored' = stored,
           copies' \in [File -> Nat], \A j \in File : copies[j] <= copies'[j],
           \A j \in File : j # i => copies'[j] = copies[j], n <= copies'[i]
    PROVE  StoreInv'
  <1>1. staging' = [staging EXCEPT ![i] = "failed"] /\ released' = released \cup {<<i, n>>}
    BY DEF Discard
  <1>2. staging' \in [File -> Staged] /\ staging'[i] = "failed"
        /\ \A j \in File : j # i => staging'[j] = staging[j]
    BY <1>1 DEF StoreInv, Staged
  <1>3. released' \subseteq File \X Nat
    BY <1>1 DEF StoreInv
  <1>4. \A j \in File, m \in Nat : <<j, m>> \in released' => <<j, m>> \in released \/ (j = i /\ m = n)
    BY <1>1
  <1>5. \A k \in Key, j \in File, m \in Nat :
            stored'[k] = <<j, m>> => KeyOf[j] = k /\ m <= copies'[j] /\ staging'[j] = "committed"
                                     /\ <<j, m>> \notin released'
    <2> TAKE k \in Key, j \in File, m \in Nat
    <2> HAVE stored'[k] = <<j, m>>
    <2>1. KeyOf[j] = k /\ m <= copies[j] /\ staging[j] = "committed" /\ <<j, m>> \notin released
      BY CopyStored
    <2>2. j # i
      BY <2>1
    <2>3. m <= copies'[j]
      BY <2>1 DEF StoreInv
    <2>4. QED
      BY <1>2, <1>4, <2>1, <2>2, <2>3
  <1>6. ASSUME NEW j \in File, NEW m \in Nat, <<j, m>> \in released'
        PROVE  m <= copies'[j]
    <2>1. CASE <<j, m>> \in released
      <3>1. m <= copies[j]
        BY <2>1 DEF StoreInv, CopyInv
      <3>2. QED
        BY <3>1 DEF StoreInv
    <2>2. CASE j = i /\ m = n
      BY <2>2
    <2>3. QED
      BY <1>4, <1>6, <2>1, <2>2
  <1>7. ASSUME NEW j \in File, staging'[j] = "uploaded"
        PROVE  <<j, copies'[j]>> \notin released'
    <2>1. j # i /\ staging[j] = "uploaded" /\ copies'[j] = copies[j] /\ copies[j] \in Nat
      BY <1>2, <1>7 DEF StoreInv
    <2>2. <<j, copies[j]>> \notin released
      BY <2>1 DEF StoreInv, CopyInv
    <2>3. QED
      BY <1>4, <2>1, <2>2
  <1>8. CopyInv'
    <2>1. \A l \in Key, f \in File, o \in Nat :
              stored'[l] = <<f, o>> => KeyOf[f] = l /\ o <= copies'[f] /\ staging'[f] = "committed"
      BY <1>5
    <2>2. \A j \in File, m \in Nat : <<j, m>> \in released' => m <= copies'[j]
      BY <1>6
    <2>3. \A j \in File : staging'[j] = "uploaded" => <<j, copies'[j]>> \notin released'
      BY <1>7
    <2>4. QED
      BY <2>1, <2>2, <2>3 DEF CopyInv
  <1>9. ImportedFileKept'
    BY <1>3, <1>5, KeptNext DEF StoreInv
  <1>10. QED
    BY <1>2, <1>3, <1>8, <1>9 DEF StoreInv

\* Recovery gives up copies of rows that were never committed.
LEMMA RecoveryStores ==
    ASSUME StoreInv, NEW rows \in [File -> Staged], Recovered(rows, copies'), stored' = stored,
           copies' \in [File -> Nat], \A j \in File : copies[j] <= copies'[j],
           \A j \in File : staging[j] = "committed" <=> rows[j] = "committed",
           \A j \in File : rows[j] = "uploaded" => <<j, copies'[j]>> \notin released
    PROVE  StoreInv' /\ \A j \in File : staging'[j] = "committed" <=> staging[j] = "committed"
  <1>1. PICK stale \in SUBSET {i \in File : rows[i] \in Recoverable} :
            /\ staging' = [i \in File |-> IF i \in stale THEN "failed" ELSE rows[i]]
            /\ released' = released \cup {<<i, copies'[i]>> : i \in {j \in stale : rows[j] # "uploading"}}
    BY DEF Recovered
  <1>2. \A i \in stale : i \in File /\ rows[i] \in {"uploading", "uploaded"}
    BY DEF Recoverable
  <1>3. staging' \in [File -> Staged]
    BY <1>1 DEF Staged
  <1>4. \A j \in File : staging'[j] = "committed" <=> staging[j] = "committed"
    BY <1>1, <1>2
  <1>5. released' \subseteq File \X Nat
    BY <1>1, <1>2 DEF StoreInv
  <1>6. \A j \in File, m \in Nat :
            <<j, m>> \in released' => <<j, m>> \in released \/ (j \in stale /\ m = copies'[j] /\ rows[j] = "uploaded")
    BY <1>1, <1>2
  <1>7. \A k \in Key, j \in File, m \in Nat :
            stored'[k] = <<j, m>> => KeyOf[j] = k /\ m <= copies'[j] /\ staging'[j] = "committed"
                                     /\ <<j, m>> \notin released'
    <2> TAKE k \in Key, j \in File, m \in Nat
    <2> HAVE stored'[k] = <<j, m>>
    <2>1. KeyOf[j] = k /\ m <= copies[j] /\ staging[j] = "committed" /\ <<j, m>> \notin released
      BY CopyStored
    <2>2. rows[j] = "committed"
      BY <2>1
    <2>3. m <= copies'[j]
      BY <2>1 DEF StoreInv
    <2>4. QED
      BY <1>4, <1>6, <2>1, <2>2, <2>3
  <1>8. ASSUME NEW j \in File, NEW m \in Nat, <<j, m>> \in released'
        PROVE  m <= copies'[j]
    <2>1. CASE <<j, m>> \in released
      <3>1. m <= copies[j]
        BY <2>1 DEF StoreInv, CopyInv
      <3>2. QED
        BY <3>1 DEF StoreInv
    <2>2. CASE m = copies'[j]
      BY <2>2
    <2>3. QED
      BY <1>6, <1>8, <2>1, <2>2
  <1>9. ASSUME NEW j \in File, staging'[j] = "uploaded"
        PROVE  <<j, copies'[j]>> \notin released'
    <2>1. j \notin stale /\ rows[j] = "uploaded" /\ copies'[j] \in Nat
      BY <1>1, <1>9
    <2>2. <<j, copies'[j]>> \notin released
      BY <2>1, Zenon
    <2>3. QED
      BY <1>6, <2>1, <2>2
  <1>10. CopyInv'
    <2>1. \A l \in Key, f \in File, o \in Nat :
              stored'[l] = <<f, o>> => KeyOf[f] = l /\ o <= copies'[f] /\ staging'[f] = "committed"
      <3> TAKE l \in Key, f \in File, o \in Nat
      <3> HAVE stored'[l] = <<f, o>>
      <3>1. QED
        BY <1>7
    <2>2. \A j \in File, m \in Nat : <<j, m>> \in released' => m <= copies'[j]
      BY <1>8
    <2>3. \A j \in File : staging'[j] = "uploaded" => <<j, copies'[j]>> \notin released'
      BY <1>9
    <2>4. QED
      BY <2>1, <2>2, <2>3 DEF CopyInv
  <1>11. ImportedFileKept'
    BY <1>5, <1>7, KeptNext DEF StoreInv
  <1>12. QED
    BY <1>3, <1>4, <1>5, <1>10, <1>11 DEF StoreInv

\* A client that replaces or removes an object releases its copy.
LEMMA ClientStores ==
    ASSUME StoreInv, NEW k \in Key, NEW new \in {NoObject, Client}, stored' = [stored EXCEPT ![k] = new],
           ReleaseOf(k), staging' = staging, copies' = copies
    PROVE  StoreInv'
  <1>1. released' = released \cup ({stored[k]} \cap (File \X Nat))
    BY DEF ReleaseOf
  <1>2. released' \subseteq File \X Nat
    BY <1>1 DEF StoreInv
  <1>3. stored' \in [Key -> {NoObject, Client} \cup (File \X Nat)] /\ stored'[k] = new
        /\ \A l \in Key : l # k => stored'[l] = stored[l]
    BY DEF StoreInv
  <1>4. \A j \in File, m \in Nat : <<j, m>> \in released' => <<j, m>> \in released \/ stored[k] = <<j, m>>
    BY <1>1
  <1>5. \A l \in Key, j \in File, m \in Nat :
            stored'[l] = <<j, m>> => KeyOf[j] = l /\ m <= copies'[j] /\ staging'[j] = "committed"
                                     /\ <<j, m>> \notin released'
    <2> TAKE l \in Key, j \in File, m \in Nat
    <2> HAVE stored'[l] = <<j, m>>
    <2>1. l # k
      <3>1. <<j, m>> # NoObject /\ <<j, m>> # Client
        BY ObjectsApart, Zenon
      <3>2. QED
        BY <1>3, <3>1
    <2>2. stored[l] = <<j, m>>
      BY <1>3, <2>1
    <2>3. KeyOf[j] = l /\ m <= copies[j] /\ staging[j] = "committed" /\ <<j, m>> \notin released
      BY <2>2 DEF StoreInv, CopyInv, ImportedFileKept
    <2>4. stored[k] # <<j, m>>
      BY <2>1, <2>3 DEF StoreInv, CopyInv
    <2>5. QED
      BY <1>4, <2>3, <2>4
  <1>6. ASSUME NEW j \in File, NEW m \in Nat, <<j, m>> \in released'
        PROVE  m <= copies'[j]
    BY <1>4, <1>6 DEF StoreInv, CopyInv
  <1>7. ASSUME NEW j \in File, staging'[j] = "uploaded"
        PROVE  <<j, copies'[j]>> \notin released'
    <2>1. staging[j] = "uploaded" /\ copies[j] \in Nat
      BY <1>7 DEF StoreInv
    <2>2. <<j, copies[j]>> \notin released /\ stored[k] # <<j, copies[j]>>
      BY <2>1 DEF StoreInv, CopyInv
    <2>3. QED
      BY <1>4, <2>1, <2>2
  <1>8. CopyInv'
    <2>1. \A l \in Key, f \in File, o \in Nat :
              stored'[l] = <<f, o>> => KeyOf[f] = l /\ o <= copies'[f] /\ staging'[f] = "committed"
      BY <1>5
    <2>2. \A j \in File, m \in Nat : <<j, m>> \in released' => m <= copies'[j]
      BY <1>6
    <2>3. \A j \in File : staging'[j] = "uploaded" => <<j, copies'[j]>> \notin released'
      BY <1>7
    <2>4. QED
      BY <2>1, <2>2, <2>3 DEF CopyInv
  <1>9. ImportedFileKept'
    BY <1>2, <1>3, <1>5, KeptNext
  <1>10. QED
    BY <1>2, <1>3, <1>8, <1>9 DEF StoreInv

-----------------------------------------------------------------------------
(***************************************************************************)
(* Items, staging rows and commits agree.                                  *)
(***************************************************************************)

LEMMA LinkIdle ==
    ASSUME LinkInv, commits' = commits, hand'.step \in {"idle", "listing", "next"},
           \A i \in File : staging'[i] = "committed" <=> staging[i] = "committed",
           \A i \in File : items'[i] = "imported" => items[i] = "imported",
           \A i \in File : staging[i] = "committed" /\ items[i] \in {"imported", "importing"}
                              => items'[i] \in {"imported", "importing"}
    PROVE  LinkInv'
  BY DEF LinkInv

LEMMA LinkSame ==
    ASSUME LinkInv, commits' = commits, staging' = staging, items' = items, hand' = hand
    PROVE  LinkInv'
  BY DEF LinkInv, Item

\* The item in hand is marked, as imported when its row is committed.
LEMMA LinkMarked ==
    ASSUME WorkInv, LinkInv, NEW i \in File, NEW s \in {"imported", "conflict", "failed"},
           items' = [items EXCEPT ![i] = s], hand'.step \in {"idle", "next"},
           \A j \in File : j # i => staging'[j] = staging[j],
           s = "imported" <=> staging'[i] = "committed",
           commits' = [j \in File |-> IF staging'[j] = "committed" THEN 1 ELSE 0]
    PROVE  LinkInv'
  <1>1. items'[i] = s /\ \A j \in File : j # i => items'[j] = items[j]
    BY DEF WorkInv
  <1>2. ASSUME NEW j \in File
        PROVE  /\ items'[j] = "imported" => staging'[j] = "committed"
               /\ staging'[j] = "committed" => items'[j] \in {"imported", "importing"}
    <2>1. CASE j = i
      BY <1>1, <2>1
    <2>2. CASE j # i
      BY <1>1, <2>2 DEF LinkInv
    <2>3. QED
      BY <2>1, <2>2
  <1>3. QED
    BY <1>2 DEF LinkInv

\* The counts of the commits follow the staging rows.
LEMMA CommitsFollow ==
    ASSUME StoreInv, LinkInv, NEW i \in File, staging[i] # "committed", commits' = [commits EXCEPT ![i] = @ + 1],
           staging' = [staging EXCEPT ![i] = "committed"]
    PROVE  commits' = [j \in File |-> IF staging'[j] = "committed" THEN 1 ELSE 0]
  <1>1. commits = [j \in File |-> IF staging[j] = "committed" THEN 1 ELSE 0]
    BY DEF LinkInv
  <1>2. commits[i] = 0
    BY <1>1
  <1>3. ASSUME NEW j \in File
        PROVE  commits'[j] = IF staging'[j] = "committed" THEN 1 ELSE 0
    BY <1>1, <1>2 DEF StoreInv
  <1>4. QED
    BY <1>1, <1>3

LEMMA CommitsStay ==
    ASSUME LinkInv, commits' = commits,
           \A j \in File : staging'[j] = "committed" <=> staging[j] = "committed"
    PROVE  commits' = [j \in File |-> IF staging'[j] = "committed" THEN 1 ELSE 0]
  BY DEF LinkInv

-----------------------------------------------------------------------------
(***************************************************************************)
(* Every step keeps the invariant.                                         *)
(***************************************************************************)

LEMMA StoreSame ==
    ASSUME StoreInv, staging' = staging, stored' = stored, released' = released, copies' = copies
    PROVE  StoreInv'
  BY DEF StoreInv, CopyInv, ImportedFileKept

LEMMA JobSteps ==
    ASSUME ImportInv, CreateJob \/ FinishCancel \/ JobFails
    PROVE  ImportInv'
  <1>1. WorkInv' /\ hand' = NoHand
    BY CreateWorks, FinishCancelWorks, JobFailsWorks DEF ImportInv
  <1>2. items' = items /\ staging' = staging /\ stored' = stored /\ released' = released /\ copies' = copies
        /\ commits' = commits
    BY DEF CreateJob, FinishCancel, JobFails
  <1>3. LinkInv'
    BY <1>1, <1>2, LinkIdle, NoHandFields DEF ImportInv
  <1>4. QED
    BY <1>1, <1>2, <1>3, StoreSame DEF ImportInv

LEMMA CancelStep ==
    ASSUME ImportInv, CancelJob
    PROVE  ImportInv'
  <1>1. WorkInv'
    BY CancelWorks DEF ImportInv
  <1>2. items' = items /\ staging' = staging /\ stored' = stored /\ released' = released /\ copies' = copies
        /\ commits' = commits /\ hand' = hand
    BY DEF CancelJob
  <1>3. QED
    BY <1>1, <1>2, LinkSame, StoreSame DEF ImportInv

LEMMA ScanSteps ==
    ASSUME ImportInv, ClaimFolder \/ SavePage \/ FinalizeScan \/ ClaimItems
    PROVE  ImportInv'
  <1>1. staging' = staging /\ stored' = stored /\ released' = released /\ copies' = copies /\ commits' = commits
    BY DEF ClaimFolder, SavePage, FinalizeScan, ClaimItems
  <1>2. WorkInv' /\ hand'.step \in {"idle", "listing", "next"}
    BY ClaimFolderWorks, SavePageWorks, FinalizeWorks, ClaimItemsWorks, NoHandFields DEF ImportInv
  <1>3. \A i \in File : \/ items'[i] = items[i]
                        \/ items[i] = "none" /\ items'[i] \in {"pending", "unsupported"}
                        \/ items[i] = "pending" /\ items'[i] = "conflict"
                        \/ items[i] \in Outstanding /\ items'[i] = "importing"
    <2>1. CASE ClaimFolder
      BY <2>1, ClaimFolderWorks DEF ImportInv
    <2>2. CASE SavePage
      BY <2>2, SavePageWorks DEF ImportInv
    <2>3. CASE FinalizeScan
      BY <2>3, FinalizeWorks DEF ImportInv
    <2>4. CASE ClaimItems
      BY <2>4, ClaimItemsWorks DEF ImportInv
    <2>5. QED
      BY <2>1, <2>2, <2>3, <2>4
  <1>4. \A i \in File : /\ items'[i] = "imported" => items[i] = "imported"
                        /\ items[i] \in {"imported", "importing"} => items'[i] \in {"imported", "importing"}
    BY <1>3
  <1>5. LinkInv'
    BY <1>1, <1>2, <1>4, LinkIdle DEF ImportInv
  <1>6. QED
    BY <1>1, <1>2, <1>5, StoreSame DEF ImportInv

LEMMA TakeItemStep ==
    ASSUME ImportInv, TakeItem
    PROVE  ImportInv'
  <1> DEFINE i == Item
  <1>1. hand.step = "next" /\ hand.step \in Copying /\ folders' = folders /\ copies' = copies /\ importEvents' = importEvents
    BY DEF TakeItem, Copying
  <1>2. i \in File /\ items[i] = "importing"
    BY <1>1, InHand DEF ImportInv
  <1>3. copies' \in [File -> Nat] /\ copies[i] \in Nat /\ \A j \in File : copies[j] <= copies'[j] /\ copies'[j] = copies[j]
    BY <1>1, <1>2 DEF ImportInv, StoreInv
  <1>4. CASE staging[i] = "committed" /\ Mark(i, "imported") /\ staging' = staging /\ stored' = stored
             /\ released' = released /\ commits' = commits
    <2>1. WorkInv' /\ items' = [items EXCEPT ![i] = "imported"] /\ hand'.step \in {"idle", "next"}
      BY <1>1, <1>4, MarkWorks DEF ImportInv
    <2>2. commits' = [j \in File |-> IF staging'[j] = "committed" THEN 1 ELSE 0]
      BY <1>4, CommitsStay DEF ImportInv
    <2>3. LinkInv'
      BY <1>2, <1>4, <2>1, <2>2, LinkMarked DEF ImportInv
    <2>4. QED
      BY <1>1, <1>4, <2>1, <2>3, StoreSame DEF ImportInv
  <1>5. CASE staging[i] = "uploaded" /\ ~Taken(i) /\ Publish(i, Copy(i)) /\ Mark(i, "imported") /\ released' = released
    <2>1. WorkInv' /\ items' = [items EXCEPT ![i] = "imported"] /\ hand'.step \in {"idle", "next"}
      BY <1>1, <1>5, MarkWorks DEF ImportInv
    <2>2. staging' = [staging EXCEPT ![i] = "committed"] /\ commits' = [commits EXCEPT ![i] = @ + 1]
      BY <1>5 DEF Publish
    <2>3. staging[i] # "committed" /\ staging'[i] = "committed" /\ \A j \in File : j # i => staging'[j] = staging[j]
      BY <1>2, <1>5, <2>2 DEF ImportInv, StoreInv
    <2>4. commits' = [j \in File |-> IF staging'[j] = "committed" THEN 1 ELSE 0]
      BY <1>2, <2>2, <2>3, CommitsFollow DEF ImportInv
    <2>5. LinkInv'
      BY <1>2, <2>1, <2>3, <2>4, LinkMarked DEF ImportInv
    <2>6. <<i, copies[i]>> \notin released /\ stored[KeyOf[i]] = NoObject
      BY <1>2, <1>5 DEF ImportInv, StoreInv, CopyInv, Taken
    <2>7. StoreInv'
      BY <1>2, <1>3, <1>5, <2>6, PublishStores DEF ImportInv, Copy
    <2>8. QED
      BY <2>1, <2>5, <2>7 DEF ImportInv
  <1>6. CASE staging[i] = "uploaded" /\ Discard(i, Copy(i)) /\ Mark(i, "conflict") /\ stored' = stored
             /\ commits' = commits
    <2>1. WorkInv' /\ items' = [items EXCEPT ![i] = "conflict"] /\ hand'.step \in {"idle", "next"}
      BY <1>1, <1>6, MarkWorks DEF ImportInv
    <2>2. staging[i] # "committed" /\ staging'[i] = "failed" /\ \A j \in File : j # i => staging'[j] = staging[j]
      BY <1>2, <1>6 DEF ImportInv, StoreInv, Discard
    <2>3. commits' = [j \in File |-> IF staging'[j] = "committed" THEN 1 ELSE 0]
      BY <1>6, <2>2, CommitsStay DEF ImportInv
    <2>4. LinkInv'
      BY <1>2, <2>1, <2>2, <2>3, LinkMarked DEF ImportInv
    <2>5. StoreInv'
      BY <1>2, <1>3, <1>6, <2>2, DiscardStores DEF ImportInv, Copy
    <2>6. QED
      BY <2>1, <2>4, <2>5 DEF ImportInv
  <1>7. CASE staging[i] \notin {"committed", "uploaded"} /\ staging' = [staging EXCEPT ![i] = "none"]
             /\ hand' = [hand EXCEPT !.step = "asking"] /\ items' = items /\ job' = job /\ stored' = stored
             /\ released' = released /\ commits' = commits
    <2>1. WorkInv' /\ hand'.step = "asking" /\ Item' = i
      BY <1>1, <1>7, AnotherStep DEF ImportInv, Copying
    <2>2. staging' \in [File -> Staged] /\ staging'[i] = "none" /\ \A j \in File : j # i => staging'[j] = staging[j]
      BY <1>2, <1>7 DEF ImportInv, StoreInv, Staged
    <2>3. StoreInv'
      BY <1>1, <1>7, <2>2, RowsMove DEF ImportInv
    <2>4. \A j \in File : staging'[j] = "committed" <=> staging[j] = "committed"
      BY <1>7, <2>2
    <2>5. commits' = [j \in File |-> IF staging'[j] = "committed" THEN 1 ELSE 0]
      BY <1>7, <2>4, CommitsStay DEF ImportInv
    <2>6. LinkInv'
      BY <1>7, <2>1, <2>2, <2>4, <2>5 DEF ImportInv, LinkInv
    <2>7. QED
      BY <2>1, <2>3, <2>6 DEF ImportInv
  <1>8. QED
    BY <1>4, <1>5, <1>6, <1>7 DEF TakeItem, Already

\* The item in hand is marked and no copy of it is stored: its row is not committed.
LEMMA MarkUnstored ==
    ASSUME ImportInv, hand.step \in Copying, NEW s \in {"conflict", "failed"}, Mark(Item, s),
           folders' = folders, importEvents' = importEvents, commits' = commits, StoreInv',
           staging[Item] # "committed", staging'[Item] # "committed",
           \A j \in File : j # Item => staging'[j] = staging[j]
    PROVE  ImportInv'
  <1>1. Item \in File
    BY InHand DEF ImportInv
  <1>2. WorkInv' /\ items' = [items EXCEPT ![Item] = s] /\ hand'.step \in {"idle", "next"}
    BY MarkWorks DEF ImportInv
  <1>3. commits' = [j \in File |-> IF staging'[j] = "committed" THEN 1 ELSE 0]
    <2>1. \A j \in File : staging'[j] = "committed" <=> staging[j] = "committed"
      OBVIOUS
    <2>2. QED
      BY <2>1, CommitsStay DEF ImportInv
  <1>4. LinkInv'
    BY <1>1, <1>2, <1>3, LinkMarked DEF ImportInv
  <1>5. QED
    BY <1>2, <1>4 DEF ImportInv

LEMMA SourceAnswersStep ==
    ASSUME ImportInv, SourceAnswers
    PROVE  ImportInv'
  <1>1. /\ hand.step = "asking" /\ hand.step \in Copying /\ folders' = folders /\ staging' = staging
        /\ stored' = stored /\ released' = released /\ copies' = copies /\ importEvents' = importEvents
        /\ commits' = commits
    BY DEF SourceAnswers, Copying
  <1>2. staging[Item] = "none" /\ StoreInv'
    BY <1>1, StoreSame DEF ImportInv, LinkInv
  <1>3. CASE hand' = [hand EXCEPT !.step = "waiting"] /\ items' = items /\ job' = job
    <2>1. WorkInv' /\ hand'.step = "waiting" /\ Item' = Item
      BY <1>1, <1>3, AnotherStep DEF ImportInv, Copying
    <2>2. LinkInv'
      BY <1>1, <1>2, <1>3, <2>1 DEF ImportInv, LinkInv
    <2>3. QED
      BY <1>2, <2>1, <2>2 DEF ImportInv
  <1>4. CASE Mark(Item, "failed")
    BY <1>1, <1>2, <1>4, MarkUnstored
  <1>5. QED
    BY <1>3, <1>4 DEF SourceAnswers

LEMMA StageItemStep ==
    ASSUME ImportInv, StageItem
    PROVE  ImportInv'
  <1> DEFINE i == Item
  <1>1. /\ hand.step = "waiting" /\ hand.step \in Copying /\ folders' = folders
        /\ stored' = stored /\ released' = released /\ copies' = copies /\ importEvents' = importEvents
        /\ commits' = commits
    BY DEF StageItem, Copying
  <1>2. staging[i] = "none" /\ i \in File
    BY <1>1, InHand DEF ImportInv, LinkInv
  <1>3. CASE Mark(i, "conflict") /\ staging' = staging
    <2>1. StoreInv'
      BY <1>1, <1>3, StoreSame DEF ImportInv
    <2>2. QED
      BY <1>1, <1>2, <1>3, <2>1, MarkUnstored
  <1>4. CASE staging' = [staging EXCEPT ![i] = "uploading"] /\ hand' = [hand EXCEPT !.step = "uploading"]
             /\ items' = items /\ job' = job
    <2>1. WorkInv' /\ hand'.step = "uploading" /\ Item' = i
      BY <1>1, <1>4, AnotherStep DEF ImportInv, Copying
    <2>2. staging' \in [File -> Staged] /\ staging'[i] = "uploading" /\ \A j \in File : j # i => staging'[j] = staging[j]
      BY <1>2, <1>4 DEF ImportInv, StoreInv, Staged
    <2>3. StoreInv'
      BY <1>1, <1>2, <2>2, RowsMove DEF ImportInv
    <2>4. \A j \in File : staging'[j] = "committed" <=> staging[j] = "committed"
      BY <1>2, <2>2
    <2>5. commits' = [j \in File |-> IF staging'[j] = "committed" THEN 1 ELSE 0]
      BY <1>1, <2>4, CommitsStay DEF ImportInv
    <2>6. LinkInv'
      BY <1>4, <2>1, <2>2, <2>4, <2>5 DEF ImportInv, LinkInv
    <2>7. QED
      BY <2>1, <2>3, <2>6 DEF ImportInv
  <1>5. QED
    BY <1>3, <1>4 DEF StageItem

LEMMA UploadedStep ==
    ASSUME ImportInv, Uploaded
    PROVE  ImportInv'
  <1> DEFINE i == Item
             n == copies[i] + 1
  <1>1. /\ hand.step = "uploading" /\ hand.step \in Copying /\ folders' = folders /\ importEvents' = importEvents
        /\ copies' = [copies EXCEPT ![i] = @ + 1]
    BY DEF Uploaded, Copying
  <1>2. staging[i] = "uploading" /\ i \in File
    BY <1>1, InHand DEF ImportInv, LinkInv
  <1>3. n \in Nat /\ copies' \in [File -> Nat] /\ n <= copies'[i]
        /\ (\A j \in File : copies[j] <= copies'[j]) /\ (\A j \in File : j # i => copies'[j] = copies[j])
    BY <1>1, <1>2 DEF ImportInv, StoreInv
  <1>4. <<i, n>> \notin released
    <2>1. <<i, n>> \in released => n <= copies[i]
      BY <1>2, <1>3 DEF ImportInv, StoreInv, CopyInv
    <2>2. copies[i] \in Nat
      BY <1>2 DEF ImportInv, StoreInv
    <2>3. QED
      BY <2>1, <2>2
  <1>5. ASSUME NEW s \in {"conflict", "failed"}, Discard(i, <<i, n>>), Mark(i, s), stored' = stored, commits' = commits
        PROVE  ImportInv'
    <2>1. StoreInv'
      BY <1>2, <1>3, <1>5, DiscardStores DEF ImportInv
    <2>2. staging'[i] = "failed" /\ \A j \in File : j # i => staging'[j] = staging[j]
      BY <1>2, <1>5 DEF ImportInv, StoreInv, Discard
    <2>3. QED
      BY <1>1, <1>2, <1>5, <2>1, <2>2, MarkUnstored
  <1>6. CASE ~Taken(i) /\ Publish(i, <<i, n>>) /\ Mark(i, "imported") /\ released' = released
    <2>1. WorkInv' /\ items' = [items EXCEPT ![i] = "imported"] /\ hand'.step \in {"idle", "next"}
      BY <1>1, <1>6, MarkWorks DEF ImportInv
    <2>2. staging' = [staging EXCEPT ![i] = "committed"] /\ commits' = [commits EXCEPT ![i] = @ + 1]
      BY <1>6 DEF Publish
    <2>3. staging'[i] = "committed" /\ \A j \in File : j # i => staging'[j] = staging[j]
      BY <1>2, <2>2 DEF ImportInv, StoreInv
    <2>4. commits' = [j \in File |-> IF staging'[j] = "committed" THEN 1 ELSE 0]
      BY <1>2, <2>2, CommitsFollow DEF ImportInv
    <2>5. LinkInv'
      BY <1>2, <2>1, <2>3, <2>4, LinkMarked DEF ImportInv
    <2>6. stored[KeyOf[i]] = NoObject
      BY <1>6 DEF Taken
    <2>7. StoreInv'
      BY <1>2, <1>3, <1>4, <1>6, <2>6, PublishStores DEF ImportInv
    <2>8. QED
      BY <2>1, <2>5, <2>7 DEF ImportInv
  <1>7. QED
    BY <1>5, <1>6 DEF Uploaded

LEMMA UploadFailsStep ==
    ASSUME ImportInv, UploadFails
    PROVE  ImportInv'
  <1> DEFINE i == Item
  <1>1. /\ hand.step = "uploading" /\ hand.step \in Copying /\ folders' = folders /\ importEvents' = importEvents
        /\ staging' = [staging EXCEPT ![i] = "failed"] /\ Mark(i, "failed")
        /\ stored' = stored /\ released' = released /\ copies' = copies /\ commits' = commits
    BY DEF UploadFails, Copying
  <1>2. staging[i] = "uploading" /\ i \in File
    BY <1>1, InHand DEF ImportInv, LinkInv
  <1>3. staging' \in [File -> Staged] /\ staging'[i] = "failed" /\ \A j \in File : j # i => staging'[j] = staging[j]
    BY <1>1, <1>2 DEF ImportInv, StoreInv, Staged
  <1>4. StoreInv'
    BY <1>1, <1>2, <1>3, RowsMove DEF ImportInv
  <1>5. QED
    BY <1>1, <1>2, <1>3, <1>4, MarkUnstored

LEMMA EventCounted ==
    ASSUME WorkInv, CountImportEvent
    PROVE  importEvents' \in Nat
  BY DEF WorkInv, CountImportEvent

LEMMA ClientStep ==
    ASSUME ImportInv, NEW k \in Key, ClientWrites(k) \/ ClientDeletes(k)
    PROVE  ImportInv'
  <1>1. /\ CountImportEvent /\ ReleaseOf(k) /\ job' = job /\ folders' = folders /\ items' = items
        /\ staging' = staging /\ copies' = copies /\ hand' = hand /\ commits' = commits
    BY DEF ClientWrites, ClientDeletes
  <1>2. stored' = [stored EXCEPT ![k] = Client] \/ stored' = [stored EXCEPT ![k] = NoObject]
    BY DEF ClientWrites, ClientDeletes
  <1>3. StoreInv'
    BY <1>1, <1>2, ClientStores DEF ImportInv
  <1>4. LinkInv'
    BY <1>1, LinkSame DEF ImportInv
  <1>5. CountsInv' /\ HandInv'
    BY <1>1, CountsKept DEF ImportInv, WorkInv, CountsInv, HandInv
  <1>6. WorkInv'
    BY <1>1, <1>5, EventCounted DEF ImportInv, WorkInv
  <1>7. QED
    BY <1>3, <1>4, <1>6 DEF ImportInv

\* Whoever has something in hand works for a job that is not completed.
LEMMA BusyNotCompleted ==
    ASSUME WorkInv, hand # NoHand
    PROVE  job.status # "completed" /\ hand.step # "idle"
  BY DEF WorkInv, HandInv, JobActive

LEMMA CrashStep ==
    ASSUME ImportInv, Crash
    PROVE  ImportInv'
  <1>1. /\ CountImportEvent /\ hand # NoHand /\ hand' = NoHand /\ Recovered(staging, copies)
        /\ job' = job /\ folders' = folders /\ items' = items /\ stored' = stored /\ copies' = copies
        /\ commits' = commits
    BY DEF Crash
  <1>2. WorkInv'
    BY <1>1, BusyNotCompleted, EventCounted, IdleAgain DEF ImportInv, WorkInv
  <1>3. StoreInv' /\ \A j \in File : staging'[j] = "committed" <=> staging[j] = "committed"
    <2>1. Recovered(staging, copies')
      BY <1>1
    <2>2. staging \in [File -> Staged] /\ copies' \in [File -> Nat] /\ \A j \in File : copies[j] <= copies'[j]
      BY <1>1 DEF ImportInv, StoreInv
    <2>3. \A j \in File : staging[j] = "uploaded" => <<j, copies'[j]>> \notin released
      BY <1>1 DEF ImportInv, StoreInv, CopyInv
    <2>4. QED
      BY <1>1, <2>1, <2>2, <2>3, RecoveryStores DEF ImportInv
  <1>4. LinkInv'
    BY <1>1, <1>3, LinkIdle, NoHandFields DEF ImportInv
  <1>5. QED
    BY <1>2, <1>3, <1>4 DEF ImportInv

LEMMA StopStep ==
    ASSUME ImportInv, Stop
    PROVE  ImportInv'
  <1> DEFINE i == Item
             counting == hand.step \in {"asking", "waiting", "uploading"}
             cut == [staging EXCEPT ![i] = "failed"]
  <1>1. /\ CountImportEvent /\ hand # NoHand /\ hand' = NoHand
        /\ items' = IF counting THEN [items EXCEPT ![i] = "failed"] ELSE items
        /\ job' = IF items' # items /\ hand.batch = {i} THEN Refreshed(job, items') ELSE job
        /\ Recovered(staging, copies) \/ (hand.step = "uploading" /\ Recovered(cut, copies))
        /\ folders' = folders /\ stored' = stored /\ copies' = copies /\ commits' = commits
    BY DEF Stop
  <1>2. job.status # "completed"
    BY <1>1, BusyNotCompleted DEF ImportInv
  <1>3. counting => i \in File /\ items[i] = "importing" /\ staging[i] \in {"none", "uploading"}
    BY InHand DEF ImportInv, LinkInv, Copying
  <1>4. hand.step = "uploading" => staging[i] = "uploading" /\ i \in File
    BY <1>3 DEF ImportInv, LinkInv
  <1> HIDE DEF i, counting
  <1>5. /\ items' \in [File -> ItemStatus]
        /\ \A j \in File : items'[j] = items[j]
              \/ (items[j] = "importing" /\ items'[j] = "failed" /\ staging[j] # "committed")
    <2>1. CASE counting
      BY <1>1, <1>3, <2>1 DEF ImportInv, WorkInv, ItemStatus
    <2>2. CASE ~counting
      BY <1>1, <2>2 DEF ImportInv, WorkInv
    <2>3. QED
      BY <2>1, <2>2
  <1>6. job' \in ImportJob /\ job'.discovered = job.discovered
        /\ (job'.status = "completed" => job'.counted = CountOf(items') /\ ~Left(items'))
    <2>1. job \in ImportJob
      BY DEF ImportInv, WorkInv
    <2>2. QED
      BY <1>1, <1>2, <2>1, RefreshedFields
  <1>7. WorkInv'
    <2>1. \A j \in File : items'[j] = "none" <=> items[j] = "none"
      BY <1>5
    <2>2. QED
      BY <1>1, <1>5, <1>6, <2>1, EventCounted, IdleAgain DEF ImportInv, WorkInv
  <1>8. StoreInv' /\ \A j \in File : staging'[j] = "committed" <=> staging[j] = "committed"
    <2>1. staging \in [File -> Staged] /\ copies' \in [File -> Nat] /\ \A j \in File : copies[j] <= copies'[j]
      BY <1>1 DEF ImportInv, StoreInv
    <2>2. \A j \in File : staging[j] = "uploaded" => <<j, copies'[j]>> \notin released
      BY <1>1 DEF ImportInv, StoreInv, CopyInv
    <2>3. CASE Recovered(staging, copies)
      <3>1. Recovered(staging, copies')
        BY <1>1, <2>3
      <3>2. QED
        BY <1>1, <2>1, <2>2, <3>1, RecoveryStores DEF ImportInv
    <2>4. CASE hand.step = "uploading" /\ Recovered(cut, copies)
      <3>1. cut \in [File -> Staged] /\ \A j \in File : cut[j] = IF j = i THEN "failed" ELSE staging[j]
        BY <2>1 DEF Staged
      <3> HIDE DEF cut
      <3>2. Recovered(cut, copies')
        BY <1>1, <2>4
      <3>3. \A j \in File : staging[j] = "committed" <=> cut[j] = "committed"
        BY <1>4, <2>4, <3>1
      <3>4. \A j \in File : cut[j] = "uploaded" => <<j, copies'[j]>> \notin released
        BY <2>2, <3>1
      <3>5. QED
        BY <1>1, <2>1, <3>1, <3>2, <3>3, <3>4, RecoveryStores DEF ImportInv
    <2>5. QED
      BY <1>1, <2>3, <2>4
  <1>9. LinkInv'
    <2>1. \A j \in File : items'[j] = "imported" => items[j] = "imported"
      BY <1>5
    <2>2. \A j \in File : staging[j] = "committed" /\ items[j] \in {"imported", "importing"}
                             => items'[j] \in {"imported", "importing"}
      BY <1>5
    <2>3. QED
      BY <1>1, <1>8, <2>1, <2>2, LinkIdle, NoHandFields DEF ImportInv
  <1>10. QED
    BY <1>7, <1>8, <1>9 DEF ImportInv

LEMMA CrashInUploadStep ==
    ASSUME ImportInv, CrashInUpload
    PROVE  ImportInv'
  <1> DEFINE i == Item
             n == copies[i] + 1
             rows == [staging EXCEPT ![i] = "uploaded"]
  <1>1. /\ CountImportEvent /\ hand.step = "uploading" /\ hand.step \in Copying /\ hand' = NoHand
        /\ copies' = [copies EXCEPT ![i] = @ + 1]
        /\ job' = job /\ folders' = folders /\ items' = items
    BY DEF CrashInUpload, Copying
  <1>2. staging[i] = "uploading" /\ i \in File /\ items[i] = "importing" /\ job.status # "completed"
    BY <1>1, InHand DEF ImportInv, LinkInv
  <1>3. WorkInv'
    BY <1>1, <1>2, EventCounted, IdleAgain DEF ImportInv, WorkInv
  <1>4. n \in Nat /\ copies' \in [File -> Nat] /\ n = copies'[i]
        /\ (\A j \in File : copies[j] <= copies'[j]) /\ (\A j \in File : j # i => copies'[j] = copies[j])
    BY <1>1, <1>2 DEF ImportInv, StoreInv
  <1>5. <<i, n>> \notin released
    <2>1. <<i, n>> \in released => n <= copies[i]
      BY <1>2, <1>4 DEF ImportInv, StoreInv, CopyInv
    <2>2. copies[i] \in Nat
      BY <1>2 DEF ImportInv, StoreInv
    <2>3. QED
      BY <2>1, <2>2
  <1>6. CASE Recovered(rows, copies') /\ stored' = stored /\ commits' = commits
    <2>1. rows \in [File -> Staged] /\ \A j \in File : rows[j] = IF j = i THEN "uploaded" ELSE staging[j]
      BY DEF ImportInv, StoreInv, Staged
    <2> HIDE DEF rows
    <2>2. \A j \in File : staging[j] = "committed" <=> rows[j] = "committed"
      BY <1>2, <2>1
    <2>3. ASSUME NEW j \in File, rows[j] = "uploaded"
          PROVE  <<j, copies'[j]>> \notin released
      <3>1. CASE j = i
        BY <1>4, <1>5, <3>1
      <3>2. CASE j # i
        <4>1. staging[j] = "uploaded" /\ copies'[j] = copies[j]
          BY <1>4, <2>1, <2>3, <3>2
        <4>2. QED
          BY <4>1 DEF ImportInv, StoreInv, CopyInv
      <3>3. QED
        BY <3>1, <3>2
    <2>4. StoreInv' /\ \A j \in File : staging'[j] = "committed" <=> staging[j] = "committed"
      BY <1>4, <1>6, <2>1, <2>2, <2>3, RecoveryStores DEF ImportInv
    <2>5. LinkInv'
      BY <1>1, <1>6, <2>4, LinkIdle, NoHandFields DEF ImportInv
    <2>6. QED
      BY <1>3, <2>4, <2>5 DEF ImportInv
  <1>7. CASE ~Taken(i) /\ Publish(i, <<i, n>>) /\ released' = released
    <2>1. StoreInv'
      BY <1>2, <1>4, <1>5, <1>7, PublishStores DEF ImportInv, Taken
    <2>2. staging' = [staging EXCEPT ![i] = "committed"] /\ commits' = [commits EXCEPT ![i] = @ + 1]
      BY <1>7 DEF Publish
    <2>3. staging'[i] = "committed" /\ \A j \in File : j # i => staging'[j] = staging[j]
      BY <1>2, <2>2 DEF ImportInv, StoreInv
    <2>4. commits' = [j \in File |-> IF staging'[j] = "committed" THEN 1 ELSE 0]
      BY <1>2, <2>2, CommitsFollow DEF ImportInv
    <2>5. \A j \in File : /\ items'[j] = "imported" => staging'[j] = "committed"
                          /\ staging'[j] = "committed" => items'[j] \in {"imported", "importing"}
      BY <1>1, <1>2, <2>3 DEF ImportInv, LinkInv
    <2>6. LinkInv'
      BY <1>1, <2>4, <2>5, NoHandFields DEF LinkInv
    <2>7. QED
      BY <1>3, <2>1, <2>6 DEF ImportInv
  <1>8. QED
    BY <1>6, <1>7 DEF CrashInUpload

LEMMA Starts == ImportInit => ImportInv
  <1> SUFFICES ASSUME ImportInit PROVE ImportInv
    OBVIOUS
  <1>1. job = [status |-> "none", phase |-> "scan", discovered |-> 0, counted |-> NoCounts]
        /\ folders = [f \in Folder |-> [status |-> "none", page |-> 1]]
        /\ items = [i \in File |-> "none"] /\ staging = [i \in File |-> "none"]
        /\ stored = [k \in Key |-> NoObject] /\ released = {}
        /\ copies = [i \in File |-> 0] /\ commits = [i \in File |-> 0]
        /\ hand = NoHand /\ importEvents = 0
    BY DEF ImportInit
  <1>2. NoCounts \in Counted
    BY DEF NoCounts, Counted
  <1>3. job \in ImportJob /\ folders \in [Folder -> FolderRow] /\ items \in [File -> ItemStatus]
    BY <1>1, <1>2 DEF ImportJob, Status, FolderRow, ItemStatus
  <1>4. CountsInv
    <2>1. Known = {}
      BY <1>1 DEF Known
    <2>2. QED
      BY <1>1, <2>1, FS_EmptySet DEF CountsInv
  <1>5. WorkInv
    BY <1>1, <1>3, <1>4, NoHandFields DEF WorkInv, HandInv, Copying
  <1>6. StoreInv
    <2>1. CopyInv
      <3>1. \A i \in File, n \in Nat : <<i, n>> # NoObject
        BY ObjectsApart
      <3>2. QED
        BY <1>1, <3>1 DEF CopyInv
    <2>2. QED
      BY <1>1, <2>1 DEF StoreInv, Staged, ImportedFileKept
  <1>7. LinkInv
    BY <1>1, NoHandFields DEF LinkInv
  <1>8. QED
    BY <1>5, <1>6, <1>7 DEF ImportInv

LEMMA Stutters ==
    ASSUME ImportInv, UNCHANGED importVars
    PROVE  ImportInv'
  <1>1. /\ job' = job /\ folders' = folders /\ items' = items /\ staging' = staging /\ stored' = stored
        /\ released' = released /\ copies' = copies /\ hand' = hand /\ importEvents' = importEvents
        /\ commits' = commits
    BY DEF importVars
  <1>2. WorkInv'
    <2>1. CountsInv' /\ HandInv'
      BY <1>1, CountsKept DEF ImportInv, WorkInv, CountsInv, HandInv
    <2>2. QED
      BY <1>1, <2>1 DEF ImportInv, WorkInv
  <1>3. QED
    BY <1>1, <1>2, StoreSame, LinkSame DEF ImportInv

LEMMA Steps ==
    ASSUME ImportInv, [ImportNext]_importVars
    PROVE  ImportInv'
  <1>1. CASE ImportWorks
    BY <1>1, JobSteps, ScanSteps, TakeItemStep, SourceAnswersStep, StageItemStep, UploadedStep, UploadFailsStep
       DEF ImportWorks
  <1>2. CASE \E k \in Key : ClientWrites(k) \/ ClientDeletes(k)
    BY <1>2, ClientStep
  <1>3. CASE CreateJob \/ JobFails \/ CancelJob
    BY <1>3, JobSteps, CancelStep
  <1>4. CASE Stop \/ Crash \/ CrashInUpload
    BY <1>4, StopStep, CrashStep, CrashInUploadStep
  <1>5. CASE UNCHANGED importVars
    BY <1>5, Stutters
  <1>6. QED
    BY <1>1, <1>2, <1>3, <1>4, <1>5 DEF ImportNext

-----------------------------------------------------------------------------
(***************************************************************************)
(* What the invariant gives.                                               *)
(***************************************************************************)

LEMMA TypeHolds == ImportInv => ImportTypeOK
  <1> SUFFICES ASSUME ImportInv PROVE ImportTypeOK
    OBVIOUS
  <1>1. commits \in [File -> Nat]
    BY DEF ImportInv, LinkInv
  <1>2. QED
    BY <1>1 DEF ImportInv, WorkInv, StoreInv, ImportTypeOK, ImportJob, Status, Counted, FolderRow, ItemStatus, Staged, Hand

LEMMA OnceHolds == ImportInv => ImportedOnce
  BY DEF ImportInv, LinkInv, ImportedOnce

\* The items on record are those of the four ends when nothing is left.
LEMMA EndsAddUp ==
    ASSUME items \in [File -> ItemStatus], ~Left(items)
    PROVE  LET n(s) == Cardinality({i \in File : items[i] = s})
           IN  Cardinality(Known) = n("imported") + n("conflict") + n("unsupported") + n("failed")
  <1> DEFINE I == {i \in File : items[i] = "imported"}
             C == {i \in File : items[i] = "conflict"}
             U == {i \in File : items[i] = "unsupported"}
             F == {i \in File : items[i] = "failed"}
  <1>1. IsFiniteSet(I) /\ IsFiniteSet(C) /\ IsFiniteSet(U) /\ IsFiniteSet(F)
    BY FS_Subset
  <1>2. Known = ((I \cup C) \cup U) \cup F
    BY DEF Known, Left, Outstanding, ItemStatus
  <1>3. I \cap C = {} /\ (I \cup C) \cap U = {} /\ ((I \cup C) \cup U) \cap F = {}
    OBVIOUS
  <1> HIDE DEF I, C, U, F
  <1>4. \A S, T : IsFiniteSet(S) /\ IsFiniteSet(T) /\ S \cap T = {}
                     => IsFiniteSet(S \cup T) /\ Cardinality(S \cup T) = Cardinality(S) + Cardinality(T)
    <2> SUFFICES ASSUME NEW S, NEW T, IsFiniteSet(S), IsFiniteSet(T), S \cap T = {}
                 PROVE  IsFiniteSet(S \cup T) /\ Cardinality(S \cup T) = Cardinality(S) + Cardinality(T)
      OBVIOUS
    <2>1. IsFiniteSet(S \cup T) /\ Cardinality(S \cup T) = Cardinality(S) + Cardinality(T) - Cardinality(S \cap T)
      BY FS_Union
    <2>2. Cardinality(S) \in Nat /\ Cardinality(T) \in Nat /\ Cardinality(S \cap T) = 0
      BY FS_CardinalityType, FS_EmptySet
    <2>3. QED
      BY <2>1, <2>2
  <1>5. IsFiniteSet(I \cup C) /\ Cardinality(I \cup C) = Cardinality(I) + Cardinality(C)
    BY <1>1, <1>3, <1>4
  <1>6. IsFiniteSet((I \cup C) \cup U) /\ Cardinality((I \cup C) \cup U) = Cardinality(I \cup C) + Cardinality(U)
    BY <1>1, <1>3, <1>4, <1>5
  <1>7. Cardinality(((I \cup C) \cup U) \cup F) = Cardinality((I \cup C) \cup U) + Cardinality(F)
    BY <1>1, <1>3, <1>4, <1>6
  <1>8. Cardinality(Known) = Cardinality(I) + Cardinality(C) + Cardinality(U) + Cardinality(F)
    BY <1>2, <1>5, <1>6, <1>7
  <1>9. QED
    BY <1>8 DEF I, C, U, F

LEMMA ReportHolds == ImportInv => ReportIsTrue
  <1> SUFFICES ASSUME ImportInv, job.status = "completed" PROVE ReportIsTrue
    BY DEF ReportIsTrue
  <1>1. job.counted = CountOf(items) /\ ~Left(items) /\ job.discovered = Cardinality(Known)
        /\ items \in [File -> ItemStatus]
    BY DEF ImportInv, WorkInv, CountsInv
  <1>2. \A i \in File : items[i] = "imported" <=> commits[i] = 1
    <2>1. \A i \in File : items[i] # "importing"
      BY <1>1 DEF Left, Outstanding
    <2>2. \A i \in File : items[i] = "imported" <=> staging[i] = "committed"
      BY <2>1 DEF ImportInv, LinkInv
    <2>3. \A i \in File : commits[i] = IF staging[i] = "committed" THEN 1 ELSE 0
      BY DEF ImportInv, LinkInv
    <2>4. QED
      BY <2>2, <2>3
  <1>3. /\ job.counted.imported = Cardinality({i \in File : items[i] = "imported"})
        /\ job.counted.conflict = Cardinality({i \in File : items[i] = "conflict"})
        /\ job.counted.unsupported = Cardinality({i \in File : items[i] = "unsupported"})
        /\ job.counted.failed = Cardinality({i \in File : items[i] = "failed"})
    BY <1>1 DEF CountOf, NoCounts
  <1>4. QED
    BY <1>1, <1>2, <1>3, EndsAddUp DEF ReportIsTrue

Kept(k) == stored[k] # NoObject => stored'[k] \in {stored[k], Client, NoObject}

LEMMA PublishKeeps ==
    ASSUME StoreInv, NEW i \in File, NEW c, Publish(i, c), ~Taken(i), NEW k \in Key
    PROVE  Kept(k)
  BY DEF StoreInv, Publish, Taken, Kept

LEMMA StepKeeps ==
    ASSUME ImportInv, [ImportNext]_importVars, NEW k \in Key
    PROVE  Kept(k)
  <1>1. CASE stored' = stored
    BY <1>1 DEF Kept
  <1>2. CASE TakeItem \/ Uploaded \/ CrashInUpload
    <2>1. stored' = stored \/ \E c : Publish(Item, c) /\ ~Taken(Item)
      BY <1>2 DEF TakeItem, Uploaded, CrashInUpload, Already
    <2>2. Item \in File
      BY <1>2, InHand DEF ImportInv, TakeItem, Uploaded, CrashInUpload, Copying
    <2>3. QED
      BY <1>1, <2>1, <2>2, PublishKeeps DEF ImportInv
  <1>3. ASSUME NEW l \in Key, ClientWrites(l) \/ ClientDeletes(l)
        PROVE  Kept(k)
    BY <1>3 DEF ClientWrites, ClientDeletes, Kept, ImportInv, StoreInv
  <1>4. CASE CreateJob \/ CancelJob \/ FinishCancel \/ JobFails \/ ClaimFolder \/ SavePage \/ FinalizeScan
    BY <1>1, <1>4 DEF CreateJob, CancelJob, FinishCancel, JobFails, ClaimFolder, SavePage, FinalizeScan
  <1>5. CASE ClaimItems \/ SourceAnswers \/ StageItem \/ UploadFails \/ Stop \/ Crash
    BY <1>1, <1>5 DEF ClaimItems, SourceAnswers, StageItem, UploadFails, Stop, Crash
  <1>6. CASE UNCHANGED importVars
    BY <1>1, <1>6 DEF importVars
  <1>7. QED
    BY <1>2, <1>3, <1>4, <1>5, <1>6 DEF ImportNext, ImportWorks

LEMMA InvHolds == ImportSpec => []ImportInv
  BY Starts, Steps, PTL DEF ImportSpec

\* For any folders and pages, keys, batch size, clients, stops and crashes, an
\* import makes every file an object at most once, overwrites none, keeps the
\* files its objects are served from, and reports what it did
\* (drive-import-service.ts).
THEOREM ImportsAreSafe == ImportSpec => ImportSafe
  <1>1. ImportInv => ImportTypeOK /\ ImportedOnce /\ ReportIsTrue /\ ImportedFileKept
    BY TypeHolds, OnceHolds, ReportHolds DEF ImportInv, StoreInv
  <1>2. ImportInv /\ [ImportNext]_importVars
           => [\A k \in Key : stored[k] # NoObject => stored'[k] \in {stored[k], Client, NoObject}]_importVars
    BY StepKeeps DEF Kept
  <1>3. QED
    BY <1>1, <1>2, InvHolds, PTL DEF ImportSpec, ImportSafe, NeverOverwrites

-----------------------------------------------------------------------------
(***************************************************************************)
(* Snapshots of the database.                                              *)
(***************************************************************************)

Pruning == {"oldManifest", "oldArchive"}
AtWork(r) == runner[r].step # "off"

\* Who is at work has the newest archive; the row of a snapshot is of one begun.
RunnersInv ==
    /\ \A r \in Runner : ~AtWork(r) => runner[r] = Off
    /\ \A r \in Runner : AtWork(r) => runner[r].account \in Account /\ runner[r].id = made
    /\ \A s \in snapshots : s.id <= made

\* What an execution has done when it comes to a step: its archive is there
\* before its manifest is sent; what it prunes is older than its own snapshot,
\* which is on record unless its account went; and a manifest goes first.
StepsInv ==
    \A r \in Runner :
        LET a == runner[r].account
            n == runner[r].id
        IN  /\ runner[r].step = "manifest" => FileOf(a, n, "archive") \in files
            /\ runner[r].step \in Pruning =>
                  /\ \A m \in runner[r].old : m < n
                  /\ Row(a, n) \in snapshots \/ \A s \in snapshots : s.account # a
            /\ runner[r].step = "oldArchive" =>
                  \A m \in PrunedNext(r) : FileOf(a, m, "manifest") \notin files

SnapInv == SnapshotsSafe /\ RunnersInv /\ StepsInv

Copies == [account : Account, id : Nat, part : {"archive", "manifest"}]
Records == [account : Account, id : Nat]

-----------------------------------------------------------------------------
HIDE Given
USE DbSnapshotsAssumption

LEMMA SnapInitInv == SnapInit => SnapInv
  <1> SUFFICES ASSUME SnapInit PROVE SnapInv
    OBVIOUS
  <1>1. SnapTypeOK
    <2>1. settings \in Settings
      BY DEF SnapInit, Settings
    <2>2. Off \in Execution
      BY DEF Off, Execution
    <2>3. QED
      BY <2>1, <2>2 DEF SnapInit, SnapTypeOK
  <1>2. OneAtATime /\ ManifestHasArchive /\ NewestWhole
    BY DEF SnapInit, OneAtATime, ManifestHasArchive, NewestWhole
  <1>3. RunnersInv /\ StepsInv
    BY DEF SnapInit, RunnersInv, StepsInv, AtWork, Pruning, Off
  <1>4. QED
    BY <1>1, <1>2, <1>3 DEF SnapInv, SnapshotsSafe

\* Only ids that have a newer one on record are beyond retention.
LEMMA BeyondIsOld ==
    ASSUME NEW rows \in SUBSET [account : Account, id : Nat], NEW a \in Account, NEW keep \in Nat \ {0}
    PROVE  /\ BeyondRetention(rows, a, keep) \subseteq Nat
           /\ \A n \in BeyondRetention(rows, a, keep) : \E s \in rows : s.account = a /\ s.id > n
  <1>1. BeyondRetention(rows, a, keep) \subseteq Nat
    BY DEF BeyondRetention, RowsOf
  <1>2. ASSUME NEW n \in BeyondRetention(rows, a, keep)
        PROVE  \E s \in rows : s.account = a /\ s.id > n
    <2> DEFINE newer == {m \in RowsOf(rows, a) : m > n}
    <2>1. Cardinality(newer) >= keep
      BY DEF BeyondRetention
    <2>2. newer # {}
      BY <2>1, FS_EmptySet
    <2>3. QED
      BY <2>2 DEF RowsOf
  <1>3. QED
    BY <1>1, <1>2

\* What changes no file and only drops an account's rows, ends executions or
\* begins one, keeps all that is said of rows, steps and files.
LEMMA QuietStep ==
    ASSUME SnapInv, SnapTypeOK', OneAtATime',
           files' = files, made' \in Nat, made <= made',
           NEW gone, snapshots' = {s \in snapshots : s.account # gone},
           \A r \in Runner : \/ runner'[r] = runner[r] /\ (AtWork(r) => made' = made)
                             \/ runner'[r] = Off
                             \/ /\ runner'[r].step = "writing"
                                /\ runner'[r].account \in Account /\ runner'[r].id = made'
    PROVE  SnapInv'
  BY DEF SnapInv, SnapshotsSafe, ManifestHasArchive, NewestWhole, RunnersInv, StepsInv, AtWork, Pruning, Off,
         Row, FileOf, PrunedNext, SnapTypeOK, Runner

LEMMA EndsType ==
    ASSUME SnapTypeOK, NEW status \in {"running", "completed", "failed"}
    PROVE  Finished(status) \in Settings /\ FailInterrupted \in Settings
  BY DEF SnapTypeOK, Finished, FailInterrupted, Settings

LEMMA MovesType ==
    ASSUME SnapTypeOK, NEW r \in Runner,
           NEW step \in {"writing", "archive", "manifest", "oldManifest", "oldArchive"}, NEW old \in SUBSET Nat
    PROVE  /\ Off \in Execution /\ [runner EXCEPT ![r] = Off] \in [Runner -> Execution]
           /\ [runner EXCEPT ![r].step = step] \in [Runner -> Execution]
           /\ [runner EXCEPT ![r] = [@ EXCEPT !.step = step, !.old = old]] \in [Runner -> Execution]
  <1>1. Off \in Execution
    BY DEF Off, Execution
  <1>2. /\ [runner[r] EXCEPT !.step = step] \in Execution
        /\ [runner[r] EXCEPT !.step = step, !.old = old] \in Execution
    BY DEF SnapTypeOK, Execution
  <1>3. QED
    BY <1>1, <1>2 DEF SnapTypeOK

LEMMA SaveStep ==
    ASSUME SnapInv, NEW on \in BOOLEAN, NEW a \in Account \cup {NoAccount}, NEW n \in Retain, Save(on, a, n)
    PROVE  SnapInv'
  <1>1. SnapTypeOK
    BY DEF SnapInv, SnapshotsSafe
  <1>2. settings' \in Settings /\ settings'.status = settings.status
    BY <1>1 DEF SnapTypeOK, Settings, Save, Saved
  <1>3. SnapTypeOK'
    <2>0. due' = FALSE
      BY DEF Save, Saved
    <2>1. due' \in BOOLEAN /\ snapEvents' \in Nat
      <3>1. snapEvents \in Nat /\ snapEvents' = snapEvents + 1
        BY <1>1 DEF SnapTypeOK, Save, CountSnapEvent
      <3>2. due' \in BOOLEAN
        BY <2>0, Zenon
      <3>3. QED
        BY <3>1, <3>2
    <2>2. UNCHANGED <<accounts, snapshots, files, runner, made>>
      BY DEF Save
    <2>3. QED
      BY <1>1, <1>2, <2>1, <2>2 DEF SnapTypeOK
  <1>4. OneAtATime'
    BY <1>2 DEF SnapInv, SnapshotsSafe, OneAtATime, Save
  <1>5. /\ snapshots' = {s \in snapshots : s.account # NoAccount}
        /\ files' = files /\ runner' = runner /\ made' = made /\ made \in Nat
    BY <1>1 DEF SnapTypeOK, Save
  <1>6. made' \in Nat /\ made <= made' /\ \A r \in Runner : runner'[r] = runner[r] /\ (AtWork(r) => made' = made)
    BY <1>5
  <1>7. QED
    BY <1>3, <1>4, <1>5, <1>6, QuietStep

LEMMA UnlinkStep ==
    ASSUME SnapInv, NEW a \in Account, UnlinkSnapshotAccount(a)
    PROVE  SnapInv'
  <1>1. SnapTypeOK
    BY DEF SnapInv, SnapshotsSafe
  <1>2. settings' \in Settings /\ settings'.status = settings.status
    BY <1>1 DEF SnapTypeOK, Settings, UnlinkSnapshotAccount
  <1>3. SnapTypeOK'
    BY <1>1, <1>2 DEF SnapTypeOK, UnlinkSnapshotAccount, CountSnapEvent
  <1>4. OneAtATime'
    BY <1>2 DEF SnapInv, SnapshotsSafe, OneAtATime, UnlinkSnapshotAccount
  <1>5. /\ snapshots' = {s \in snapshots : s.account # a}
        /\ files' = files /\ runner' = runner /\ made' = made /\ made \in Nat
    BY <1>1 DEF SnapTypeOK, UnlinkSnapshotAccount
  <1>6. QED
    BY <1>3, <1>4, <1>5, QuietStep

\* Nobody is at work when an execution begins, so that its id is the newest.
LEMMA ExecuteStep ==
    ASSUME SnapInv, NEW r \in Runner, Claimable, Execute(r),
           due' \in BOOLEAN, UNCHANGED <<accounts, snapshots, files, snapEvents>>
    PROVE  SnapInv'
  <1>1. \A q \in Runner : runner[q] = Off /\ ~AtWork(q)
    BY DEF SnapInv, SnapshotsSafe, OneAtATime, Claimable, AtWork, Off
  <1>2. SnapTypeOK
    BY DEF SnapInv, SnapshotsSafe
  <1>3. snapshots' = {s \in snapshots : s.account # NoAccount} /\ made \in Nat
    BY <1>2 DEF SnapTypeOK
  <1>4. CASE Nowhere
    <2>1. runner' = runner /\ made' = made /\ settings' = Finished("failed")
      BY <1>4 DEF Execute
    <2>2. SnapTypeOK'
      BY <1>2, <2>1, EndsType DEF SnapTypeOK
    <2>3. OneAtATime'
      BY <1>1, <2>1 DEF OneAtATime
    <2>4. made' \in Nat /\ made <= made' /\ \A q \in Runner : runner'[q] = Off
      BY <1>1, <1>3, <2>1
    <2>5. QED
      BY <1>3, <2>2, <2>3, <2>4, QuietStep
  <1>5. CASE ~Nowhere
    <2> DEFINE begun == [step |-> "writing", account |-> settings.account, retain |-> settings.retain,
                         id |-> made + 1, old |-> {}]
    <2>1. settings.account \in Account /\ settings.retain \in Nat \ {0}
      BY <1>2, <1>5 DEF SnapTypeOK, Settings, Nowhere
    <2>2. begun \in Execution /\ begun.step = "writing" /\ begun.account \in Account /\ begun.id = made + 1
      BY <1>3, <2>1 DEF Execution
    <2>3. /\ runner' = [runner EXCEPT ![r] = begun] /\ made' = made + 1
          /\ settings' = [settings EXCEPT !.status = "running"]
      BY <1>5 DEF Execute
    <2>4. settings' \in Settings /\ settings'.status = "running"
      BY <1>2, <2>3 DEF SnapTypeOK, Settings
    <2> HIDE DEF begun
    <2>5. SnapTypeOK'
      BY <1>2, <2>2, <2>3, <2>4 DEF SnapTypeOK
    <2>6. runner'[r] = begun /\ \A q \in Runner \ {r} : runner'[q] = Off
      BY <1>1, <1>2, <2>3 DEF SnapTypeOK
    <2>7. OneAtATime'
      BY <2>4, <2>6 DEF OneAtATime
    <2>8. /\ made' \in Nat /\ made <= made'
          /\ runner'[r].step = "writing" /\ runner'[r].account \in Account /\ runner'[r].id = made'
      BY <1>3, <2>2, <2>3, <2>6
    <2>9. QED
      BY <1>3, <2>5, <2>6, <2>7, <2>8, QuietStep
  <1>6. QED
    BY <1>4, <1>5

LEMMA RestartStep == SnapInv /\ Restart => SnapInv'
  <1> SUFFICES ASSUME SnapInv, Restart PROVE SnapInv'
    OBVIOUS
  <1>1. SnapTypeOK
    BY DEF SnapInv, SnapshotsSafe
  <1>2. runner' = [q \in Runner |-> Off] /\ \A q \in Runner : runner'[q] = Off
    BY DEF Restart
  <1>3. SnapTypeOK'
    <2>1. settings' \in Settings /\ Off \in Execution
      BY <1>1, EndsType, MovesType DEF Restart, Runner
    <2>2. snapEvents' = snapEvents + 1 /\ UNCHANGED <<due, accounts, snapshots, files, made>>
      BY DEF Restart, CountSnapEvent
    <2>3. QED
      BY <1>1, <1>2, <2>1, <2>2 DEF SnapTypeOK
  <1>4. OneAtATime'
    BY <1>2 DEF OneAtATime
  <1>5. /\ snapshots' = {s \in snapshots : s.account # NoAccount}
        /\ files' = files /\ made' = made /\ made \in Nat
    BY <1>1 DEF SnapTypeOK, Restart
  <1>6. QED
    BY <1>2, <1>3, <1>4, <1>5, QuietStep

-----------------------------------------------------------------------------
(***************************************************************************)
(* The steps of an execution: nobody else is at work.                      *)
(***************************************************************************)

LEMMA Alone ==
    ASSUME SnapInv, NEW r \in Runner, AtWork(r)
    PROVE  /\ \A q \in Runner \ {r} : runner[q] = Off /\ ~AtWork(q)
           /\ settings.status = "running" /\ runner[r] # Off
           /\ runner[r].account \in Account /\ runner[r].id = made
           /\ runner[r].retain \in Nat \ {0} /\ runner[r].old \in SUBSET Nat /\ made \in Nat
           /\ runner[r].step \in {"writing", "archive", "manifest", "oldManifest", "oldArchive"}
  <1>1. runner[r] # Off
    BY DEF AtWork, Off
  <1>2. settings.status = "running" /\ \A q \in Runner \ {r} : runner[q] = Off
    BY <1>1 DEF SnapInv, SnapshotsSafe, OneAtATime
  <1>3. runner[r].account \in Account /\ runner[r].id = made
    BY DEF SnapInv, RunnersInv
  <1>4. runner[r] \in Execution /\ made \in Nat
    BY DEF SnapInv, SnapshotsSafe, SnapTypeOK
  <1>5. QED
    BY <1>1, <1>2, <1>3, <1>4 DEF Execution, AtWork, Off

\* An execution that ends leaves what files and rows say.
LEMMA FinishStep ==
    ASSUME SnapInv, NEW r \in Runner, AtWork(r), NEW status \in {"completed", "failed"}, Finish(r, status),
           UNCHANGED <<due, accounts, made, snapEvents>>,
           files' \subseteq Copies, snapshots' \subseteq Records,
           ManifestHasArchive', NewestWhole', \A s \in snapshots' : s.id <= made
    PROVE  SnapInv'
  <1>1. SnapTypeOK
    BY DEF SnapInv, SnapshotsSafe
  <1>2. runner' \in [Runner -> Execution] /\ settings' \in Settings
    BY <1>1, EndsType, MovesType DEF Finish
  <1>3. SnapTypeOK'
    BY <1>1, <1>2 DEF SnapTypeOK, Copies, Records
  <1>4. \A q \in Runner : runner'[q] = Off
    BY <1>1, Alone DEF Finish, SnapTypeOK
  <1>5. OneAtATime'
    BY <1>4 DEF OneAtATime
  <1>6. RunnersInv' /\ StepsInv'
    BY <1>4 DEF RunnersInv, StepsInv, AtWork, Off, Pruning
  <1>7. QED
    BY <1>3, <1>5, <1>6 DEF SnapInv, SnapshotsSafe

\* One that goes on keeps its account and id, and has done what its step asks.
LEMMA GoesOn ==
    ASSUME SnapInv, NEW r \in Runner, AtWork(r),
           NEW step \in {"archive", "manifest", "oldManifest", "oldArchive"}, NEW old \in SUBSET Nat,
           runner' = [runner EXCEPT ![r] = [@ EXCEPT !.step = step, !.old = old]],
           UNCHANGED <<settings, due, accounts, made, snapEvents>>,
           files' \subseteq Copies, snapshots' \subseteq Records,
           ManifestHasArchive', NewestWhole', \A s \in snapshots' : s.id <= made,
           step = "manifest" => FileOf(runner[r].account, made, "archive") \in files',
           step \in Pruning =>
              /\ \A m \in old : m < made
              /\ \/ Row(runner[r].account, made) \in snapshots'
                 \/ \A s \in snapshots' : s.account # runner[r].account,
           step = "oldArchive" =>
              \A m \in old : (\A k \in old : m <= k) => FileOf(runner[r].account, m, "manifest") \notin files'
    PROVE  SnapInv'
  <1>1. SnapTypeOK
    BY DEF SnapInv, SnapshotsSafe
  <1>2. runner' \in [Runner -> Execution]
    BY <1>1, MovesType
  <1>3. SnapTypeOK'
    BY <1>1, <1>2 DEF SnapTypeOK, Copies, Records
  <1>4. /\ \A q \in Runner \ {r} : runner'[q] = Off
        /\ runner'[r].step = step /\ runner'[r].old = old
        /\ runner'[r].account = runner[r].account /\ runner'[r].id = made
    <2>1. runner'[r] = [runner[r] EXCEPT !.step = step, !.old = old]
      BY <1>1 DEF SnapTypeOK
    <2>2. runner[r] \in Execution
      BY <1>1 DEF SnapTypeOK
    <2>3. QED
      BY <1>1, <2>1, <2>2, Alone DEF SnapTypeOK, Execution
  <1>5. settings'.status = "running"
    BY Alone
  <1>6. OneAtATime'
    BY <1>4, <1>5 DEF OneAtATime
  <1>7. RunnersInv'
    <2>0. Off.step = "off"
      BY DEF Off
    <2>1. \A q \in Runner \ {r} : ~AtWork(q)' /\ runner'[q] = Off
      BY <1>4, <2>0 DEF AtWork
    <2>2. AtWork(r)' /\ runner'[r].account \in Account /\ runner'[r].id = made'
      BY <1>4, Alone DEF AtWork
    <2>3. \A s \in snapshots' : s.id <= made'
      OBVIOUS
    <2>4. QED
      BY <2>1, <2>2, <2>3 DEF RunnersInv
  <1>8. StepsInv'
    BY <1>4 DEF StepsInv, Off, Pruning, PrunedNext
  <1>9. QED
    BY <1>3, <1>6, <1>7, <1>8 DEF SnapInv, SnapshotsSafe

\* The files and the rows are of accounts and ids, and what is sent is too.
LEMMA FilesAndRows ==
    ASSUME SnapInv
    PROVE  /\ files \subseteq Copies /\ snapshots \subseteq Records
           /\ \A s \in snapshots : s.id <= made
           /\ \A r \in Runner : AtWork(r) => Sent(r, FirstPart) \subseteq Copies /\ Sent(r, SecondPart) \subseteq Copies
  <1>1. files \subseteq Copies /\ snapshots \subseteq Records /\ \A s \in snapshots : s.id <= made
    BY DEF SnapInv, SnapshotsSafe, SnapTypeOK, RunnersInv, Copies, Records
  <1>2. ASSUME NEW r \in Runner, AtWork(r)
        PROVE  Sent(r, FirstPart) \subseteq Copies /\ Sent(r, SecondPart) \subseteq Copies
    BY <1>1, <1>2, Alone DEF Sent, FirstPart, SecondPart, FileOf, Copies
  <1>3. QED
    BY <1>1, <1>2

LEMMA ArchiveWrittenStep ==
    ASSUME SnapInv, NEW r \in Runner, ArchiveWritten(r)
    PROVE  SnapInv'
  <1>0. AtWork(r)
    BY DEF ArchiveWritten, AtWork
  <1>1. runner' = [runner EXCEPT ![r] = [@ EXCEPT !.step = "archive", !.old = runner[r].old]]
    BY <1>0 DEF ArchiveWritten, SnapInv, SnapshotsSafe, SnapTypeOK, Execution
  <1>2. ManifestHasArchive' /\ NewestWhole'
    BY DEF SnapInv, SnapshotsSafe, ManifestHasArchive, NewestWhole, ArchiveWritten
  <1>3. QED
    BY <1>0, <1>1, <1>2, Alone, FilesAndRows, GoesOn DEF ArchiveWritten, Pruning

LEMMA ArchiveSentStep ==
    ASSUME SnapInv, NEW r \in Runner, ArchiveSent(r)
    PROVE  SnapInv'
  <1>0. AtWork(r) /\ files' = Sent(r, FirstPart)
    BY DEF ArchiveSent, AtWork
  <1>1. runner' = [runner EXCEPT ![r] = [@ EXCEPT !.step = "manifest", !.old = runner[r].old]]
    BY <1>0 DEF ArchiveSent, SnapInv, SnapshotsSafe, SnapTypeOK, Execution
  <1>2. ManifestHasArchive' /\ NewestWhole'
    BY DEF SnapInv, SnapshotsSafe, ManifestHasArchive, NewestWhole, ArchiveSent, Sent, FileOf, FirstPart
  <1>3. FileOf(runner[r].account, made, "archive") \in files'
    BY <1>0, Alone DEF Sent, FirstPart
  <1>4. QED
    BY <1>0, <1>1, <1>2, <1>3, Alone, FilesAndRows, GoesOn DEF ArchiveSent, Pruning

\* The manifest comes to its archive, and its snapshot on record is whole.
LEMMA ManifestComes ==
    ASSUME SnapInv, NEW r \in Runner, runner[r].step = "manifest", files' = Sent(r, SecondPart)
    PROVE  /\ \A part \in {"archive", "manifest"} : FileOf(runner[r].account, runner[r].id, part) \in files'
           /\ ManifestHasArchive'
           /\ \A s \in snapshots : \A part \in {"archive", "manifest"} :
                 FileOf(s.account, s.id, part) \in files => FileOf(s.account, s.id, part) \in files'
  BY Alone DEF SnapInv, SnapshotsSafe, ManifestHasArchive, StepsInv, Sent, SecondPart, FileOf, AtWork

LEMMA ManifestSentStep ==
    ASSUME SnapInv, NEW r \in Runner, ManifestSent(r)
    PROVE  SnapInv'
  <1> DEFINE a == runner[r].account
             old == BeyondRetention(snapshots', a, runner[r].retain)
  <1>0. AtWork(r) /\ files' = Sent(r, SecondPart) /\ runner[r].step = "manifest"
    BY DEF ManifestSent, AtWork
  <1>1. a \in Account /\ runner[r].id = made /\ made \in Nat /\ runner[r].retain \in Nat \ {0}
    BY <1>0, Alone
  <1>2. files' \subseteq Copies /\ ManifestHasArchive' /\ UNCHANGED <<due, accounts, made, snapEvents>>
    BY <1>0, FilesAndRows, ManifestComes DEF ManifestSent
  <1>3. CASE a \in accounts
    <2>1. snapshots' = snapshots \cup {Row(a, made)} /\ PruneNext(r, old)
      BY <1>1, <1>3 DEF ManifestSent
    <2>2. snapshots' \subseteq Records /\ \A s \in snapshots' : s.id <= made
      BY <1>1, <2>1, FilesAndRows DEF Records, Row
    <2>3. old \in SUBSET Nat /\ \A m \in old : m < made
      <3>1. snapshots' \in SUBSET [account : Account, id : Nat]
        BY <2>2 DEF Records
      <3>2. old \subseteq Nat /\ \A m \in old : \E s \in snapshots' : s.account = a /\ s.id > m
        BY <1>1, <3>1, BeyondIsOld
      <3>3. QED
        BY <1>1, <2>2, <3>2 DEF Records
    <2>4. NewestWhole'
      <3>1. \A part \in {"archive", "manifest"} : FileOf(Row(a, made).account, Row(a, made).id, part) \in files'
        BY <1>0, <1>1, ManifestComes DEF Row
      <3>2. ASSUME NEW s \in snapshots, \A t \in snapshots' : t.account = s.account => t.id <= s.id
            PROVE  \A part \in {"archive", "manifest"} : FileOf(s.account, s.id, part) \in files'
        BY <1>0, <2>1, <3>2, ManifestComes DEF SnapInv, SnapshotsSafe, NewestWhole
      <3>3. QED
        BY <2>1, <3>1, <3>2 DEF NewestWhole
    <2> HIDE DEF old
    <2>5. CASE old = {}
      <3>1. Finish(r, "completed")
        BY <2>1, <2>5 DEF PruneNext
      <3>2. QED
        BY <1>0, <1>2, <2>2, <2>4, <3>1, FinishStep
    <2>6. CASE old # {}
      <3>1. /\ runner' = [runner EXCEPT ![r] = [@ EXCEPT !.step = "oldManifest", !.old = old]]
            /\ settings' = settings
        BY <2>1, <2>6 DEF PruneNext
      <3>2. Row(a, made) \in snapshots'
        BY <2>1
      <3>3. QED
        BY <1>0, <1>2, <2>2, <2>3, <2>4, <3>1, <3>2, GoesOn
    <2>7. QED
      BY <2>5, <2>6
  <1>4. CASE a \notin accounts
    <2>1. Finish(r, "failed") /\ snapshots' = snapshots
      BY <1>4 DEF ManifestSent
    <2>2. NewestWhole'
      BY <1>0, <2>1, ManifestComes DEF SnapInv, SnapshotsSafe, NewestWhole
    <2>3. QED
      BY <1>0, <1>2, <2>1, <2>2, FinishStep, FilesAndRows
  <1>5. QED
    BY <1>3, <1>4

LEMMA SnapshotFailsStep ==
    ASSUME SnapInv, NEW r \in Runner, SnapshotFails(r)
    PROVE  SnapInv'
  <1>0. AtWork(r)
    BY DEF SnapshotFails, AtWork
  <1>1. files' \in {files, Sent(r, FirstPart), Sent(r, SecondPart)} /\ snapshots' = snapshots
    BY DEF SnapshotFails
  <1>2. ManifestHasArchive' /\ NewestWhole'
    <2>1. CASE files' = files
      BY <1>1, <2>1 DEF SnapInv, SnapshotsSafe, ManifestHasArchive, NewestWhole
    <2>2. CASE files' = Sent(r, FirstPart)
      BY <1>1, <2>2 DEF SnapInv, SnapshotsSafe, ManifestHasArchive, NewestWhole, Sent, FileOf, FirstPart
    <2>3. CASE runner[r].step = "manifest" /\ files' = Sent(r, SecondPart)
      BY <1>1, <2>3, ManifestComes DEF SnapInv, SnapshotsSafe, NewestWhole
    <2>4. QED
      BY <2>1, <2>2, <2>3 DEF SnapshotFails
  <1>3. QED
    BY <1>0, <1>1, <1>2, FilesAndRows, FinishStep DEF SnapshotFails

-----------------------------------------------------------------------------
(***************************************************************************)
(* The deletion of old snapshots.                                          *)
(***************************************************************************)

\* What is pruned is not the newest snapshot of its account.
LEMMA PrunedIsNotNewest ==
    ASSUME SnapInv, NEW r \in Runner, runner[r].step \in Pruning, NEW m \in PrunedNext(r),
           NEW s \in snapshots, \A t \in snapshots : t.account = s.account => t.id <= s.id
    PROVE  s # Row(runner[r].account, m)
  <1>1. AtWork(r)
    BY DEF AtWork, Pruning
  <1>2. m \in Nat /\ m < made /\ made \in Nat
    BY <1>1, Alone DEF SnapInv, StepsInv, PrunedNext
  <1>3. \/ Row(runner[r].account, made) \in snapshots
        \/ \A t \in snapshots : t.account # runner[r].account
    BY <1>1, Alone DEF SnapInv, StepsInv
  <1>4. QED
    BY <1>2, <1>3 DEF Row

\* A deletion of a part of what is pruned leaves every newest snapshot whole.
LEMMA NewestStays ==
    ASSUME SnapInv, NEW r \in Runner, runner[r].step \in Pruning, NEW m \in PrunedNext(r),
           NEW gone, files' = Unsent(r, m, gone),
           NEW s \in snapshots, \A t \in snapshots : t.account = s.account => t.id <= s.id,
           NEW part \in {"archive", "manifest"}
    PROVE  FileOf(s.account, s.id, part) \in files'
  <1>1. FileOf(s.account, s.id, part) \in files
    BY DEF SnapInv, SnapshotsSafe, NewestWhole
  <1>2. s # Row(runner[r].account, m)
    BY PrunedIsNotNewest
  <1>3. s \in Records
    BY FilesAndRows
  <1>4. QED
    BY <1>1, <1>2, <1>3 DEF Unsent, FileOf, Row, Records

\* A manifest goes first, so that an archive that goes leaves none behind.
LEMMA ArchivesStay ==
    ASSUME SnapInv, NEW r \in Runner, NEW m \in PrunedNext(r),
           \/ files' = Unsent(r, m, "manifest")
           \/ runner[r].step = "oldArchive" /\ files' = Unsent(r, m, "archive")
    PROVE  ManifestHasArchive'
  <1>1. CASE files' = Unsent(r, m, "manifest")
    BY <1>1 DEF SnapInv, SnapshotsSafe, ManifestHasArchive, Unsent, FileOf
  <1>2. CASE runner[r].step = "oldArchive" /\ files' = Unsent(r, m, "archive")
    <2>1. FileOf(runner[r].account, m, "manifest") \notin files
      BY <1>2 DEF SnapInv, StepsInv
    <2>2. SUFFICES ASSUME NEW f \in files, f # FileOf(runner[r].account, m, "archive")
                   PROVE  FileOf(f.account, f.id, "archive") \in files'
      BY <1>2 DEF ManifestHasArchive, Unsent
    <2>3. FileOf(f.account, f.id, "archive") \in files
      BY DEF SnapInv, SnapshotsSafe, ManifestHasArchive
    <2>4. f \in Copies
      BY FilesAndRows
    <2>5. FileOf(f.account, f.id, "archive") # FileOf(runner[r].account, m, "archive")
      BY <2>1, <2>2, <2>4 DEF FileOf, Copies
    <2>6. QED
      BY <1>2, <2>3, <2>5 DEF Unsent
  <1>3. QED
    BY <1>1, <1>2

LEMMA OldManifestDeletedStep ==
    ASSUME SnapInv, NEW r \in Runner, OldManifestDeleted(r)
    PROVE  SnapInv'
  <1>0. AtWork(r) /\ runner[r].step \in Pruning /\ snapshots' = snapshots
    BY DEF OldManifestDeleted, AtWork, Pruning
  <1>1. PICK m \in PrunedNext(r) : files' = Unsent(r, m, "manifest")
    BY DEF OldManifestDeleted
  <1>2. runner' = [runner EXCEPT ![r] = [@ EXCEPT !.step = "oldArchive", !.old = runner[r].old]]
    BY <1>0 DEF OldManifestDeleted, SnapInv, SnapshotsSafe, SnapTypeOK, Execution
  <1>3. files' \subseteq Copies /\ ManifestHasArchive'
    BY <1>1, FilesAndRows, ArchivesStay DEF Unsent
  <1>4. NewestWhole'
    BY <1>0, <1>1, NewestStays DEF NewestWhole
  <1>5. /\ \A k \in runner[r].old : k < made
        /\ \/ Row(runner[r].account, made) \in snapshots
           \/ \A s \in snapshots : s.account # runner[r].account
    BY <1>0, Alone DEF SnapInv, StepsInv
  <1>6. \A k \in runner[r].old : (\A j \in runner[r].old : k <= j)
                => FileOf(runner[r].account, k, "manifest") \notin files'
    <2>1. \A k \in runner[r].old : (\A j \in runner[r].old : k <= j) => k = m
      BY <1>0, Alone DEF PrunedNext
    <2>2. QED
      BY <1>1, <2>1 DEF Unsent
  <1>7. /\ UNCHANGED <<settings, due, accounts, made, snapEvents>>
        /\ runner[r].old \in SUBSET Nat /\ snapshots' \subseteq Records /\ \A s \in snapshots' : s.id <= made
    BY <1>0, Alone, FilesAndRows DEF OldManifestDeleted
  <1>8. QED
    BY <1>0, <1>2, <1>3, <1>4, <1>5, <1>6, <1>7, GoesOn

LEMMA OldArchiveDeletedStep ==
    ASSUME SnapInv, NEW r \in Runner, OldArchiveDeleted(r)
    PROVE  SnapInv'
  <1> DEFINE a == runner[r].account
  <1>0. AtWork(r) /\ runner[r].step = "oldArchive" /\ runner[r].step \in Pruning
    BY DEF OldArchiveDeleted, AtWork, Pruning
  <1>1. PICK m \in PrunedNext(r) : /\ files' = Unsent(r, m, "archive")
                               /\ snapshots' = snapshots \ {Row(a, m)}
                               /\ PruneNext(r, runner[r].old \ {m})
    BY DEF OldArchiveDeleted
  <1>2. /\ files' \subseteq Copies /\ snapshots' \subseteq Records /\ \A s \in snapshots' : s.id <= made
        /\ ManifestHasArchive' /\ UNCHANGED <<due, accounts, made, snapEvents>>
    BY <1>0, <1>1, FilesAndRows, ArchivesStay DEF Unsent, OldArchiveDeleted
  <1>3. made \in Nat /\ m \in Nat /\ m < made /\ \A k \in runner[r].old : k < made
    BY <1>0, Alone DEF SnapInv, StepsInv, PrunedNext
  <1>4. Row(a, made) \in snapshots \/ \A s \in snapshots : s.account # a
    BY <1>0, Alone DEF SnapInv, StepsInv
  <1>5. Row(a, made) \in snapshots' \/ \A s \in snapshots' : s.account # a
    BY <1>1, <1>3, <1>4 DEF Row
  <1>6. NewestWhole'
    <2> SUFFICES ASSUME NEW s \in snapshots', \A t \in snapshots' : t.account = s.account => t.id <= s.id,
                        NEW part \in {"archive", "manifest"}
                 PROVE  FileOf(s.account, s.id, part) \in files'
      BY DEF NewestWhole
    <2>1. \A t \in snapshots : t.account = s.account => t.id <= s.id
      <3>1. s \in snapshots /\ s.id \in Nat
        BY <1>1, <1>2 DEF Records
      <3>2. s.account = a => m <= s.id
        BY <1>3, <1>5, <3>1 DEF Row
      <3>3. QED
        BY <1>1, <3>2 DEF Row
    <2>2. s \in snapshots
      BY <1>1
    <2>3. QED
      BY <1>0, <1>1, <2>1, <2>2, NewestStays
  <1>7. CASE runner[r].old \ {m} = {}
    <2>1. Finish(r, "completed")
      BY <1>1, <1>7 DEF PruneNext
    <2>2. QED
      BY <1>0, <1>2, <1>6, <2>1, FinishStep
  <1>8. CASE runner[r].old \ {m} # {}
    <2>1. /\ runner' = [runner EXCEPT ![r] = [@ EXCEPT !.step = "oldManifest", !.old = runner[r].old \ {m}]]
          /\ settings' = settings
      BY <1>1, <1>8 DEF PruneNext
    <2>2. runner[r].old \ {m} \in SUBSET Nat
      BY <1>0, Alone
    <2>3. QED
      BY <1>0, <1>2, <1>3, <1>5, <1>6, <2>1, <2>2, GoesOn
  <1>9. QED
    BY <1>7, <1>8

LEMMA PruneFailsStep ==
    ASSUME SnapInv, NEW r \in Runner, PruneFails(r)
    PROVE  SnapInv'
  <1>0. AtWork(r) /\ runner[r].step \in Pruning /\ snapshots' = snapshots
    BY DEF PruneFails, AtWork, Pruning
  <1>1. PICK m \in PrunedNext(r) :
           files' \in {files, Unsent(r, m, IF runner[r].step = "oldManifest" THEN "manifest" ELSE "archive")}
    BY DEF PruneFails
  <1>2. files' \subseteq Copies
    BY <1>1, FilesAndRows DEF Unsent
  <1>3. ManifestHasArchive' /\ NewestWhole'
    <2>1. CASE files' = files
      BY <1>0, <2>1 DEF SnapInv, SnapshotsSafe, ManifestHasArchive, NewestWhole
    <2>2. CASE runner[r].step = "oldManifest" /\ files' = Unsent(r, m, "manifest")
      BY <1>0, <2>2, ArchivesStay, NewestStays DEF NewestWhole
    <2>3. CASE runner[r].step = "oldArchive" /\ files' = Unsent(r, m, "archive")
      BY <1>0, <2>3, ArchivesStay, NewestStays DEF NewestWhole
    <2>4. QED
      BY <1>0, <1>1, <2>1, <2>2, <2>3 DEF Pruning
  <1>4. QED
    BY <1>0, <1>2, <1>3, FilesAndRows, FinishStep DEF PruneFails

-----------------------------------------------------------------------------
LEMMA SnapStep == SnapInv /\ [SnapNext]_snapVars => SnapInv'
  <1> SUFFICES ASSUME SnapInv, [SnapNext]_snapVars PROVE SnapInv'
    OBVIOUS
  <1>1. CASE UNCHANGED snapVars
    BY <1>1 DEF snapVars, SnapInv, SnapshotsSafe, SnapTypeOK, OneAtATime, ManifestHasArchive, NewestWhole,
                RunnersInv, StepsInv, AtWork, PrunedNext
  <1>2. ASSUME NEW on \in BOOLEAN, NEW a \in Account \cup {NoAccount}, NEW n \in Retain, Save(on, a, n)
        PROVE  SnapInv'
    BY <1>2, SaveStep
  <1>3. ASSUME NEW a \in Account, UnlinkSnapshotAccount(a) PROVE SnapInv'
    BY <1>3, UnlinkStep
  <1>4. CASE FallsDue
    BY <1>4 DEF FallsDue, SnapInv, SnapshotsSafe, SnapTypeOK, OneAtATime, ManifestHasArchive, NewestWhole,
                RunnersInv, StepsInv, AtWork, PrunedNext
  <1>5. CASE RunIfDue
    BY <1>5, ExecuteStep DEF RunIfDue, Runner
  <1>6. CASE StartNow
    BY <1>6, ExecuteStep DEF StartNow, Runner, SnapInv, SnapshotsSafe, SnapTypeOK
  <1>7. CASE Restart
    BY <1>7, RestartStep
  <1>8. ASSUME NEW r \in Runner, Works(r) PROVE SnapInv'
    BY <1>8, ArchiveWrittenStep, ArchiveSentStep, ManifestSentStep, SnapshotFailsStep,
       OldManifestDeletedStep, OldArchiveDeletedStep, PruneFailsStep DEF Works
  <1>9. QED
    BY <1>1, <1>2, <1>3, <1>4, <1>5, <1>6, <1>7, <1>8 DEF SnapNext

\* Two executions never overlap, no destination holds a manifest without its
\* archive, and the newest snapshot on record can be restored, whatever is
\* saved, unlinked, interrupted or fails (db-snapshot-service.ts).
THEOREM SnapshotsAreSafe == SnapSpec => []SnapshotsSafe
  <1>1. SnapInv => SnapshotsSafe
    BY DEF SnapInv
  <1>2. QED
    BY <1>1, SnapInitInv, SnapStep, PTL DEF SnapSpec

=============================================================================
