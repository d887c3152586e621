---------------------------- MODULE ProjectProofs ----------------------------
(*************************************************************************)
(* What holds of what is kept of a project between runs of its tools, for*)
(* every value of the constants: how its database is opened and migrated,*)
(* the pinned definitions of an MCP server's tools, the configs, and the *)
(* findings that are open.                                               *)
(*************************************************************************)
EXTENDS CarryForward, ConfigRefresh, ToolPins, Opening, FiniteSetsExt, FiniteSetTheorems, TLAPS

-----------------------------------------------------------------------------
(*************************************************************************)
(* Finite sets of numbers have a least and a greatest element.           *)
(*************************************************************************)

\* A finite set of numbers that is not empty has a least one and a greatest.
LEMMA LeastOfFinite ==
  ASSUME NEW S \in SUBSET Int, IsFiniteSet(S), S # {}
  PROVE  \E x \in S : \A y \in S : x <= y
  <1> DEFINE Below(x) == {y \in S : y < x}
             T == {Below(x) : x \in S}
  <1>1. IsWellFoundedOn(StrictSubsetOrdering(S), FiniteSubsetsOf(S))
    BY FS_StrictSubsetOrderingWellFounded
  <1>2. T \subseteq FiniteSubsetsOf(S)
    BY FS_Subset DEF FiniteSubsetsOf
  <1>3. T # {}
    OBVIOUS
  <1> HIDE DEF T
  <1>4. PICK b \in T : \A c \in T : <<c, b>> \notin StrictSubsetOrdering(S)
    BY <1>1, <1>2, <1>3, WFMin
  <1> USE DEF T
  <1>5. PICK x \in S : b = Below(x)
    OBVIOUS
  <1>6. ASSUME NEW y \in S, y < x PROVE FALSE
    <2>1. Below(y) \subseteq Below(x) /\ y \in Below(x) /\ y \notin Below(y)
      <3>1. y \in Int /\ x \in Int /\ \A z \in S : z \in Int /\ (z < y => z < x)
        BY <1>6
      <3>2. ~(y < y)
        BY <3>1
      <3>3. QED
        BY <1>6, <3>1, <3>2
    <2>2. PICK a : a = Below(y)
      OBVIOUS
    <2>3. a \in T /\ a \subseteq b /\ a # b /\ a \in SUBSET S /\ b \in SUBSET S
      <3>1. a \in T
        BY <2>2
      <3>2. a \in SUBSET S /\ b \in SUBSET S
        BY <1>5, <2>2
      <3> HIDE DEF Below, T
      <3>3. a \subseteq b /\ a # b
        BY <1>5, <2>1, <2>2
      <3>4. QED
        BY <3>1, <3>2, <3>3
    <2>4. <<a, b>> \in StrictSubsetOrdering(S)
      BY <2>3 DEF StrictSubsetOrdering
    <2>5. QED
      BY <1>4, <2>3, <2>4
  <1>7. QED
    BY <1>6

\* Mirrored, there is a greatest one.
LEMMA GreatestOfFinite ==
  ASSUME NEW S \in SUBSET Int, IsFiniteSet(S), S # {}
  PROVE  \E x \in S : \A y \in S : x >= y
  <1> DEFINE Above(x) == {y \in S : y > x}
             T == {Above(x) : x \in S}
  <1>1. IsWellFoundedOn(StrictSubsetOrdering(S), FiniteSubsetsOf(S))
    BY FS_StrictSubsetOrderingWellFounded
  <1>2. T \subseteq FiniteSubsetsOf(S)
    BY FS_Subset DEF FiniteSubsetsOf
  <1>3. T # {}
    OBVIOUS
  <1> HIDE DEF T
  <1>4. PICK b \in T : \A c \in T : <<c, b>> \notin StrictSubsetOrdering(S)
    BY <1>1, <1>2, <1>3, WFMin
  <1> USE DEF T
  <1>5. PICK x \in S : b = Above(x)
    OBVIOUS
  <1>6. ASSUME NEW y \in S, y > x PROVE FALSE
    <2>1. Above(y) \subseteq Above(x) /\ y \in Above(x) /\ y \notin Above(y)
      <3>1. y \in Int /\ x \in Int /\ \A z \in S : z \in Int /\ (z > y => z > x)
        BY <1>6
      <3>2. ~(y > y)
        BY <3>1
      <3>3. QED
        BY <1>6, <3>1, <3>2
    <2>2. PICK a : a = Above(y)
      OBVIOUS
    <2>3. a \in T /\ a \subseteq b /\ a # b /\ a \in SUBSET S /\ b \in SUBSET S
      <3>1. a \in T
        BY <2>2
      <3>2. a \in SUBSET S /\ b \in SUBSET S
        BY <1>5, <2>2
      <3> HIDE DEF Above, T
      <3>3. a \subseteq b /\ a # b
        BY <1>5, <2>1, <2>2
      <3>4. QED
        BY <3>1, <3>2, <3>3
    <2>4. <<a, b>> \in StrictSubsetOrdering(S)
      BY <2>3 DEF StrictSubsetOrdering
    <2>5. QED
      BY <1>4, <2>3, <2>4
  <1>7. QED
    BY <1>6

-----------------------------------------------------------------------------
(*************************************************************************)
(* Opening the database: who opens it is registered as its own, and no   *)
(* migration runs twice.                                                 *)
(*************************************************************************)

\* Ids are minted once. A process that is yet to claim the database has an id
\* that is not the database's, and a registered one when it claims; the
\* database's own stays registered.
IdsAreOwn ==
  /\ id \in {NoId, Stranger} \/ id \in registry
  /\ \A p \in Openers : At(p, "claim") => opener[p].mine \in registry
  /\ \A p, q \in Openers : p # q /\ opener[p].mine = opener[q].mine => At(p, "idle") \/ At(q, "idle")
  /\ \A p \in Openers :
       /\ At(p, "idle") <=> opener[p].mine = 0
       /\ opener[p].phase \in {"register", "claim"} \/ (opener[p].adopts /\ ~At(p, "open")) =>
            id # opener[p].mine
       /\ ~At(p, "disowned")

\* While nothing is recorded, the database is new or of the branches.
AsFound ==
  recorded = {} =>
    /\ mark = 0 \/ \E w \in Probed : mark <= w
    /\ has \in OfBranches(mark)
    /\ ran = [v \in Versions |-> IF has[v] = "none" THEN 0 ELSE 1]

\* A migration that changes rows has not run yet, if the set tells.
NotYetRun ==
  \A v \in (Versions \cap DataSteps) \ recorded : ran[v] = 0 \/ (recorded = {} /\ v <= mark)

\* What a newer build left is told by what is recorded.
ObjectsAreTold == \A v \in Versions : has[v] # "none" => v \in recorded \/ v <= mark

\* Past the backfill, an empty set tells that nothing but the probed ran.
BackfillIsDone ==
  \A p \in Openers : opener[p].phase \in {"applied", "apply"} /\ recorded = {} =>
    \A v \in Versions : v <= mark => v \in Probed

\* What a process is not to run is recorded.
RestIsRecorded ==
  \A p \in Openers :
    /\ At(p, "apply") => opener[p].todo \subseteq Ships[p] /\ Ships[p] \ opener[p].todo \subseteq recorded
    /\ ~At(p, "incomplete")

\* Objects of a newer build that a process did not expect came after it read.
UnexpectedRaced ==
  \A p \in Openers :
    /\ At(p, "schema") /\ ~opener[p].newer /\ Unknown(p) # {} => opener[p].raced
    /\ At(p, "refused") => opener[p].raced

OpeningIInv ==
  /\ OpeningTypeOK /\ IdsAreOwn /\ AsFound /\ NotYetRun /\ ObjectsAreTold /\ BackfillIsDone
  /\ RestIsRecorded /\ UnexpectedRaced /\ RecordedRanOnce

----------------------------------------------------------------------------
\* The greatest and the least of what a build ships, or is to run.
LEMMA MaxOfFinite ==
  ASSUME NEW S \in SUBSET Int, IsFiniteSet(S), S # {}
  PROVE  Max(S) \in S /\ \A y \in S : Max(S) >= y
  BY GreatestOfFinite DEF Max

\* Min picks the least.
LEMMA MinOfFinite ==
  ASSUME NEW S \in SUBSET Int, IsFiniteSet(S), S # {}
  PROVE  Min(S) \in S
  BY LeastOfFinite DEF Min

\* Max of two numbers.
LEMMA MaxOfTwo ==
  ASSUME NEW a \in Int, NEW b \in Int
  PROVE  Max({a, b}) = IF a >= b THEN a ELSE b
  <1> DEFINE m == IF a >= b THEN a ELSE b
  <1>1. m \in {a, b} /\ \A y \in {a, b} : m >= y
    OBVIOUS
  <1>2. ASSUME NEW x \in {a, b}, \A y \in {a, b} : x >= y PROVE x = m
    BY <1>2
  <1> HIDE DEF m
  <1>3. Max({a, b}) = m
    BY <1>1, <1>2 DEF Max
  <1>4. QED
    BY <1>3 DEF m

\* What a build does not ship is newer than all it ships.
LEMMA ShipsFacts ==
  ASSUME ShipsAssumption, NEW p \in Openers
  PROVE  /\ Versions \subseteq Nat \ {0} /\ Ships[p] \subseteq Versions /\ IsFiniteSet(Ships[p])
         /\ \A v \in Versions \ Ships[p] : v > Max(Ships[p])
         /\ \A v \in Versions, w \in Probed : v <= w => v \in Ships[p]
  <1>1. Versions \subseteq Nat \ {0} /\ Ships[p] \subseteq Versions /\ Ships[p] \subseteq Int
    BY DEF ShipsAssumption, Versions
  <1>2. IsFiniteSet(Ships[p]) /\ Ships[p] # {}
    BY DEF ShipsAssumption
  <1>3. Max(Ships[p]) \in Ships[p]
    BY <1>1, <1>2, MaxOfFinite
  <1>4. QED
    BY <1>1, <1>2, <1>3 DEF ShipsAssumption

\* No process has opened the database.
LEMMA InitOpeningIInv == ASSUME ShipsAssumption PROVE OpeningInit => OpeningIInv
  <1> SUFFICES ASSUME OpeningInit PROVE OpeningIInv
    OBVIOUS
  <1>0. Versions \subseteq Nat \ {0} /\ Probed \subseteq Nat
    BY DEF ShipsAssumption, Versions
  <1>1. /\ registry = {} /\ recorded = {} /\ opens = 0 /\ opener = [p \in Openers |-> NotOpening]
        /\ ran = [v \in Versions |-> IF has[v] = "none" THEN 0 ELSE 1]
        /\ exists \in BOOLEAN /\ id \in {NoId, Stranger}
    BY DEF OpeningInit
  <1>2. /\ mark \in Versions \cup {0} /\ has \in OfBranches(mark)
        /\ mark = 0 \/ \E w \in Probed : mark <= w
    <2>1. CASE exists = FALSE /\ mark = 0 /\ has = [v \in Versions |-> "none"]
      BY <1>0, <2>1 DEF OfBranches
    <2>2. CASE exists = TRUE /\ mark \in {v \in Versions : \E w \in Probed : v <= w} /\ has \in OfBranches(mark)
      BY <2>2
    <2>3. QED
      BY <2>1, <2>2 DEF OpeningInit
  <1>3. has \in [Versions -> {"none", "part", "whole"}] /\ \A v \in Versions : v > mark => has[v] = "none"
    BY <1>2 DEF OfBranches
  <1>4. OpeningTypeOK
    BY <1>1, <1>2, <1>3 DEF OpeningTypeOK, NotOpening
  <1>5. \A p \in Openers : opener[p].phase = "idle" /\ opener[p].mine = 0 /\ ~opener[p].adopts
    BY <1>1 DEF NotOpening
  <1>6. IdsAreOwn /\ BackfillIsDone /\ RestIsRecorded /\ UnexpectedRaced /\ RecordedRanOnce
    BY <1>1, <1>5 DEF IdsAreOwn, BackfillIsDone, RestIsRecorded, UnexpectedRaced, RecordedRanOnce, At
  <1>7. AsFound
    BY <1>1, <1>2 DEF AsFound
  <1>8. NotYetRun /\ ObjectsAreTold
    BY <1>0, <1>1, <1>2, <1>3 DEF NotYetRun, ObjectsAreTold
  <1>9. QED
    BY <1>4, <1>6, <1>7, <1>8 DEF OpeningIInv

\* What a process's step to another phase leaves as it was.
LEMMA GoesFacts ==
  ASSUME OpeningTypeOK, NEW p \in Openers, NEW phase, Goes(p, phase)
  PROVE  /\ opener'[p] = [opener[p] EXCEPT !.phase = phase] /\ opener'[p].phase = phase
         /\ opener'[p].mine = opener[p].mine /\ opener'[p].adopts = opener[p].adopts
         /\ opener'[p].newer = opener[p].newer /\ opener'[p].todo = opener[p].todo
         /\ opener'[p].raced = opener[p].raced
         /\ \A q \in Openers \ {p} : opener'[q] = opener[q]
         /\ DOMAIN opener' = Openers
  BY DEF OpeningTypeOK, Goes

OpenerStates(n) ==
  [phase : {"idle", "register", "claim", "newer", "schema", "migrate", "backfill",
            "applied", "apply", "open", "refused", "foreign", "disowned", "incomplete"},
   adopts : BOOLEAN, mine : 0 .. n, newer : BOOLEAN, todo : SUBSET Versions, raced : BOOLEAN]

\* The next migration is one of those that the process is to run.
LEMMA NextMigration ==
  ASSUME ShipsAssumption, OpeningTypeOK, RestIsRecorded, NEW p \in Openers, Migrate(p)
  PROVE  LET v == Min(opener[p].todo) IN v \in opener[p].todo /\ v \in Ships[p] /\ v \in Versions
  <1>1. opener[p].todo \subseteq Ships[p] /\ opener[p].todo # {}
    BY DEF Migrate, RestIsRecorded
  <1>2. Ships[p] \subseteq Versions /\ Versions \subseteq Nat /\ IsFiniteSet(Ships[p])
    BY ShipsFacts
  <1>3. opener[p].todo \in SUBSET Int /\ IsFiniteSet(opener[p].todo)
    <2>1. opener[p].todo \in SUBSET Ships[p] /\ Versions \subseteq Int
      BY <1>1, <1>2
    <2>2. IsFiniteSet(opener[p].todo)
      BY <1>2, <2>1, FS_Subset
    <2>3. QED
      BY <1>2, <2>1, <2>2
  <1>4. QED
    BY <1>1, <1>2, <1>3, MinOfFinite

\* Every step of a process keeps the types.
LEMMA OpeningTypeStep ==
  ASSUME ShipsAssumption, OpeningTypeOK, IdsAreOwn, RestIsRecorded, NEW p \in Openers,
         \/ Open(p) \/ AdoptDatabase(p) \/ Register(p) \/ Claim(p) \/ ReadNewer(p) \/ ReadSchema(p)
         \/ ReadMark(p) \/ Backfill(p) \/ ReadApplied(p) \/ Migrate(p) \/ Complete(p) \/ LeaveDatabase(p)
  PROVE  OpeningTypeOK'
  <1>0. /\ opener \in [Openers -> OpenerStates(opens)] /\ opens \in Nat /\ Versions \subseteq Nat \ {0}
        /\ Ships[p] \subseteq Versions /\ opener[p] \in OpenerStates(opens)
        /\ IsFiniteSet(Ships[p])
    BY ShipsFacts DEF OpeningTypeOK, OpenerStates
  <1>1. ASSUME opens' \in Nat, opener' \in [Openers -> OpenerStates(opens')],
               exists' \in BOOLEAN, id' \in {NoId, Stranger} \cup 1 .. opens', registry' \subseteq 1 .. opens',
               has' \in [Versions -> {"none", "part", "whole"}], ran' \in [Versions -> Nat],
               recorded' \subseteq Versions, mark' \in Versions \cup {0}
        PROVE  OpeningTypeOK'
    BY <1>1 DEF OpeningTypeOK, OpenerStates
  <1>2. CASE Open(p) \/ AdoptDatabase(p)
    <2>1. opens' = opens + 1 /\ opens' \in Nat /\ UNCHANGED database
      BY <1>0, <1>2 DEF Open, AdoptDatabase
    <2>2. OpenerStates(opens) \subseteq OpenerStates(opens')
      BY <1>0, <2>1 DEF OpenerStates
    <2>3. NotOpening \in OpenerStates(opens')
      BY <1>0, <2>1 DEF NotOpening, OpenerStates
    <2>4. PICK r \in OpenerStates(opens') : opener' = [opener EXCEPT ![p] = r]
      <3>1. CASE Open(p)
        <4>1. [NotOpening EXCEPT !.phase = Judgement, !.mine = opens + 1] \in OpenerStates(opens')
          <5>1. Judgement \in {"register", "newer", "foreign", "disowned"} /\ opens + 1 \in 0 .. opens'
            BY <1>0, <2>1 DEF Judgement
          <5>2. QED
            BY <2>3, <5>1 DEF OpenerStates
        <4>2. QED
          BY <3>1, <4>1 DEF Open
      <3>2. CASE AdoptDatabase(p)
        <4>1. [NotOpening EXCEPT !.phase = "newer", !.adopts = TRUE, !.mine = opens + 1] \in OpenerStates(opens')
          <5>1. opens + 1 \in 0 .. opens'
            BY <1>0, <2>1
          <5>2. QED
            BY <2>3, <5>1 DEF OpenerStates
        <4>2. QED
          BY <3>2, <4>1 DEF AdoptDatabase
      <3>3. QED
        BY <1>2, <3>1, <3>2
    <2>5. opener' \in [Openers -> OpenerStates(opens')]
      BY <1>0, <2>2, <2>4
    <2>6. id \in {NoId, Stranger} \cup 1 .. opens' /\ registry \subseteq 1 .. opens'
      BY <1>0, <2>1 DEF OpeningTypeOK
    <2>7. QED
      BY <1>1, <2>1, <2>5, <2>6 DEF database, OpeningTypeOK
  <1>3. ASSUME NEW phase \in {"register", "claim", "newer", "schema", "migrate", "backfill",
                              "applied", "apply", "open", "refused", "incomplete"}, Goes(p, phase)
        PROVE  opener' \in [Openers -> OpenerStates(opens)]
    BY <1>0, <1>3 DEF Goes, OpenerStates
  <1>4. CASE Register(p) \/ Claim(p)
    <2>1. opener' \in [Openers -> OpenerStates(opens)]
      BY <1>3, <1>4 DEF Register, Claim
    <2>2. opener[p].mine \in 1 .. opens
      BY <1>0, <1>4 DEF OpenerStates, IdsAreOwn, Register, Claim, At
    <2>3. /\ registry' \subseteq 1 .. opens /\ id' \in {NoId, Stranger} \cup 1 .. opens /\ exists' \in BOOLEAN
          /\ UNCHANGED <<has, ran, recorded, mark, opens>>
      BY <1>4, <2>2 DEF Register, Claim, OpeningTypeOK
    <2>4. QED
      BY <1>0, <1>1, <2>1, <2>3 DEF OpeningTypeOK
  <1>5. CASE ReadNewer(p)
    <2>1. opener' \in [Openers -> OpenerStates(opens)]
      BY <1>0, <1>5 DEF ReadNewer, RecordsNewer, OpenerStates
    <2>2. QED
      BY <1>0, <1>1, <1>5, <2>1 DEF ReadNewer, database, OpeningTypeOK
  <1>6. CASE ReadSchema(p) \/ ReadMark(p) \/ Complete(p)
    <2>1. opener' \in [Openers -> OpenerStates(opens)] /\ UNCHANGED <<database, opens>>
      BY <1>3, <1>6 DEF ReadSchema, ReadMark, Complete
    <2>2. QED
      BY <1>0, <1>1, <1>6, <2>1 DEF database, OpeningTypeOK
  <1>7. CASE Backfill(p)
    <2>1. opener' \in [Openers -> OpenerStates(opens)]
      BY <1>3, <1>7 DEF Backfill
    <2>2. recorded' \subseteq Versions
      BY <1>0, <1>7 DEF Backfill, OpeningTypeOK
    <2>3. QED
      BY <1>0, <1>1, <1>7, <2>1, <2>2 DEF Backfill, OpeningTypeOK
  <1>8. CASE ReadApplied(p)
    <2>1. Ships[p] \ recorded \in SUBSET Versions
      BY <1>0
    <2>2. opener' \in [Openers -> OpenerStates(opens)]
      BY <1>0, <1>8, <2>1 DEF ReadApplied, OpenerStates
    <2>3. QED
      BY <1>0, <1>1, <1>8, <2>2 DEF ReadApplied, database, OpeningTypeOK
  <1>9. CASE Migrate(p)
    <2> DEFINE v == Min(opener[p].todo)
    <2>1. v \in Versions /\ v \in opener[p].todo
      BY <1>9, NextMigration DEF OpeningTypeOK
    <2> HIDE DEF v
    <2>2. opener' = [q \in Openers |->
              IF q = p THEN [opener[p] EXCEPT !.todo = @ \ {v}]
              ELSE [opener[q] EXCEPT !.raced = @ \/ (At(q, "schema") /\ v \notin Ships[q])]]
      BY <1>9 DEF Migrate, v
    <2>3. ASSUME NEW q \in Openers PROVE opener'[q] \in OpenerStates(opens)
      <3>0. opener[q] \in OpenerStates(opens)
        BY <1>0
      <3>1. CASE q = p
        <4>1. opener'[q] = [phase |-> opener[q].phase, adopts |-> opener[q].adopts, mine |-> opener[q].mine,
                            newer |-> opener[q].newer, todo |-> opener[q].todo \ {v}, raced |-> opener[q].raced]
          BY <2>2, <3>0, <3>1 DEF OpenerStates
        <4>2. QED
          BY <3>0, <4>1 DEF OpenerStates
      <3>2. CASE q # p
        <4>1. PICK b \in BOOLEAN : b = (opener[q].raced \/ (At(q, "schema") /\ v \notin Ships[q]))
          OBVIOUS
        <4>2. opener'[q] = [opener[q] EXCEPT !.raced = b]
          BY <2>2, <3>2, <4>1
        <4>3. opener'[q] = [phase |-> opener[q].phase, adopts |-> opener[q].adopts, mine |-> opener[q].mine,
                            newer |-> opener[q].newer, todo |-> opener[q].todo, raced |-> b]
          BY <3>0, <4>2 DEF OpenerStates
        <4>4. QED
          BY <3>0, <4>3 DEF OpenerStates
      <3>3. QED
        BY <3>1, <3>2
    <2>4. opener' \in [Openers -> OpenerStates(opens)]
      BY <2>2, <2>3
    <2>5. /\ Apply(v) /\ UNCHANGED <<exists, id, registry, opens>>
      BY <1>9 DEF Migrate, v
    <2>6. /\ has' \in [Versions -> {"none", "part", "whole"}] /\ ran' \in [Versions -> Nat]
          /\ recorded' \subseteq Versions /\ mark' \in Versions \cup {0}
      <3>1. CASE v \in recorded
        BY <2>5, <3>1 DEF Apply, OpeningTypeOK
      <3>2. CASE v \notin recorded
        <4>1. mark' \in {mark, v}
          <5>1. mark \in Int /\ v \in Int
            <6>1. mark \in Versions \cup {0}
              BY DEF OpeningTypeOK
            <6>2. Versions \cup {0} \subseteq Int
              BY <1>0
            <6>3. QED
              BY <2>1, <6>1, <6>2
          <5>2. QED
            BY <2>5, <3>2, <5>1, MaxOfTwo DEF Apply, RunMigration
        <4>2. QED
          BY <2>1, <2>5, <3>2, <4>1 DEF Apply, RunMigration, OpeningTypeOK
      <3>3. QED
        BY <3>1, <3>2
    <2>7. QED
      BY <1>0, <1>1, <2>4, <2>5, <2>6 DEF OpeningTypeOK
  <1>10. CASE LeaveDatabase(p)
    <2>1. NotOpening \in OpenerStates(opens)
      BY <1>0 DEF NotOpening, OpenerStates
    <2>2. opener' \in [Openers -> OpenerStates(opens)]
      BY <1>0, <1>10, <2>1 DEF LeaveDatabase
    <2>3. QED
      BY <1>0, <1>1, <1>10, <2>2 DEF LeaveDatabase, OpeningTypeOK
  <1>11. QED
    BY <1>2, <1>4, <1>5, <1>6, <1>7, <1>8, <1>9, <1>10

\* A step to another phase, in which no process claims the database.
LEMMA IdsFrame ==
  ASSUME IdsAreOwn, UNCHANGED <<id, registry>>,
         \A q \in Openers :
           /\ opener'[q].mine = opener[q].mine /\ opener'[q].adopts = opener[q].adopts
           /\ \/ opener'[q].phase = opener[q].phase
              \/ /\ opener[q].phase \notin {"idle", "open"}
                 /\ opener'[q].phase \notin {"idle", "claim", "disowned"}
                 /\ opener'[q].phase = "register" => opener[q].adopts
  PROVE  IdsAreOwn'
  BY DEF IdsAreOwn, At

\* A process mints an id that is new.
LEMMA MintIds ==
  ASSUME ShipsAssumption, OpeningTypeOK, IdsAreOwn, NEW p \in Openers, Open(p) \/ AdoptDatabase(p)
  PROVE  IdsAreOwn'
  <1>1. /\ opener[p].phase = "idle" /\ UNCHANGED <<id, registry>> /\ opens \in Nat
        /\ \A q \in Openers : opener[q].mine \in 0 .. opens
        /\ id \in {NoId, Stranger} \cup 1 .. opens
    BY DEF Open, AdoptDatabase, database, OpeningTypeOK, At
  <1>2. /\ opener'[p].mine = opens + 1 /\ opener'[p].phase \in {"register", "newer", "foreign", "disowned"}
        /\ opener'[p].phase # "disowned"
        /\ \A q \in Openers \ {p} : opener'[q] = opener[q]
    <2>1. CASE Open(p)
      <3>1. opener' = [opener EXCEPT ![p] = [NotOpening EXCEPT !.phase = Judgement, !.mine = opens + 1]]
        BY <2>1 DEF Open
      <3>2. Judgement \in {"register", "newer", "foreign"}
        BY DEF Judgement, IdsAreOwn
      <3>3. QED
        BY <3>1, <3>2 DEF NotOpening, OpeningTypeOK
    <2>2. CASE AdoptDatabase(p)
      BY <2>2 DEF AdoptDatabase, NotOpening, OpeningTypeOK
    <2>3. QED
      BY <2>1, <2>2
  <1>3. opens + 1 # id /\ opens + 1 # 0 /\ \A q \in Openers : opener[q].mine # opens + 1
    BY <1>1 DEF ShipsAssumption
  <1>4. \A q, r \in Openers : q # r /\ opener'[q].mine = opener'[r].mine => opener'[q].phase = "idle" \/ opener'[r].phase = "idle"
    BY <1>2, <1>3 DEF IdsAreOwn, At
  <1>5. \A q \in Openers : opener'[q].phase = "idle" <=> opener'[q].mine = 0
    BY <1>1, <1>2, <1>3 DEF IdsAreOwn, At
  <1>6. \A q \in Openers :
          /\ opener'[q].phase \in {"register", "claim"} \/ (opener'[q].adopts /\ opener'[q].phase # "open") => id # opener'[q].mine
          /\ opener'[q].phase # "disowned"
          /\ opener'[q].phase = "claim" => opener'[q].mine \in registry
    BY <1>1, <1>2, <1>3 DEF IdsAreOwn, At
  <1>7. QED
    BY <1>1, <1>4, <1>5, <1>6 DEF IdsAreOwn, At

\* An id that a process claims is registered, and no other process forgets it.
LEMMA ClaimIds ==
  ASSUME OpeningTypeOK, IdsAreOwn, NEW p \in Openers, Register(p) \/ Claim(p) \/ LeaveDatabase(p)
  PROVE  IdsAreOwn'
  <1> DEFINE mine == opener[p].mine
  <1>1. CASE Register(p)
    <2>1. /\ opener[p].phase = "register" /\ registry' = registry \cup {mine} /\ id' = id
          /\ Goes(p, "claim")
      BY <1>1 DEF Register, At
    <2>2. /\ opener'[p].phase = "claim" /\ opener'[p].mine = mine
          /\ \A q \in Openers \ {p} : opener'[q] = opener[q]
      BY <2>1, GoesFacts
    <2>3. \A q \in Openers : opener'[q].mine = opener[q].mine /\ (opener'[q].phase = "idle" <=> opener[q].phase = "idle")
      BY <2>1, <2>2
    <2>4. id' \in {NoId, Stranger} \/ id' \in registry'
      BY <2>1 DEF IdsAreOwn
    <2>5. \A q \in Openers : opener'[q].phase = "claim" => opener'[q].mine \in registry'
      BY <2>1, <2>2 DEF IdsAreOwn, At
    <2>6. \A q, r \in Openers : q # r /\ opener'[q].mine = opener'[r].mine => opener'[q].phase = "idle" \/ opener'[r].phase = "idle"
      BY <2>3 DEF IdsAreOwn, At
    <2>7. \A q \in Openers :
            /\ (opener'[q].phase = "idle" <=> opener'[q].mine = 0) /\ opener'[q].phase # "disowned"
            /\ opener'[q].phase \in {"register", "claim"} \/ (opener'[q].adopts /\ opener'[q].phase # "open")
                 => id' # opener'[q].mine
      BY <2>1, <2>2, <2>3 DEF IdsAreOwn, At
    <2>8. QED
      BY <2>4, <2>5, <2>6, <2>7 DEF IdsAreOwn, At
  <1>2. CASE Claim(p)
    <2>1. /\ opener[p].phase = "claim" /\ mine \in registry /\ id # mine
          /\ id' \in {id, mine} /\ registry \ {mine} \subseteq registry'
          /\ id' = id => registry' = registry \ {mine}
          /\ id' = mine => registry' = registry
          /\ id' = id => id \in registry
      BY <1>2 DEF Claim, IdsAreOwn, At
    <2>2. /\ opener'[p].mine = mine /\ opener'[p].adopts = opener[p].adopts
          /\ opener'[p].phase \in {"open", "newer"}
          /\ opener'[p].phase = "newer" => ~opener[p].adopts
          /\ \A q \in Openers \ {p} : opener'[q] = opener[q]
      <3>1. PICK phase : phase = IF opener[p].adopts THEN "open" ELSE "newer"
        OBVIOUS
      <3>2. Goes(p, phase)
        BY <1>2, <3>1 DEF Claim, Goes
      <3>3. /\ opener'[p].phase = phase /\ opener'[p].mine = mine /\ opener'[p].adopts = opener[p].adopts
            /\ \A q \in Openers \ {p} : opener'[q] = opener[q]
        BY <3>2, GoesFacts
      <3>4. phase \in {"open", "newer"} /\ (phase = "newer" => ~opener[p].adopts)
        BY <3>1
      <3>5. QED
        BY <3>3, <3>4
    <2>3. \A q \in Openers \ {p} : opener[q].phase # "idle" => opener[q].mine # mine
      BY <2>1 DEF IdsAreOwn, At
    <2>4. id' \in registry'
      BY <2>1
    <2>5. \A q \in Openers : opener'[q].phase = "claim" => opener'[q].mine \in registry'
      BY <2>1, <2>2, <2>3 DEF IdsAreOwn, At
    <2>6. \A q, r \in Openers : q # r /\ opener'[q].mine = opener'[r].mine => opener'[q].phase = "idle" \/ opener'[r].phase = "idle"
      BY <2>1, <2>2, <2>3 DEF IdsAreOwn, At
    <2>7. \A q \in Openers : (opener'[q].phase = "idle" <=> opener'[q].mine = 0) /\ opener'[q].phase # "disowned"
      BY <2>1, <2>2 DEF IdsAreOwn, At
    <2>8. ASSUME NEW q \in Openers,
                 opener'[q].phase \in {"register", "claim"} \/ (opener'[q].adopts /\ opener'[q].phase # "open")
          PROVE  id' # opener'[q].mine
      <3>1. CASE q = p
        BY <2>2, <2>8, <3>1
      <3>2. CASE q # p /\ opener[q].phase # "idle"
        BY <2>1, <2>2, <2>3, <2>8, <3>2 DEF IdsAreOwn, At
      <3>3. CASE q # p /\ opener[q].phase = "idle"
        <4>1. opener'[q].mine = 0 /\ mine # 0 /\ id # opener[q].mine
          BY <2>1, <2>2, <2>8, <3>3 DEF IdsAreOwn, At
        <4>2. QED
          BY <2>1, <2>2, <3>3, <4>1
      <3>4. QED
        BY <3>1, <3>2, <3>3
    <2>9. QED
      BY <2>4, <2>5, <2>6, <2>7, <2>8 DEF IdsAreOwn, At
  <1>3. CASE LeaveDatabase(p)
    <2>1. /\ opener[p].phase # "idle" /\ opener'[p] = NotOpening /\ id' = id
          /\ \A q \in Openers \ {p} : opener'[q] = opener[q]
          /\ registry' = registry \/ (opener[p].phase = "claim" /\ registry' = registry \ {mine})
      BY <1>3 DEF LeaveDatabase, At, OpeningTypeOK
    <2>2. \A q \in Openers \ {p} : opener[q].phase # "idle" => opener[q].mine # mine
      BY <2>1 DEF IdsAreOwn, At
    <2>3. NotOpening.phase = "idle" /\ NotOpening.mine = 0 /\ NotOpening.adopts = FALSE
      BY DEF NotOpening
    <2>4. id' \in {NoId, Stranger} \/ id' \in registry'
      BY <2>1 DEF IdsAreOwn, At
    <2>5. \A q \in Openers : opener'[q].phase = "claim" => opener'[q].mine \in registry'
      BY <2>1, <2>2, <2>3 DEF IdsAreOwn, At
    <2>6. \A q, r \in Openers : q # r /\ opener'[q].mine = opener'[r].mine => opener'[q].phase = "idle" \/ opener'[r].phase = "idle"
      BY <2>1, <2>2, <2>3 DEF IdsAreOwn, At
    <2>7. \A q \in Openers :
            /\ (opener'[q].phase = "idle" <=> opener'[q].mine = 0) /\ opener'[q].phase # "disowned"
            /\ opener'[q].phase \in {"register", "claim"} \/ (opener'[q].adopts /\ opener'[q].phase # "open")
                 => id' # opener'[q].mine
      BY <2>1, <2>3 DEF IdsAreOwn, At
    <2>8. QED
      BY <2>4, <2>5, <2>6, <2>7 DEF IdsAreOwn, At
  <1>4. QED
    BY <1>1, <1>2, <1>3

\* No other step touches an id.
LEMMA IdsStep ==
  ASSUME ShipsAssumption, OpeningTypeOK, IdsAreOwn, NEW p \in Openers,
         \/ Open(p) \/ AdoptDatabase(p) \/ Register(p) \/ Claim(p) \/ ReadNewer(p) \/ ReadSchema(p)
         \/ ReadMark(p) \/ Backfill(p) \/ ReadApplied(p) \/ Migrate(p) \/ Complete(p) \/ LeaveDatabase(p)
  PROVE  IdsAreOwn'
  <1>1. CASE Open(p) \/ AdoptDatabase(p)
    BY <1>1, MintIds
  <1>2. CASE Register(p) \/ Claim(p) \/ LeaveDatabase(p)
    BY <1>2, ClaimIds
  <1>3. ASSUME NEW phase \in {"schema", "refused", "migrate", "backfill", "applied", "incomplete", "register", "open"},
               Goes(p, phase), opener[p].phase \notin {"idle", "open"}, phase = "register" => opener[p].adopts,
               UNCHANGED <<id, registry>>
        PROVE  IdsAreOwn'
    <2>1. /\ opener'[p].phase = phase /\ opener'[p].mine = opener[p].mine /\ opener'[p].adopts = opener[p].adopts
          /\ \A q \in Openers \ {p} : opener'[q] = opener[q]
      BY <1>3, GoesFacts
    <2>2. QED
      BY <1>3, <2>1, IdsFrame
  <1>4. CASE ReadNewer(p) \/ ReadApplied(p)
    <2>1. /\ opener[p].phase \notin {"idle", "open"} /\ UNCHANGED <<id, registry>>
          /\ opener'[p].phase \in {"schema", "apply"}
          /\ opener'[p].mine = opener[p].mine /\ opener'[p].adopts = opener[p].adopts
          /\ \A q \in Openers \ {p} : opener'[q] = opener[q]
      BY <1>4 DEF ReadNewer, ReadApplied, At, OpeningTypeOK, database
    <2>2. QED
      BY <2>1, IdsFrame
  <1>5. CASE ReadSchema(p) \/ ReadMark(p)
    <2>1. PICK phase \in {"refused", "migrate", "backfill", "applied"} : Goes(p, phase)
      BY <1>5 DEF ReadSchema, ReadMark
    <2>2. opener[p].phase \notin {"idle", "open"} /\ UNCHANGED <<id, registry>>
      BY <1>5 DEF ReadSchema, ReadMark, At, database
    <2>3. QED
      BY <1>3, <2>1, <2>2
  <1>6. CASE Complete(p)
    <2>1. PICK phase \in {"incomplete", "register", "open"} : Goes(p, phase) /\ (phase = "register" => opener[p].adopts)
      <3>1. CASE \E v \in Ships[p] : has[v] # "whole"
        BY <1>6, <3>1 DEF Complete
      <3>2. CASE (~\E v \in Ships[p] : has[v] # "whole") /\ opener[p].adopts
        BY <1>6, <3>2 DEF Complete
      <3>3. CASE (~\E v \in Ships[p] : has[v] # "whole") /\ ~opener[p].adopts
        BY <1>6, <3>3 DEF Complete
      <3>4. QED
        BY <3>1, <3>2, <3>3
    <2>2. opener[p].phase \notin {"idle", "open"} /\ UNCHANGED <<id, registry>>
      BY <1>6 DEF Complete, At, database
    <2>3. QED
      BY <1>3, <2>1, <2>2
  <1>7. CASE Backfill(p)
    BY <1>3, <1>7 DEF Backfill, At
  <1>8. CASE Migrate(p)
    <2>1. UNCHANGED <<id, registry>> /\ \A q \in Openers :
            opener'[q].phase = opener[q].phase /\ opener'[q].mine = opener[q].mine /\ opener'[q].adopts = opener[q].adopts
      BY <1>8 DEF Migrate, OpeningTypeOK
    <2>2. QED
      BY <2>1, IdsFrame
  <1>9. QED
    BY <1>1, <1>2, <1>4, <1>5, <1>6, <1>7, <1>8

\* A process that starts or ends leaves the tables as they are.
LEMMA ComesOrGoes ==
  ASSUME OpeningTypeOK, NEW p \in Openers, Open(p) \/ AdoptDatabase(p) \/ LeaveDatabase(p)
  PROVE  /\ UNCHANGED <<has, ran, recorded, mark>> /\ \A q \in Openers \ {p} : opener'[q] = opener[q]
         /\ opener'[p].phase \in {"idle", "register", "newer", "foreign", "disowned"}
  <1>1. CASE Open(p)
    <2>1. opener' = [opener EXCEPT ![p] = [NotOpening EXCEPT !.phase = Judgement, !.mine = opens + 1]]
      BY <1>1 DEF Open
    <2>2. Judgement \in {"register", "newer", "foreign", "disowned"}
      BY DEF Judgement
    <2>3. opener'[p].phase = Judgement
      BY <2>1 DEF NotOpening, OpeningTypeOK
    <2>4. QED
      BY <1>1, <2>1, <2>2, <2>3 DEF Open, database, OpeningTypeOK
  <1>2. CASE AdoptDatabase(p)
    BY <1>2 DEF AdoptDatabase, database, OpeningTypeOK, NotOpening
  <1>3. CASE LeaveDatabase(p)
    BY <1>3 DEF LeaveDatabase, OpeningTypeOK, NotOpening
  <1>4. QED
    BY <1>1, <1>2, <1>3

----------------------------------------------------------------------------
\* What the set, the mark and the objects tell of each other.
SetIInv == AsFound /\ NotYetRun /\ ObjectsAreTold /\ BackfillIsDone /\ RestIsRecorded /\ RecordedRanOnce

\* A process that only looks: it learns what is recorded, or goes on.
LEMMA SetFrame ==
  ASSUME SetIInv, UNCHANGED <<has, ran, recorded, mark>>,
         \A q \in Openers :
           /\ opener'[q].phase \in {"applied", "apply"} =>
                opener[q].phase \in {"applied", "apply"} \/ mark = 0 \/ recorded # {}
           /\ opener'[q].phase = "apply" =>
                \/ opener[q].phase = "apply" /\ opener'[q].todo = opener[q].todo
                \/ opener'[q].todo = Ships[q] \ recorded
           /\ opener'[q].phase # "incomplete",
         Versions \subseteq Nat \ {0}
  PROVE  SetIInv'
  <1>1. AsFound' /\ NotYetRun' /\ ObjectsAreTold' /\ RecordedRanOnce'
    BY DEF SetIInv, AsFound, NotYetRun, ObjectsAreTold, RecordedRanOnce, OfBranches
  <1>2. BackfillIsDone'
    <2> SUFFICES ASSUME NEW q \in Openers, opener'[q].phase \in {"applied", "apply"}, recorded' = {},
                        NEW v \in Versions, v <= mark'
                 PROVE  v \in Probed
      BY DEF BackfillIsDone
    <2>1. BackfillIsDone /\ recorded = {} /\ v <= mark /\ v \in Nat \ {0}
      BY DEF SetIInv
    <2>2. opener[q].phase \in {"applied", "apply"} \/ mark = 0
      BY <2>1
    <2>3. QED
      BY <2>1, <2>2 DEF BackfillIsDone
  <1>3. RestIsRecorded'
    BY DEF SetIInv, RestIsRecorded, At
  <1>4. QED
    BY <1>1, <1>2, <1>3 DEF SetIInv

\* The backfill records what the branches had in full.
LEMMA BackfillSet ==
  ASSUME ShipsAssumption, OpeningTypeOK, SetIInv, NEW p \in Openers, Backfill(p) PROVE SetIInv'
  <1>1. /\ opener[p].phase = "backfill" /\ opener'[p].phase = "applied" /\ \A q \in Openers \ {p} : opener'[q] = opener[q]
        /\ UNCHANGED <<has, ran, mark>>
        /\ recorded' = IF NoSet THEN {v \in Ships[p] : v <= mark /\ (v \in Probed => has[v] = "whole")} ELSE recorded
    BY GoesFacts DEF Backfill, At
  <1>2. Versions \subseteq Nat \ {0} /\ Ships[p] \subseteq Versions /\ mark \in Nat
    BY ShipsFacts DEF OpeningTypeOK
  <1>3. CASE ~NoSet
    <2>1. UNCHANGED <<has, ran, recorded, mark>> /\ (mark = 0 \/ recorded # {})
      BY <1>1, <1>3 DEF NoSet
    <2>2. \A q \in Openers : opener'[q].phase # "incomplete"
      BY <1>1 DEF SetIInv, RestIsRecorded, At
    <2>3. QED
      BY <1>1, <1>2, <2>1, <2>2, SetFrame
  <1>4. CASE NoSet
    <2>1. /\ recorded = {} /\ mark # 0 /\ has \in OfBranches(mark)
          /\ ran = [v \in Versions |-> IF has[v] = "none" THEN 0 ELSE 1]
          /\ recorded' = {v \in Ships[p] : v <= mark /\ (v \in Probed => has[v] = "whole")}
      BY <1>1, <1>4 DEF NoSet, SetIInv, AsFound
    <2>2. PICK w \in Probed : mark <= w
      BY <1>4 DEF NoSet, SetIInv, AsFound
    <2>3. ASSUME NEW v \in Versions, v <= mark PROVE v \in Ships[p]
      <3>1. v \in Nat /\ w \in Nat /\ v <= w
        BY <1>2, <2>2, <2>3 DEF ShipsAssumption
      <3>2. QED
        BY <3>1, ShipsFacts
    <2>4. \A v \in Versions : /\ v > mark => has[v] = "none"
                              /\ v <= mark /\ v \notin Probed => has[v] = "whole"
      BY <2>1 DEF OfBranches
    <2>5. ASSUME NEW v \in recorded' PROVE has[v] = "whole" /\ ran[v] = 1
      <3>1. v \in Versions /\ has[v] = "whole"
        BY <1>2, <2>1, <2>4
      <3>2. QED
        BY <2>1, <3>1
    <2>6. ASSUME NEW v \in Versions, v \notin recorded', v \notin Probed PROVE v > mark /\ has[v] = "none" /\ ran[v] = 0
      <3>1. ~(v <= mark) /\ v \in Nat
        BY <1>2, <2>1, <2>3, <2>6
      <3>2. v > mark
        BY <1>2, <3>1
      <3>3. QED
        BY <2>1, <2>4, <3>2
    <2>7. RecordedRanOnce'
      BY <1>1, <2>5 DEF RecordedRanOnce
    <2>8. NotYetRun'
      BY <1>1, <2>6 DEF NotYetRun, ShipsAssumption
    <2>9. ObjectsAreTold'
      <3>1. ASSUME NEW v \in Versions, has[v] # "none" PROVE v <= mark
        BY <2>1, <3>1 DEF SetIInv, ObjectsAreTold
      <3>2. QED
        BY <1>1, <3>1 DEF ObjectsAreTold
    <2>10. BackfillIsDone'
      <3>1. ASSUME recorded' = {}, NEW v \in Versions, v <= mark PROVE v \in Probed
        <4>1. v \in Nat /\ ~(v > mark)
          BY <1>2, <3>1
        <4>2. QED
          BY <2>6, <3>1, <4>1
      <3>2. QED
        BY <1>1, <3>1 DEF BackfillIsDone
    <2>11. RestIsRecorded'
      BY <1>1, <2>1 DEF SetIInv, RestIsRecorded, At
    <2>12. AsFound'
      BY <1>1, <2>1 DEF SetIInv, AsFound, OfBranches
    <2>13. QED
      BY <2>7, <2>8, <2>9, <2>10, <2>11, <2>12 DEF SetIInv
  <1>5. QED
    BY <1>3, <1>4

\* A migration runs once the set tells that it did not.
LEMMA MigrateSet ==
  ASSUME ShipsAssumption, OpeningTypeOK, SetIInv, NEW p \in Openers, Migrate(p) PROVE SetIInv'
  <1> DEFINE v == Min(opener[p].todo)
  <1>1. v \in opener[p].todo /\ v \in Ships[p] /\ v \in Versions
    BY NextMigration DEF SetIInv
  <1>2. /\ opener[p].phase = "apply" /\ Apply(v)
        /\ opener' = [q \in Openers |->
              IF q = p THEN [opener[p] EXCEPT !.todo = @ \ {v}]
              ELSE [opener[q] EXCEPT !.raced = @ \/ (At(q, "schema") /\ v \notin Ships[q])]]
    BY DEF Migrate, At
  <1> HIDE DEF v
  <1>3. /\ \A q \in Openers : opener'[q].phase = opener[q].phase
        /\ \A q \in Openers : opener'[q].todo = IF q = p THEN opener[q].todo \ {v} ELSE opener[q].todo
    BY <1>2 DEF OpeningTypeOK
  <1>4. Versions \subseteq Nat \ {0} /\ mark \in Nat /\ v \in Nat
    BY <1>1, ShipsFacts DEF OpeningTypeOK
  <1>5. recorded' = recorded \cup {v}
    BY <1>2 DEF Apply, RunMigration
  <1>6. RestIsRecorded'
    <2>1. ASSUME NEW q \in Openers, opener[q].phase = "apply"
          PROVE  opener'[q].todo \subseteq Ships[q] /\ Ships[q] \ opener'[q].todo \subseteq recorded'
      <3>1. opener[q].todo \subseteq Ships[q] /\ Ships[q] \ opener[q].todo \subseteq recorded
        BY <2>1 DEF SetIInv, RestIsRecorded, At
      <3>2. QED
        BY <1>3, <1>5, <3>1
    <2>2. QED
      BY <1>3, <2>1 DEF SetIInv, RestIsRecorded, At
  <1>7. AsFound' /\ BackfillIsDone'
    BY <1>5 DEF AsFound, BackfillIsDone
  <1>8. CASE v \in recorded
    <2>1. UNCHANGED <<has, ran, recorded, mark>>
      BY <1>2, <1>8 DEF Apply
    <2>2. NotYetRun' /\ ObjectsAreTold' /\ RecordedRanOnce'
      BY <2>1 DEF SetIInv, NotYetRun, ObjectsAreTold, RecordedRanOnce
    <2>3. QED
      BY <1>6, <1>7, <2>2 DEF SetIInv
  <1>9. CASE v \notin recorded
    <2>1. /\ has' = [has EXCEPT ![v] = "whole"] /\ ran' = [ran EXCEPT ![v] = @ + 1]
          /\ mark' = Max({mark, v})
      BY <1>2, <1>9 DEF Apply, RunMigration
    <2>2. mark' >= mark /\ mark' \in Nat
      BY <1>4, <2>1, MaxOfTwo
    <2>3. ASSUME NEW u \in Versions \cap DataSteps, u \notin recorded PROVE ran[u] = 0
      <3>1. ran[u] = 0 \/ (recorded = {} /\ u <= mark)
        BY <2>3 DEF SetIInv, NotYetRun
      <3>2. u \notin Probed
        BY DEF ShipsAssumption
      <3>3. ~(recorded = {} /\ u <= mark)
        BY <1>2, <3>2 DEF SetIInv, BackfillIsDone
      <3>4. QED
        BY <3>1, <3>3
    <2>4. RecordedRanOnce'
      <3>1. ASSUME NEW u \in recorded' PROVE has'[u] = "whole" /\ (u \in DataSteps => ran'[u] = 1)
        <4>1. CASE u = v
          <5>1. has'[u] = "whole" /\ ran'[u] = ran[u] + 1
            BY <1>1, <2>1, <4>1 DEF OpeningTypeOK
          <5>2. u \in DataSteps => ran[u] = 0
            BY <1>1, <1>9, <2>3, <4>1
          <5>3. QED
            BY <5>1, <5>2
        <4>2. CASE u # v
          <5>1. u \in recorded /\ u \in Versions
            BY <1>5, <4>2 DEF OpeningTypeOK
          <5>2. has'[u] = has[u] /\ ran'[u] = ran[u]
            BY <2>1, <4>2, <5>1 DEF OpeningTypeOK
          <5>3. QED
            BY <5>1, <5>2 DEF SetIInv, RecordedRanOnce
        <4>3. QED
          BY <4>1, <4>2
      <3>2. QED
        BY <3>1 DEF RecordedRanOnce
    <2>5. NotYetRun'
      <3>1. ASSUME NEW u \in Versions \cap DataSteps, u \notin recorded' PROVE ran'[u] = 0
        BY <1>5, <2>1, <2>3, <3>1 DEF OpeningTypeOK
      <3>2. QED
        BY <3>1 DEF NotYetRun
    <2>6. ObjectsAreTold'
      <3>1. ASSUME NEW u \in Versions, has'[u] # "none" PROVE u \in recorded' \/ u <= mark'
        <4>1. CASE u = v
          BY <1>5, <4>1
        <4>2. CASE u # v
          <5>1. has[u] # "none"
            BY <2>1, <3>1, <4>2 DEF OpeningTypeOK
          <5>2. u \in recorded \/ u <= mark
            BY <5>1 DEF SetIInv, ObjectsAreTold
          <5>3. u \in Nat
            BY <1>4
          <5>4. QED
            BY <1>4, <1>5, <2>2, <5>2, <5>3
        <4>3. QED
          BY <4>1, <4>2
      <3>2. QED
        BY <3>1 DEF ObjectsAreTold
    <2>7. QED
      BY <1>6, <1>7, <2>4, <2>5, <2>6 DEF SetIInv
  <1>10. QED
    BY <1>8, <1>9

\* Every step of a process keeps what the set tells.
LEMMA SetStep ==
  ASSUME ShipsAssumption, OpeningTypeOK, SetIInv, NEW p \in Openers,
         \/ Open(p) \/ AdoptDatabase(p) \/ Register(p) \/ Claim(p) \/ ReadNewer(p) \/ ReadSchema(p)
         \/ ReadMark(p) \/ Backfill(p) \/ ReadApplied(p) \/ Migrate(p) \/ Complete(p) \/ LeaveDatabase(p)
  PROVE  SetIInv'
  <1>0. Versions \subseteq Nat \ {0} /\ \A q \in Openers : opener[q].phase # "incomplete"
    BY ShipsFacts DEF SetIInv, RestIsRecorded, At
  <1>1. ASSUME UNCHANGED <<has, ran, recorded, mark>>, \A q \in Openers \ {p} : opener'[q] = opener[q],
               opener'[p].phase \notin {"applied", "apply", "incomplete"}
        PROVE  SetIInv'
    BY <1>0, <1>1, SetFrame
  <1>2. CASE Open(p) \/ AdoptDatabase(p) \/ LeaveDatabase(p)
    BY <1>1, <1>2, ComesOrGoes
  <1>3. ASSUME NEW phase, Goes(p, phase), phase \notin {"applied", "apply", "incomplete"},
               UNCHANGED <<has, ran, recorded, mark>>
        PROVE  SetIInv'
    BY <1>1, <1>3, GoesFacts
  <1>4. CASE Register(p) \/ Claim(p) \/ ReadSchema(p)
    <2>1. PICK phase \in {"claim", "open", "newer", "refused", "migrate"} : Goes(p, phase)
      BY <1>4 DEF Register, Claim, ReadSchema
    <2>2. UNCHANGED <<has, ran, recorded, mark>>
      BY <1>4 DEF Register, Claim, ReadSchema, database
    <2>3. QED
      BY <1>3, <2>1, <2>2
  <1>5. CASE ReadNewer(p)
    <2>1. /\ UNCHANGED <<has, ran, recorded, mark>> /\ \A q \in Openers \ {p} : opener'[q] = opener[q]
          /\ opener'[p].phase = "schema"
      BY <1>5 DEF ReadNewer, database, OpeningTypeOK
    <2>2. QED
      BY <1>1, <2>1
  <1>6. CASE ReadMark(p)
    <2>1. UNCHANGED <<has, ran, recorded, mark>>
      BY <1>6 DEF ReadMark, database
    <2>2. CASE NoSet
      BY <1>3, <1>6, <2>1, <2>2 DEF ReadMark
    <2>3. CASE ~NoSet
      <3>1. Goes(p, "applied")
        BY <1>6, <2>3 DEF ReadMark
      <3>2. /\ opener'[p].phase = "applied" /\ \A q \in Openers \ {p} : opener'[q] = opener[q]
            /\ mark = 0 \/ recorded # {}
        BY <2>3, <3>1, GoesFacts DEF NoSet
      <3>3. QED
        BY <1>0, <2>1, <3>2, SetFrame
    <2>4. QED
      BY <2>2, <2>3
  <1>7. CASE ReadApplied(p)
    <2>1. /\ UNCHANGED <<has, ran, recorded, mark>> /\ \A q \in Openers \ {p} : opener'[q] = opener[q]
          /\ opener[p].phase = "applied" /\ opener'[p].phase = "apply" /\ opener'[p].todo = Ships[p] \ recorded
      BY <1>7 DEF ReadApplied, database, OpeningTypeOK, At
    <2>2. QED
      BY <1>0, <2>1, SetFrame
  <1>8. CASE Complete(p)
    <2>1. \A v \in Ships[p] : has[v] = "whole"
      BY <1>8 DEF Complete, SetIInv, RestIsRecorded, RecordedRanOnce
    <2>2. PICK phase \in {"register", "open"} : Goes(p, phase)
      BY <1>8, <2>1 DEF Complete
    <2>3. UNCHANGED <<has, ran, recorded, mark>>
      BY <1>8 DEF Complete, database
    <2>4. QED
      BY <1>3, <2>2, <2>3
  <1>9. QED
    BY <1>2, <1>4, <1>5, <1>6, <1>7, <1>8, BackfillSet, MigrateSet

----------------------------------------------------------------------------
\* Objects that a process does not know, and does not expect, are put there
\* by another one between its two reads.
LEMMA RacedStep ==
  ASSUME ShipsAssumption, OpeningTypeOK, SetIInv, UnexpectedRaced, NEW p \in Openers,
         \/ Open(p) \/ AdoptDatabase(p) \/ Register(p) \/ Claim(p) \/ ReadNewer(p) \/ ReadSchema(p)
         \/ ReadMark(p) \/ Backfill(p) \/ ReadApplied(p) \/ Migrate(p) \/ Complete(p) \/ LeaveDatabase(p)
  PROVE  UnexpectedRaced'
  <1>1. ASSUME UNCHANGED has, \A q \in Openers \ {p} : opener'[q] = opener[q],
               opener'[p].phase \notin {"schema", "refused"}
        PROVE  UnexpectedRaced'
    BY <1>1 DEF UnexpectedRaced, At, Unknown
  <1>2. CASE Open(p) \/ AdoptDatabase(p) \/ LeaveDatabase(p)
    BY <1>1, <1>2, ComesOrGoes
  <1>3. CASE Register(p) \/ Claim(p) \/ ReadMark(p) \/ Backfill(p) \/ Complete(p)
    <2>1. PICK phase \in {"claim", "open", "newer", "backfill", "applied", "register", "incomplete"} : Goes(p, phase)
      BY <1>3 DEF Register, Claim, ReadMark, Backfill, Complete
    <2>2. UNCHANGED has
      BY <1>3 DEF Register, Claim, ReadMark, Backfill, Complete, database
    <2>3. QED
      BY <1>1, <2>1, <2>2, GoesFacts
  <1>4. CASE ReadNewer(p)
    <2>1. /\ UNCHANGED has /\ \A q \in Openers \ {p} : opener'[q] = opener[q]
          /\ opener'[p].phase = "schema" /\ opener'[p].newer = RecordsNewer(p)
      BY <1>4 DEF ReadNewer, database, OpeningTypeOK
    <2>2. ASSUME NEW v \in Versions \ Ships[p], has[v] # "none" PROVE RecordsNewer(p)
      <3>1. v > Max(Ships[p]) /\ v \in Nat /\ Max(Ships[p]) \in Nat /\ mark \in Nat
        <4>1. Ships[p] \in SUBSET Int /\ Ships[p] \subseteq Nat /\ Ships[p] # {} /\ IsFiniteSet(Ships[p])
          BY DEF ShipsAssumption
        <4>2. Max(Ships[p]) \in Nat
          BY <4>1, MaxOfFinite
        <4>3. QED
          BY <4>2, ShipsFacts DEF OpeningTypeOK
      <3>2. v \in recorded \/ v <= mark
        BY <2>2 DEF SetIInv, ObjectsAreTold
      <3>3. CASE v \in recorded
        BY <3>1, <3>3 DEF RecordsNewer
      <3>4. CASE v <= mark
        <4>1. mark > Max(Ships[p])
          BY <3>1, <3>4
        <4>2. QED
          BY <4>1 DEF RecordsNewer
      <3>5. QED
        BY <3>2, <3>3, <3>4
    <2>3. opener'[p].newer \/ Unknown(p) = {}
      BY <2>1, <2>2 DEF Unknown
    <2>4. QED
      BY <2>1, <2>3 DEF UnexpectedRaced, At, Unknown
  <1>5. CASE ReadSchema(p)
    <2>1. UNCHANGED has /\ opener[p].phase = "schema"
      BY <1>5 DEF ReadSchema, database, At
    <2>2. CASE Unknown(p) # {} /\ ~opener[p].newer
      <3>1. opener[p].raced /\ Goes(p, "refused")
        BY <1>5, <2>1, <2>2 DEF ReadSchema, UnexpectedRaced, At
      <3>2. /\ opener'[p].phase = "refused" /\ opener'[p].raced = opener[p].raced
            /\ \A q \in Openers \ {p} : opener'[q] = opener[q]
        BY <3>1, GoesFacts
      <3>3. QED
        BY <2>1, <3>1, <3>2 DEF UnexpectedRaced, At, Unknown
    <2>3. CASE ~(Unknown(p) # {} /\ ~opener[p].newer)
      <3>1. Goes(p, "migrate")
        BY <1>5, <2>3 DEF ReadSchema
      <3>2. opener'[p].phase = "migrate" /\ \A q \in Openers \ {p} : opener'[q] = opener[q]
        BY <3>1, GoesFacts
      <3>3. QED
        BY <1>1, <2>1, <3>2
    <2>4. QED
      BY <2>2, <2>3
  <1>6. CASE Migrate(p)
    <2> DEFINE v == Min(opener[p].todo)
    <2>1. v \in Ships[p] /\ v \in Versions
      BY <1>6, NextMigration DEF SetIInv
    <2>2. /\ opener[p].phase = "apply" /\ Apply(v)
          /\ opener' = [q \in Openers |->
                IF q = p THEN [opener[p] EXCEPT !.todo = @ \ {v}]
                ELSE [opener[q] EXCEPT !.raced = @ \/ (At(q, "schema") /\ v \notin Ships[q])]]
      BY <1>6 DEF Migrate, At
    <2> HIDE DEF v
    <2>3. \A u \in Versions : u # v => has'[u] = has[u]
      BY <2>2 DEF Apply, RunMigration, OpeningTypeOK
    <2>4. opener'[p].phase = "apply"
      BY <2>2 DEF OpeningTypeOK
    <2>5. ASSUME NEW q \in Openers \ {p}
          PROVE  /\ opener'[q].phase = opener[q].phase /\ opener'[q].newer = opener[q].newer
                 /\ opener[q].raced => opener'[q].raced
                 /\ opener[q].phase = "schema" /\ v \notin Ships[q] => opener'[q].raced
      <3>1. PICK b \in BOOLEAN : b = (opener[q].raced \/ (At(q, "schema") /\ v \notin Ships[q]))
        OBVIOUS
      <3>2. opener'[q] = [opener[q] EXCEPT !.raced = b]
        BY <2>2, <3>1
      <3>3. opener'[q].phase = opener[q].phase /\ opener'[q].newer = opener[q].newer /\ opener'[q].raced = b
        BY <3>2 DEF OpeningTypeOK
      <3>4. QED
        BY <3>1, <3>3 DEF At
    <2>6. ASSUME NEW q \in Openers \ {p}, opener'[q].phase = "schema", ~opener'[q].newer, Unknown(q)' # {}
          PROVE  opener'[q].raced
      <3>1. CASE v \notin Ships[q]
        BY <2>5, <2>6, <3>1
      <3>2. CASE v \in Ships[q]
        <4>1. Unknown(q)' = Unknown(q)
          BY <2>3, <3>2 DEF Unknown
        <4>2. QED
          BY <2>5, <2>6, <4>1 DEF UnexpectedRaced, At
      <3>3. QED
        BY <3>1, <3>2
    <2>7. QED
      BY <2>4, <2>5, <2>6 DEF UnexpectedRaced, At
  <1>7. CASE ReadApplied(p)
    <2>1. /\ UNCHANGED has /\ \A q \in Openers \ {p} : opener'[q] = opener[q]
          /\ opener'[p].phase = "apply"
      BY <1>7 DEF ReadApplied, database, OpeningTypeOK
    <2>2. QED
      BY <1>1, <2>1
  <1>8. QED
    BY <1>2, <1>3, <1>4, <1>5, <1>6, <1>7

\* Every step of every process.
LEMMA NextOpeningIInv == ASSUME ShipsAssumption PROVE OpeningIInv /\ [OpeningNext]_openingVars => OpeningIInv'
  <1> SUFFICES ASSUME OpeningIInv, [OpeningNext]_openingVars PROVE OpeningIInv'
    OBVIOUS
  <1>1. OpeningTypeOK /\ IdsAreOwn /\ SetIInv /\ RestIsRecorded /\ UnexpectedRaced
    BY DEF OpeningIInv, SetIInv
  <1>2. CASE OpeningNext
    <2>1. PICK p \in Openers :
            \/ Open(p) \/ AdoptDatabase(p) \/ Register(p) \/ Claim(p) \/ ReadNewer(p) \/ ReadSchema(p)
            \/ ReadMark(p) \/ Backfill(p) \/ ReadApplied(p) \/ Migrate(p) \/ Complete(p) \/ LeaveDatabase(p)
      BY <1>2 DEF OpeningNext
    <2>2. OpeningTypeOK' /\ IdsAreOwn'
      BY <1>1, <2>1, OpeningTypeStep, IdsStep
    <2>3. SetIInv' /\ UnexpectedRaced'
      BY <1>1, <2>1, SetStep, RacedStep
    <2>4. QED
      BY <2>2, <2>3 DEF OpeningIInv, SetIInv
  <1>3. CASE UNCHANGED openingVars
    <2>1. OpeningTypeOK'
      BY <1>1, <1>3 DEF openingVars, OpeningTypeOK
    <2>2. IdsAreOwn'
      BY <1>1, <1>3, IdsFrame DEF openingVars
    <2>3. AsFound' /\ NotYetRun' /\ ObjectsAreTold' /\ RecordedRanOnce'
      BY <1>1, <1>3 DEF openingVars, SetIInv, AsFound, NotYetRun, ObjectsAreTold, RecordedRanOnce, OfBranches
    <2>4. BackfillIsDone' /\ RestIsRecorded' /\ UnexpectedRaced'
      BY <1>1, <1>3 DEF openingVars, SetIInv, BackfillIsDone, RestIsRecorded, UnexpectedRaced, At, Unknown
    <2>5. QED
      BY <2>1, <2>2, <2>3, <2>4 DEF OpeningIInv
  <1>4. QED
    BY <1>2, <1>3

\* What the database, the registry and the processes tell, in every state.
THEOREM OpeningInvariance == ASSUME ShipsAssumption PROVE OpeningSpec => []OpeningIInv
  BY InitOpeningIInv, NextOpeningIInv, PTL DEF OpeningSpec

\* No process turns away from the user's own database, whoever else opens,
\* adopts, migrates or is killed.
THEOREM OpensItsOwn == ASSUME ShipsAssumption PROVE OpeningSpec => []OpensOwn
  <1>1. OpeningIInv => OpensOwn
    BY DEF OpeningIInv, IdsAreOwn, RestIsRecorded, UnexpectedRaced, OpensOwn, At
  <1>2. QED
    BY OpeningInvariance, <1>1, PTL

\* What is recorded is there in full, and no data step runs twice.
THEOREM MigrationsRunOnce == ASSUME ShipsAssumption PROVE OpeningSpec => []RecordedRanOnce
  <1>1. OpeningIInv => RecordedRanOnce
    BY DEF OpeningIInv
  <1>2. QED
    BY OpeningInvariance, <1>1, PTL

-----------------------------------------------------------------------------
(*************************************************************************)
(* Pins: a definition that differs from the pinned one is reported.      *)
(*************************************************************************)

Tools == Items \ Resources

\* Until another audit stores its pins, an audit that is to store its own has
\* compared the listing with the pins that are there.
ComparedWithThese(a) ==
  /\ \A i \in Items : audit[a].pins[i] = NewPins(audit[a].listing, audit[a].complete)[i]
  /\ audit[a].changed = IF FirstAudit THEN {} ELSE Changed(audit[a].listing)

\* What was last stored for a tool is pinned for it, as a tombstone maybe.
PinsIInv ==
  /\ DOMAIN audit = Auditors
  /\ \A i \in Tools : seen[i] = pins[i].def
  /\ \A a \in Auditors : audit[a].phase = "compared" =>
       /\ \A i \in Items : audit[a].listing[i] # Gone => audit[a].pins[i] = Live(audit[a].listing[i])
       /\ ~audit[a].raced => ComparedWithThese(a)

\* Nothing is pinned.
LEMMA InitPinsIInv == PinsInit => PinsIInv
  BY DEF PinsInit, PinsIInv, Tools, NoPin, NoAudit

\* The comparison is with the pins there are.
LEMMA CompareIInv == ASSUME PinsIInv, NEW a \in Auditors, Compare(a) PROVE PinsIInv'
  <1>1. PICK cut \in SUBSET Items, analysed \in BOOLEAN :
          LET listing  == [i \in Items |-> IF i \in cut THEN Gone ELSE served[i]]
              complete == cut = {}
          IN  audit' = [audit EXCEPT ![a] =
                [phase |-> IF analysed THEN "compared" ELSE "unpinned", listing |-> listing,
                 complete |-> complete, changed |-> IF FirstAudit THEN {} ELSE Changed(listing),
                 pins |-> NewPins(listing, complete), raced |-> FALSE]]
    BY DEF Compare
  <1> DEFINE listing == [i \in Items |-> IF i \in cut THEN Gone ELSE served[i]]
             complete == cut = {}
  <1>2. /\ audit'[a].listing = listing /\ audit'[a].complete = complete
        /\ audit'[a].changed = (IF FirstAudit THEN {} ELSE Changed(listing))
        /\ audit'[a].pins = NewPins(listing, complete)
        /\ DOMAIN audit' = Auditors /\ \A b \in Auditors \ {a} : audit'[b] = audit[b]
    BY <1>1 DEF PinsIInv
  <1>3. UNCHANGED <<pins, audited, seen>>
    BY DEF Compare
  <1> HIDE DEF listing, complete
  <1>4. ASSUME NEW i \in Items, listing[i] # Gone PROVE NewPins(listing, complete)[i] = Live(listing[i])
    BY <1>4 DEF NewPins
  <1>5. ComparedWithThese(a)'
    BY <1>2, <1>3 DEF ComparedWithThese, NewPins, FirstAudit, Changed
  <1>6. ASSUME NEW b \in Auditors \ {a}, ComparedWithThese(b) PROVE ComparedWithThese(b)'
    <2>1. audit'[b] = audit[b]
      BY <1>2
    <2>2. QED
      BY <1>3, <1>6, <2>1 DEF ComparedWithThese, NewPins, FirstAudit, Changed
  <1>7. ASSUME NEW b \in Auditors, audit'[b].phase = "compared"
        PROVE  /\ \A i \in Items : audit'[b].listing[i] # Gone => audit'[b].pins[i] = Live(audit'[b].listing[i])
               /\ ~audit'[b].raced => ComparedWithThese(b)'
    <2>1. CASE b = a
      BY <1>2, <1>4, <1>5, <2>1
    <2>2. CASE b # a
      BY <1>2, <1>6, <1>7, <2>2 DEF PinsIInv
    <2>3. QED
      BY <2>1, <2>2
  <1>8. \A i \in Tools : seen'[i] = pins'[i].def
    BY <1>3 DEF PinsIInv
  <1>9. QED
    <2> DEFINE Kept(b) == /\ \A i \in Items : audit'[b].listing[i] # Gone => audit'[b].pins[i] = Live(audit'[b].listing[i])
                          /\ ~audit'[b].raced => ComparedWithThese(b)'
    <2>1. \A b \in Auditors : audit'[b].phase = "compared" => Kept(b)
      BY <1>7
    <2>2. QED
      BY <1>2, <1>8, <2>1 DEF PinsIInv, Tools

\* What an audit leaves pinned for a tool is what it saw of it, or what was
\* pinned when it compared.
LEMMA StoreIInv == ASSUME PinsIInv, NEW a \in Auditors, Store(a) PROVE PinsIInv'
  <1>1. /\ audit[a].phase = "compared" /\ pins' = Stored(a)
        /\ \A i \in Items : seen'[i] = IF audit[a].listing[i] # Gone THEN audit[a].listing[i]
                                       ELSE IF audit[a].raced THEN pins'[i].def ELSE seen[i]
        /\ audit' = [b \in Auditors |-> IF b = a THEN NoAudit ELSE [audit[b] EXCEPT !.raced = TRUE]]
    BY DEF Store
  <1>2. ASSUME NEW i \in Tools PROVE seen'[i] = pins'[i].def
    <2>1. CASE audit[a].listing[i] # Gone
      <3>1. i \in Items /\ audit[a].pins[i] = Live(audit[a].listing[i])
        BY <1>1, <1>2, <2>1 DEF PinsIInv, Tools
      <3>2. pins'[i] = audit[a].pins[i]
        BY <1>1, <2>1, <3>1 DEF Stored
      <3>3. QED
        BY <1>1, <2>1, <3>1, <3>2 DEF Live
    <2>2. CASE audit[a].listing[i] = Gone /\ audit[a].raced
      BY <1>1, <1>2, <2>2 DEF Tools
    <2>3. CASE audit[a].listing[i] = Gone /\ ~audit[a].raced /\ ~audit[a].complete
      BY <1>1, <1>2, <2>3 DEF PinsIInv, Tools, Stored
    <2>4. CASE audit[a].listing[i] = Gone /\ ~audit[a].raced /\ audit[a].complete
      <3>1. pins'[i] = IF FirstAudit THEN NoPin ELSE Tombstone(pins[i])
        BY <1>1, <1>2, <2>4 DEF PinsIInv, ComparedWithThese, NewPins, Tools, Stored
      <3>2. pins'[i].def = pins[i].def
        BY <1>2, <3>1 DEF FirstAudit, NoPin, Tombstone, Tools
      <3>3. QED
        BY <1>1, <1>2, <2>4, <3>2 DEF PinsIInv, Tools
    <2>5. QED
      BY <2>1, <2>2, <2>3, <2>4
  <1>3. /\ DOMAIN audit' = Auditors
        /\ \A b \in Auditors : audit'[b].phase = "compared" =>
             b # a /\ audit'[b].raced /\ audit[b].phase = "compared"
             /\ audit'[b].pins = audit[b].pins /\ audit'[b].listing = audit[b].listing
    BY <1>1 DEF NoAudit
  <1>4. QED
    BY <1>2, <1>3 DEF PinsIInv

\* Every step of an audit, and every change of the server.
LEMMA NextPinsIInv == PinsIInv /\ [PinsNext]_pinVars => PinsIInv'
  <1> SUFFICES ASSUME PinsIInv, [PinsNext]_pinVars PROVE PinsIInv'
    OBVIOUS
  <1> DEFINE Same == UNCHANGED <<pins, audited, seen>>
  <1>1. ASSUME Same, DOMAIN audit' = Auditors,
               \A b \in Auditors : audit'[b].phase = "compared" => audit'[b] = audit[b]
        PROVE  PinsIInv'
    <2>1. \A i \in Tools : seen'[i] = pins'[i].def
      BY <1>1 DEF PinsIInv
    <2>2. ASSUME NEW b \in Auditors, audit'[b] = audit[b], ComparedWithThese(b)
          PROVE  ComparedWithThese(b)'
      BY <1>1, <2>2 DEF ComparedWithThese, NewPins, FirstAudit, Changed
    <2>3. ASSUME NEW b \in Auditors, audit'[b].phase = "compared"
          PROVE  /\ \A i \in Items : audit'[b].listing[i] # Gone => audit'[b].pins[i] = Live(audit'[b].listing[i])
                 /\ ~audit'[b].raced => ComparedWithThese(b)'
      BY <1>1, <2>2, <2>3 DEF PinsIInv
    <2>4. QED
      BY <1>1, <2>1, <2>3 DEF PinsIInv, Tools
  <1>2. ASSUME NEW i \in Items, NEW d \in Defs \cup {Gone}, Serve(i, d) PROVE PinsIInv'
    BY <1>1, <1>2 DEF Serve, PinsIInv
  <1>3. ASSUME NEW a \in Auditors, LeaveAudit(a) PROVE PinsIInv'
    <2>1. audit' = [audit EXCEPT ![a] = NoAudit] /\ Same /\ NoAudit.phase # "compared"
      BY <1>3 DEF LeaveAudit, NoAudit
    <2>2. QED
      BY <1>1, <2>1 DEF PinsIInv
  <1>4. CASE UNCHANGED pinVars
    BY <1>1, <1>4 DEF pinVars, PinsIInv
  <1>5. QED
    BY <1>2, <1>3, <1>4, CompareIInv, StoreIInv DEF PinsNext

\* An audit that nobody raced stores what it compared with.
THEOREM PinsInvariance == PinsSpec => []PinsIInv
  BY InitPinsIInv, NextPinsIInv, PTL DEF PinsSpec

\* Whatever the server serves and however audits are cut short, killed or
\* overlap: no definition of a tool is replaced by another without a report.
THEOREM ChangesAreReported == PinsSpec => ChangeIsReported
  <1>1. PinsIInv /\ [PinsNext]_pinVars => [StoresWhatItReports]_pinVars
    <2> SUFFICES ASSUME PinsIInv, NEW a \in Auditors, Store(a), ~audit[a].raced,
                        NEW i \in Items \ Resources, seen[i] # Gone, seen'[i] # seen[i]
                 PROVE  i \in audit[a].changed
      BY DEF StoresWhatItReports
    <2>1. audit[a].listing[i] # Gone /\ audit[a].listing[i] # seen[i] /\ audit[a].phase = "compared"
      BY DEF Store
    <2>2. pins[i].def = seen[i] /\ ComparedWithThese(a)
      BY <2>1 DEF PinsIInv, Tools
    <2>3. ~FirstAudit
      BY <2>2 DEF FirstAudit, NoPin
    <2>4. QED
      BY <2>1, <2>2, <2>3 DEF ComparedWithThese, Changed
  <1>2. QED
    BY PinsInvariance, <1>1, PTL DEF PinsSpec, ChangeIsReported

-----------------------------------------------------------------------------
(*************************************************************************)
(* Configs: what the user edited is replaced only over a delivery, and an*)
(* undisturbed refresh settles every entry.                              *)
(*************************************************************************)

Entries == [source : Baselines, target : Contents, delivered : 1 .. MaxVersion \cup {Nothing}]
Manifests == [Targets -> Entries \cup {Nothing}]
Jobs == [mode : {"idle", "refresh", "init", "adopt"}, version : Nat, next : Nat, copy : Manifests,
         touched : BOOLEAN, skipped : BOOLEAN, undisturbed : BOOLEAN]

ConfigsType ==
  /\ file \in [Targets -> Contents] /\ manifest \in Manifests
  /\ job \in [Procs -> Jobs]
  /\ \A p \in Procs : job[p].mode # "idle" => job[p].version \in 1 .. MaxVersion /\ job[p].next # 0

\* What an entry takes for ours, though the user wrote it, met a delivery.
EntriesMeetADelivery(entries) ==
  \A t \in Targets :
    entries[t] # Nothing /\ entries[t].target \in Edits => <<t, entries[t].target>> \in offered

\* A refresh that nobody disturbed has left nothing to do up to its item.
SettledUpTo(p) ==
  /\ job[p].next <= Len(Profile) + 1
  /\ ~job[p].touched => job[p].copy = manifest
  /\ \A i \in 1 .. Len(Profile) : i < job[p].next =>
       Action(job[p].copy[Profile[i]], Profile[i], job[p].version) \notin Writes

ConfigsIInv ==
  /\ ConfigsType
  /\ EntriesMeetADelivery(manifest) /\ \A p \in Procs : EntriesMeetADelivery(job[p].copy)
  /\ \A p \in Procs : job[p].mode = "refresh" /\ job[p].undisturbed => SettledUpTo(p)

\* Nothing is installed.
LEMMA InitConfigsIInv == ASSUME ShippedAssumption PROVE ConfigsInit => ConfigsIInv
  <1> SUFFICES ASSUME ConfigsInit PROVE ConfigsIInv
    OBVIOUS
  <1>1. Idle \in Jobs /\ Idle.mode = "idle"
    BY DEF Idle, Jobs, Manifests
  <1>2. ConfigsType
    BY <1>1 DEF ConfigsInit, ConfigsType, Contents, Manifests
  <1>3. QED
    BY <1>1, <1>2 DEF ConfigsInit, ConfigsIInv, EntriesMeetADelivery, Idle

\* The names of what happens to the item at which a run is.
LEMMA ItemFacts ==
  ASSUME ShippedAssumption, ConfigsType, NEW p \in Procs, job[p].mode # "idle", job[p].next <= Len(Profile)
  PROVE  /\ Target(p) \in Targets /\ job[p].version \in 1 .. MaxVersion
         /\ job[p].next \in 1 .. Len(Profile)
         /\ Source(p) # NoBaseline => Source(p) \in Baselines
         /\ Source(p) \in Contents => Source(p) \in Baselines
         /\ job[p].copy[Target(p)] \in Entries \cup {Nothing}
  <1>1. job[p] \in Jobs /\ job[p].version \in 1 .. MaxVersion /\ job[p].next # 0
    BY DEF ConfigsType
  <1>2. Len(Profile) \in Nat
    BY DEF ShippedAssumption
  <1>3. job[p].next \in 1 .. Len(Profile)
    BY <1>1, <1>2 DEF Jobs
  <1>4. Target(p) \in Targets
    BY <1>3 DEF Target, Targets
  <1>5. Source(p) # NoBaseline => Source(p) \in Baselines
    BY <1>1, <1>4 DEF Source, Baselines
  <1>6. QED
    BY <1>1, <1>3, <1>4, <1>5 DEF Jobs, Manifests, ShippedAssumption

\* Another run's step, or the user's, leaves what a run knows as it was.
LEMMA OthersStay ==
  ASSUME NEW p \in Procs, NEW r, Become(p, r), ConfigsType
  PROVE  /\ job'[p] = r
         /\ \A q \in Procs \ {p} : /\ job'[q].undisturbed = FALSE /\ job'[q] = [job[q] EXCEPT !.undisturbed = FALSE]
                                   /\ job'[q].copy = job[q].copy /\ job'[q] \in Jobs
                                   /\ job'[q].mode = job[q].mode /\ job'[q].version = job[q].version
                                   /\ job'[q].next = job[q].next
         /\ r \in Jobs => job' \in [Procs -> Jobs]
  <1>1. \A q \in Procs : job[q] \in Jobs
    BY DEF ConfigsType
  <1>2. QED
    BY <1>1 DEF Become, Jobs

\* A step of p keeps the invariant if what p has then does.
LEMMA BecomeIInv ==
  ASSUME ConfigsIInv, NEW p \in Procs, NEW r \in Jobs, Become(p, r),
         file' \in [Targets -> Contents], manifest' \in Manifests, offered \subseteq offered',
         EntriesMeetADelivery(manifest)', EntriesMeetADelivery(r.copy)',
         r.mode # "idle" => r.version \in 1 .. MaxVersion /\ r.next # 0,
         r.mode = "refresh" /\ r.undisturbed => SettledUpTo(p)'
  PROVE  ConfigsIInv'
  <1>1. /\ job'[p] = r /\ job' \in [Procs -> Jobs]
        /\ \A q \in Procs \ {p} : /\ job'[q].undisturbed = FALSE /\ job'[q].copy = job[q].copy
                                  /\ job'[q].mode = job[q].mode /\ job'[q].version = job[q].version
                                  /\ job'[q].next = job[q].next
    BY OthersStay DEF ConfigsIInv
  <1>2. ConfigsType'
    BY <1>1 DEF ConfigsIInv, ConfigsType
  <1>3. ASSUME NEW q \in Procs PROVE EntriesMeetADelivery(job[q].copy)'
    BY <1>1 DEF ConfigsIInv, EntriesMeetADelivery
  <1>4. ASSUME NEW q \in Procs, job'[q].mode = "refresh", job'[q].undisturbed PROVE SettledUpTo(q)'
    BY <1>1, <1>4
  <1>5. QED
    BY <1>2, <1>3, <1>4 DEF ConfigsIInv

\* A refresh that does its item so that nothing is left to do of it has left
\* nothing to do up to the next one: the other items are as they were.
LEMMA SettledStep ==
  ASSUME ShippedAssumption, ConfigsIInv, NEW p \in Procs, NEW r \in Jobs, NEW t, NEW v, NEW entry,
         job[p].mode = "refresh", job[p].undisturbed, job[p].next <= Len(Profile),
         t = Target(p), v = job[p].version, Become(p, r), UNCHANGED manifest,
         r.next = job[p].next + 1, r.version = v, ~r.touched => r.copy = manifest,
         r.copy[t] = entry, \A s \in Targets : s # t => r.copy[s] = job[p].copy[s],
         \A s \in Targets : s # t => file'[s] = file[s],
         \A s \in Targets : \A d : s # t => (<<s, d>> \in beside' <=> <<s, d>> \in beside),
         Action(entry, t, v)' \notin Writes
  PROVE  SettledUpTo(p)'
  <1>1. job'[p] = r /\ ConfigsType
    BY OthersStay DEF ConfigsIInv
  <1>2. /\ job[p].next \in 1 .. Len(Profile) /\ Len(Profile) \in Nat /\ SettledUpTo(p)
        /\ t = Profile[job[p].next]
    BY <1>1, ItemFacts DEF ConfigsIInv, ShippedAssumption, Target
  <1>3. ASSUME NEW i \in 1 .. Len(Profile), i < r.next PROVE Action(r.copy[Profile[i]], Profile[i], v)' \notin Writes
    <2>1. CASE i = job[p].next
      BY <1>2, <2>1
    <2>2. CASE i < job[p].next
      <3> DEFINE s == Profile[i]
      <3>1. s # t /\ s \in Targets
        BY <1>2, <2>2 DEF ShippedAssumption, Targets
      <3>2. Action(job[p].copy[s], s, v) \notin Writes
        BY <1>2, <2>2 DEF SettledUpTo
      <3> HIDE DEF s
      <3>3. PICK e : e = r.copy[s]
        OBVIOUS
      <3>4. Action(e, s, v)' = Action(e, s, v)
        BY <3>1 DEF Action, AlongsideAction, Pending
      <3>5. QED
        BY <3>1, <3>2, <3>3, <3>4 DEF s
    <2>3. QED
      BY <1>2, <1>3, <2>1, <2>2
  <1>4. QED
    BY <1>1, <1>2, <1>3 DEF SettledUpTo

\* An item that is recorded as it was installed or adopted, or beside a
\* delivery, has nothing left to do.
LEMMA RecordedIInv ==
  ASSUME ShippedAssumption, ConfigsIInv, NEW p \in Procs, job[p].mode # "idle", job[p].next <= Len(Profile),
         NEW entry \in Entries, NEW t, t = Target(p),
         Become(p, Recorded(p, entry)), UNCHANGED manifest, offered \subseteq offered',
         file' \in [Targets -> Contents],
         entry.target \in Edits => <<t, entry.target>> \in offered',
         \A s \in Targets : s # t => file'[s] = file[s],
         \A s \in Targets : \A d : s # t => (<<s, d>> \in beside' <=> <<s, d>> \in beside),
         entry.source = Source(p),
         job[p].mode = "refresh" =>
           \/ file'[t] = Source(p) /\ entry.delivered = Nothing
           \/ file'[t] \notin {Absent, NotAFile, Unreadable} /\ entry.delivered # Nothing
              /\ <<t, entry.delivered>> \in beside'
  PROVE  ConfigsIInv'
  <1>1. PICK r : r = Recorded(p, entry)
    OBVIOUS
  <1>2. PICK v : v = job[p].version
    OBVIOUS
  <1>3. ConfigsType /\ job[p] \in Jobs
    BY DEF ConfigsIInv, ConfigsType
  <1>4. /\ t \in Targets /\ v \in 1 .. MaxVersion /\ job[p].next \in 1 .. Len(Profile)
        /\ Source(p) \in Baselines /\ Source(p) = Shipped[v][t]
    BY <1>2, <1>3, ItemFacts DEF Source, Entries
  <1>5. /\ r \in Jobs /\ r.mode = job[p].mode /\ r.version = v /\ r.next = job[p].next + 1 /\ r.touched
        /\ r.undisturbed = job[p].undisturbed
        /\ r.copy[t] = entry /\ \A s \in Targets : s # t => r.copy[s] = job[p].copy[s]
    <2>1. r = [mode |-> job[p].mode, version |-> job[p].version, next |-> job[p].next + 1,
               copy |-> [job[p].copy EXCEPT ![t] = entry], touched |-> TRUE,
               skipped |-> job[p].skipped, undisturbed |-> job[p].undisturbed]
      BY <1>1, <1>3 DEF Recorded, Passed, Jobs
    <2>2. job[p].copy \in Manifests /\ [job[p].copy EXCEPT ![t] = entry] \in Manifests
      BY <1>3, <1>4 DEF Jobs, Manifests
    <2>3. r \in Jobs
      BY <1>3, <2>1, <2>2 DEF Jobs
    <2>4. QED
      BY <1>2, <1>4, <2>1, <2>2, <2>3 DEF Manifests
  <1>6. EntriesMeetADelivery(r.copy)' /\ EntriesMeetADelivery(manifest)'
    BY <1>4, <1>5 DEF ConfigsIInv, EntriesMeetADelivery
  <1>7. ASSUME r.mode = "refresh" PROVE Action(entry, t, v)' \notin Writes
    <2>1. entry # Nothing /\ file'[t] \notin {Absent, NotAFile, Unreadable} /\ Shipped[v][t] = entry.source
      BY <1>4, <1>5, <1>7 DEF ShippedAssumption, Entries
    <2>2. Shipped[v][t] # NoBaseline
      BY <1>4 DEF Baselines
    <2>3. Action(entry, t, v)' \in {"pending_merge", "up_to_date"}
      BY <2>1, <2>2 DEF Action
    <2>4. QED
      BY <2>3 DEF Writes
  <1>8. ASSUME r.mode = "refresh", r.undisturbed PROVE SettledUpTo(p)'
    <2>1. Become(p, r)
      BY <1>1 DEF Become
    <2>2. Action(entry, t, v)' \notin Writes
      BY <1>7, <1>8
    <2>3. job[p].mode = "refresh" /\ job[p].undisturbed
      BY <1>5, <1>8
    <2>4. QED
      BY <1>2, <1>5, <2>1, <2>2, <2>3, SettledStep
  <1>9. manifest' \in Manifests /\ r.next # 0
    BY <1>3, <1>5 DEF ConfigsType, Jobs
  <1>10. Become(p, r)
    BY <1>1 DEF Become
  <1>11. QED
    BY <1>4, <1>5, <1>6, <1>8, <1>9, <1>10, BecomeIInv

\* An item is passed, with nothing done to it, or with a write that failed.
LEMMA PassedIInv ==
  ASSUME ShippedAssumption, ConfigsIInv, NEW p \in Procs, job[p].mode # "idle", job[p].next <= Len(Profile),
         NEW r \in Jobs, Become(p, r), UNCHANGED <<file, beside, manifest, offered>>,
         r.mode = job[p].mode, r.version = job[p].version, r.next = job[p].next + 1,
         r.copy = job[p].copy, r.touched = job[p].touched,
         r.mode = "refresh" /\ r.undisturbed => job[p].undisturbed /\ Planned(p) \notin Writes
  PROVE  ConfigsIInv'
  <1>1. PICK t : t = Target(p)
    OBVIOUS
  <1>2. PICK v : v = job[p].version
    OBVIOUS
  <1>3. PICK entry : entry = job[p].copy[t]
    OBVIOUS
  <1>4. ConfigsType /\ job[p] \in Jobs /\ job[p].version \in 1 .. MaxVersion
    BY DEF ConfigsIInv, ConfigsType
  <1>5. ASSUME r.mode = "refresh", r.undisturbed PROVE SettledUpTo(p)'
    <2>1. SettledUpTo(p) /\ ConfigsType
      BY <1>5 DEF ConfigsIInv
    <2>2. Action(entry, t, v) = Planned(p)
      BY <1>1, <1>2, <1>3 DEF Planned
    <2>3. Action(entry, t, v)' = Action(entry, t, v)
      BY DEF Action, AlongsideAction, Pending
    <2>4. ~r.touched => r.copy = manifest
      BY <2>1 DEF SettledUpTo
    <2>5. QED
      BY <1>1, <1>2, <1>3, <1>5, <2>2, <2>3, <2>4, SettledStep
  <1>6. EntriesMeetADelivery(r.copy)' /\ EntriesMeetADelivery(manifest)'
    BY DEF ConfigsIInv, EntriesMeetADelivery
  <1>7. manifest' \in Manifests /\ file' \in [Targets -> Contents] /\ r.next # 0
    BY <1>4 DEF ConfigsType, Jobs
  <1>8. QED
    BY <1>4, <1>5, <1>6, <1>7, BecomeIInv

\* A write that fails leaves all as it was, but for the run's next item.
LEMMA FailsIInv ==
  ASSUME ShippedAssumption, ConfigsIInv, NEW p \in Procs, job[p].mode # "idle", job[p].next <= Len(Profile),
         Fails(p), UNCHANGED manifest
  PROVE  ConfigsIInv'
  <1>1. PICK r : r = [Passed(p) EXCEPT !.undisturbed = FALSE]
    OBVIOUS
  <1>2. job[p] \in Jobs
    BY DEF ConfigsIInv, ConfigsType
  <1>3. /\ r \in Jobs /\ r.mode = job[p].mode /\ r.version = job[p].version /\ r.next = job[p].next + 1
        /\ r.copy = job[p].copy /\ r.touched = job[p].touched /\ ~r.undisturbed
    <2>1. r = [mode |-> job[p].mode, version |-> job[p].version, next |-> job[p].next + 1,
               copy |-> job[p].copy, touched |-> job[p].touched,
               skipped |-> job[p].skipped, undisturbed |-> FALSE]
      BY <1>1, <1>2 DEF Passed, Jobs
    <2>2. QED
      BY <1>2, <2>1 DEF Jobs
  <1>4. Become(p, r) /\ UNCHANGED <<file, beside, offered>>
    BY <1>1 DEF Fails, Become
  <1>5. QED
    BY <1>3, <1>4, PassedIInv

\* A baseline is installed where there was no file, or one that is ours.
LEMMA InstallIInv ==
  ASSUME ShippedAssumption, ConfigsIInv, NEW p \in Procs, job[p].mode # "idle", job[p].next <= Len(Profile),
         Source(p) # NoBaseline, Install(p), UNCHANGED manifest
  PROVE  ConfigsIInv'
  <1>1. CASE Fails(p)
    BY <1>1, FailsIInv
  <1>2. CASE /\ file' = [file EXCEPT ![Target(p)] = Source(p)]
             /\ Become(p, Recorded(p, Entry(Source(p), Source(p), Nothing)))
             /\ UNCHANGED <<beside, offered>>
    <2>1. PICK t : t = Target(p)
      OBVIOUS
    <2>2. PICK entry : entry = Entry(Source(p), Source(p), Nothing)
      OBVIOUS
    <2>3. ConfigsType
      BY DEF ConfigsIInv
    <2>4. t \in Targets /\ Source(p) \in Baselines
      BY <2>1, <2>3, ItemFacts
    <2>5. /\ entry \in Entries /\ entry.target = Source(p) /\ entry.source = Source(p) /\ entry.delivered = Nothing
          /\ Source(p) \notin Edits
      BY <2>2, <2>4 DEF Entry, Entries, Contents, ShippedAssumption
    <2>6. file' = [file EXCEPT ![t] = Source(p)]
      BY <1>2, <2>1
    <2>7. file' \in [Targets -> Contents] /\ file'[t] = Source(p) /\ \A s \in Targets : s # t => file'[s] = file[s]
      BY <2>3, <2>4, <2>6 DEF ConfigsType, Contents
    <2>8. Become(p, Recorded(p, entry))
      BY <1>2, <2>2 DEF Become
    <2>9. QED
      BY <1>2, <2>1, <2>5, <2>7, <2>8, RecordedIInv
  <1>3. QED
    BY <1>1, <1>2 DEF Install

\* A file that is the baseline is recorded as ours.
LEMMA AdoptIInv ==
  ASSUME ShippedAssumption, ConfigsIInv, NEW p \in Procs, job[p].mode # "idle", job[p].next <= Len(Profile),
         file[Target(p)] = Source(p), Adopt(p), UNCHANGED manifest
  PROVE  ConfigsIInv'
  <1>1. PICK t : t = Target(p)
    OBVIOUS
  <1>2. PICK entry : entry = Entry(Source(p), Source(p), Nothing)
    OBVIOUS
  <1>3. ConfigsType
    BY DEF ConfigsIInv
  <1>4. t \in Targets /\ Source(p) \in Baselines
    <2>1. t \in Targets /\ file[t] \in Contents /\ file[t] = Source(p)
      BY <1>1, <1>3, ItemFacts DEF ConfigsType
    <2>2. QED
      BY <1>3, <2>1, ItemFacts
  <1>5. /\ entry \in Entries /\ entry.target = Source(p) /\ entry.source = Source(p) /\ entry.delivered = Nothing
        /\ Source(p) \notin Edits
    BY <1>2, <1>4 DEF Entry, Entries, Contents, ShippedAssumption
  <1>6. file' \in [Targets -> Contents] /\ file' = file /\ beside' = beside /\ offered' = offered /\ file'[t] = Source(p)
    BY <1>1, <1>3 DEF Adopt, ConfigsType
  <1>7. Become(p, Recorded(p, entry))
    BY <1>2 DEF Adopt, Become
  <1>8. QED
    BY <1>1, <1>5, <1>6, <1>7, RecordedIInv

\* A delivery is put beside the user's file, which is recorded as it is.
LEMMA DeliverIInv ==
  ASSUME ShippedAssumption, ConfigsIInv, NEW p \in Procs, job[p].mode # "idle", job[p].next <= Len(Profile),
         Source(p) # NoBaseline, file[Target(p)] \notin {Absent, NotAFile, Unreadable},
         Deliver(p), UNCHANGED manifest
  PROVE  ConfigsIInv'
  <1>1. CASE Fails(p)
    BY <1>1, FailsIInv
  <1>2. CASE /\ beside' = beside \cup {<<Target(p), job[p].version>>}
             /\ offered' = offered \cup {<<Target(p), file[Target(p)]>>}
             /\ Become(p, Recorded(p, Entry(Source(p), file[Target(p)], job[p].version)))
             /\ UNCHANGED file
    <2>1. PICK t : t = Target(p)
      OBVIOUS
    <2>2. PICK entry : entry = Entry(Source(p), file[Target(p)], job[p].version)
      OBVIOUS
    <2>3. ConfigsType
      BY DEF ConfigsIInv
    <2>4. t \in Targets /\ Source(p) \in Baselines /\ job[p].version \in 1 .. MaxVersion
      BY <2>1, <2>3, ItemFacts
    <2>5. file[t] \in Contents
      BY <2>3, <2>4 DEF ConfigsType
    <2>6. /\ entry \in Entries /\ entry.target = file[t] /\ entry.source = Source(p)
          /\ entry.delivered = job[p].version /\ entry.delivered # Nothing
      BY <2>1, <2>2, <2>4, <2>5 DEF Entry, Entries, ShippedAssumption
    <2>7. /\ file' \in [Targets -> Contents] /\ file' = file /\ file'[t] \notin {Absent, NotAFile, Unreadable}
      BY <1>2, <2>1, <2>3 DEF ConfigsType
    <2>8. <<t, entry.delivered>> \in beside' /\ <<t, entry.target>> \in offered' /\ offered \subseteq offered'
      BY <1>2, <2>1, <2>6
    <2>9. \A s \in Targets : \A d : s # t => (<<s, d>> \in beside' <=> <<s, d>> \in beside)
      BY <1>2, <2>1
    <2>10. Become(p, Recorded(p, entry))
      BY <1>2, <2>2 DEF Become
    <2>11. QED
      BY <2>1, <2>6, <2>7, <2>8, <2>9, <2>10, RecordedIInv
  <1>3. QED
    BY <1>1, <1>2 DEF Deliver

\* What an action is taken for, of the file that it would write.
LEMMA ActionFacts ==
  ASSUME NEW t, NEW v, NEW entry
  PROVE  LET a == Action(entry, t, v) IN
         /\ a \in Writes => Shipped[v][t] # NoBaseline
         /\ a = "create" => file[t] = Absent
         /\ a = "update_in_place" => entry # Nothing /\ file[t] = entry.target
         /\ a = "adopt" => file[t] = Shipped[v][t]
         /\ a = "write_alongside" => file[t] \notin {Absent, NotAFile, Unreadable}
  BY DEF Action, AlongsideAction, Writes

\* The same of the item at which a refresh is.
LEMMA PlannedFacts ==
  ASSUME NEW p \in Procs
  PROVE  /\ Planned(p) \in Writes => Source(p) # NoBaseline
         /\ Planned(p) = "create" => file[Target(p)] = Absent
         /\ Planned(p) = "update_in_place" =>
              job[p].copy[Target(p)] # Nothing /\ file[Target(p)] = job[p].copy[Target(p)].target
         /\ Planned(p) = "adopt" => file[Target(p)] = Source(p)
         /\ Planned(p) = "write_alongside" => file[Target(p)] \notin {Absent, NotAFile, Unreadable}
  <1>1. PICK t, v, entry : t = Target(p) /\ v = job[p].version /\ entry = job[p].copy[Target(p)]
    OBVIOUS
  <1>2. Planned(p) = Action(entry, t, v) /\ Source(p) = Shipped[v][t]
    BY <1>1 DEF Planned, Source
  <1>3. QED
    BY <1>1, <1>2, ActionFacts

\* A run starts, or a step of it that passes an item with nothing done.
LEMMA PassIInv ==
  ASSUME ShippedAssumption, ConfigsIInv, NEW p \in Procs, job[p].mode # "idle", job[p].next <= Len(Profile),
         NEW s \in BOOLEAN, Become(p, [Passed(p) EXCEPT !.skipped = s]),
         UNCHANGED <<file, beside, manifest, offered>>,
         job[p].mode = "refresh" => Planned(p) \notin Writes
  PROVE  ConfigsIInv'
  <1>1. PICK r : r = [Passed(p) EXCEPT !.skipped = s]
    OBVIOUS
  <1>2. job[p] \in Jobs
    BY DEF ConfigsIInv, ConfigsType
  <1>3. /\ r \in Jobs /\ r.mode = job[p].mode /\ r.version = job[p].version /\ r.next = job[p].next + 1
        /\ r.copy = job[p].copy /\ r.touched = job[p].touched /\ r.undisturbed = job[p].undisturbed
    <2>1. r = [mode |-> job[p].mode, version |-> job[p].version, next |-> job[p].next + 1,
               copy |-> job[p].copy, touched |-> job[p].touched,
               skipped |-> s, undisturbed |-> job[p].undisturbed]
      BY <1>1, <1>2 DEF Passed, Jobs
    <2>2. QED
      BY <1>2, <2>1 DEF Jobs
  <1>4. Become(p, r)
    BY <1>1 DEF Become
  <1>5. QED
    BY <1>3, <1>4, PassedIInv

\* An item of a refresh.
LEMMA RefreshItemIInv == ASSUME ShippedAssumption, ConfigsIInv, NEW p \in Procs, RefreshItem(p) PROVE ConfigsIInv'
  <1>1. job[p].mode = "refresh" /\ job[p].mode # "idle" /\ job[p].next <= Len(Profile) /\ UNCHANGED manifest
    BY DEF RefreshItem, AtItem
  <1>2. CASE Planned(p) \in {"create", "update_in_place"} /\ Install(p)
    BY <1>1, <1>2, PlannedFacts, InstallIInv DEF Writes
  <1>3. CASE Planned(p) = "adopt" /\ Adopt(p)
    BY <1>1, <1>3, PlannedFacts, AdoptIInv
  <1>4. CASE Planned(p) = "write_alongside" /\ Deliver(p)
    BY <1>1, <1>4, PlannedFacts, DeliverIInv DEF Writes
  <1>5. CASE Planned(p) \notin Writes /\ Become(p, Passed(p)) /\ UNCHANGED <<file, beside, offered>>
    <2>1. PICK s : s = job[p].skipped
      OBVIOUS
    <2>2. s \in BOOLEAN /\ Passed(p) = [Passed(p) EXCEPT !.skipped = s]
      BY <2>1 DEF ConfigsIInv, ConfigsType, Passed, Jobs
    <2>3. Become(p, [Passed(p) EXCEPT !.skipped = s])
      BY <1>5, <2>2 DEF Become
    <2>4. QED
      BY <1>1, <1>5, <2>2, <2>3, PassIInv
  <1>6. QED
    BY <1>2, <1>3, <1>4, <1>5 DEF RefreshItem

\* An item of an init.
LEMMA InitItemIInv == ASSUME ShippedAssumption, ConfigsIInv, NEW p \in Procs, InitItem(p) PROVE ConfigsIInv'
  <1>1. job[p].mode = "init" /\ job[p].mode # "idle" /\ job[p].next <= Len(Profile) /\ UNCHANGED manifest
    BY DEF InitItem, AtItem
  <1>2. CASE Source(p) # NoBaseline /\ file[Target(p)] = Absent /\ Install(p)
    BY <1>1, <1>2, InstallIInv
  <1>3. CASE /\ Become(p, [Passed(p) EXCEPT !.skipped =
                        @ \/ (Source(p) # NoBaseline /\ file[Target(p)] # NotAFile)])
             /\ UNCHANGED <<file, beside, offered>>
    <2>1. PICK s : s = (Passed(p).skipped \/ (Source(p) # NoBaseline /\ file[Target(p)] # NotAFile))
      OBVIOUS
    <2>2. Become(p, [Passed(p) EXCEPT !.skipped = s]) /\ s \in BOOLEAN
      BY <1>3, <2>1 DEF Become
    <2>3. QED
      BY <1>1, <1>3, <2>2, PassIInv
  <1>4. QED
    BY <1>2, <1>3 DEF InitItem

\* An item of an adopt.
LEMMA AdoptItemIInv == ASSUME ShippedAssumption, ConfigsIInv, NEW p \in Procs, AdoptItem(p) PROVE ConfigsIInv'
  <1>1. job[p].mode = "adopt" /\ job[p].mode # "idle" /\ job[p].next <= Len(Profile) /\ UNCHANGED manifest
    BY DEF AdoptItem, AtItem
  <1>2. CASE file[Target(p)] = Source(p) /\ Adopt(p)
    BY <1>1, <1>2, AdoptIInv
  <1>3. CASE Become(p, Passed(p)) /\ UNCHANGED <<file, beside, offered>>
    <2>1. PICK s : s = job[p].skipped
      OBVIOUS
    <2>2. s \in BOOLEAN /\ Passed(p) = [Passed(p) EXCEPT !.skipped = s]
      BY <2>1 DEF ConfigsIInv, ConfigsType, Passed, Jobs
    <2>3. Become(p, [Passed(p) EXCEPT !.skipped = s])
      BY <1>3, <2>2 DEF Become
    <2>4. QED
      BY <1>1, <1>3, <2>2, <2>3, PassIInv
  <1>4. QED
    BY <1>2, <1>3 DEF AdoptItem

\* A run reads the manifest and starts.
LEMMA StartIInv ==
  ASSUME ShippedAssumption, ConfigsIInv, NEW p \in Procs, NEW mode \in {"refresh", "init"},
         NEW v \in 1 .. MaxVersion, Start(p, mode, v)
  PROVE  ConfigsIInv'
  <1>1. PICK r : r = [mode |-> mode, version |-> v, next |-> 1, copy |-> manifest,
                      touched |-> FALSE, skipped |-> FALSE, undisturbed |-> TRUE]
    OBVIOUS
  <1>2. ConfigsType /\ Len(Profile) \in Nat
    BY DEF ConfigsIInv, ShippedAssumption
  <1>3. r \in Jobs /\ r.copy = manifest /\ r.version = v /\ r.next = 1 /\ r.touched = FALSE
    BY <1>1, <1>2 DEF Jobs, ConfigsType
  <1>4. Become(p, r) /\ UNCHANGED <<file, beside, manifest, offered>>
    BY <1>1 DEF Start, Become
  <1>5. EntriesMeetADelivery(manifest)' /\ EntriesMeetADelivery(r.copy)'
    BY <1>3, <1>4 DEF ConfigsIInv, EntriesMeetADelivery
  <1>6. SettledUpTo(p)'
    <2>1. job'[p] = r
      BY <1>2, <1>4, OthersStay
    <2>2. ~(\E i \in 1 .. Len(Profile) : i < 1)
      BY <1>2
    <2>3. QED
      BY <1>2, <1>3, <1>4, <2>1, <2>2 DEF SettledUpTo
  <1>7. file' \in [Targets -> Contents] /\ manifest' \in Manifests /\ offered \subseteq offered'
    BY <1>2, <1>4 DEF ConfigsType
  <1>8. QED
    BY <1>3, <1>4, <1>5, <1>6, <1>7, BecomeIInv

\* The run's copy becomes the manifest, or is lost.
LEMMA EndsWithIInv ==
  ASSUME ShippedAssumption, ConfigsIInv, NEW p \in Procs, job[p].mode # "idle",
         NEW written \in BOOLEAN, EndsWith(p, written)
  PROVE  ConfigsIInv'
  <1>1. ConfigsType /\ job[p] \in Jobs
    BY DEF ConfigsIInv, ConfigsType
  <1>2. UNCHANGED <<file, beside, offered>> /\ manifest' \in {manifest, job[p].copy}
    BY DEF EndsWith
  <1>3. manifest' \in Manifests /\ EntriesMeetADelivery(manifest)'
    BY <1>1, <1>2 DEF ConfigsIInv, ConfigsType, Jobs, EntriesMeetADelivery
  <1>4. file' \in [Targets -> Contents] /\ offered \subseteq offered'
    BY <1>1, <1>2 DEF ConfigsType
  <1>5. CASE job[p].mode = "init" /\ job[p].skipped
    <2>1. PICK r : r = [job[p] EXCEPT !.mode = "adopt", !.next = 1, !.copy = manifest', !.touched = FALSE]
      OBVIOUS
    <2>2. r = [mode |-> "adopt", version |-> job[p].version, next |-> 1, copy |-> manifest',
               touched |-> FALSE, skipped |-> job[p].skipped, undisturbed |-> job[p].undisturbed]
      BY <1>1, <2>1 DEF Jobs
    <2>3. /\ r \in Jobs /\ r.mode = "adopt" /\ r.version = job[p].version /\ r.next = 1 /\ r.copy = manifest'
      BY <1>1, <1>3, <2>2 DEF Jobs
    <2>4. r.version \in 1 .. MaxVersion
      BY <1>1, <2>3 DEF ConfigsType
    <2>5. Become(p, r)
      BY <1>5, <2>1 DEF EndsWith, Become
    <2>6. EntriesMeetADelivery(r.copy)'
      BY <1>3, <2>3 DEF EntriesMeetADelivery
    <2>7. QED
      BY <1>3, <1>4, <2>3, <2>4, <2>5, <2>6, BecomeIInv
  <1>6. CASE ~(job[p].mode = "init" /\ job[p].skipped)
    <2>1. PICK r : r = Idle
      OBVIOUS
    <2>2. r \in Jobs /\ r.mode = "idle" /\ r.copy = [t \in Targets |-> Nothing]
      BY <2>1 DEF Idle, Jobs, Manifests
    <2>3. Become(p, r)
      BY <1>6, <2>1 DEF EndsWith, Become
    <2>4. EntriesMeetADelivery(r.copy)'
      BY <2>2 DEF EntriesMeetADelivery
    <2>5. QED
      BY <1>3, <1>4, <2>2, <2>3, <2>4, BecomeIInv
  <1>7. QED
    BY <1>5, <1>6

\* A run dies, and so writes no manifest.
LEMMA CrashIInv == ASSUME ShippedAssumption, ConfigsIInv, NEW p \in Procs, Crash(p) PROVE ConfigsIInv'
  <1>1. PICK r : r = Idle
    OBVIOUS
  <1>2. r \in Jobs /\ r.mode = "idle" /\ r.copy = [t \in Targets |-> Nothing]
    BY <1>1 DEF Idle, Jobs, Manifests
  <1>3. Become(p, r) /\ UNCHANGED <<file, manifest, offered>>
    BY <1>1 DEF Crash, Become
  <1>4. EntriesMeetADelivery(r.copy)' /\ EntriesMeetADelivery(manifest)'
    BY <1>2, <1>3 DEF ConfigsIInv, EntriesMeetADelivery
  <1>5. file' \in [Targets -> Contents] /\ manifest' \in Manifests /\ offered \subseteq offered'
    BY <1>3 DEF ConfigsIInv, ConfigsType
  <1>6. QED
    BY <1>2, <1>3, <1>4, <1>5, BecomeIInv

\* The user changes no entry, though one may be lost, and disturbs all runs.
LEMMA UserIInv == ASSUME ShippedAssumption, ConfigsIInv, User PROVE ConfigsIInv'
  <1>1. /\ Disturb /\ UNCHANGED offered
        /\ file' \in [Targets -> Contents]
        /\ manifest' \in Manifests
        /\ \A t \in Targets : manifest'[t] \in {Nothing, manifest[t]}
    <2>0. ConfigsType
      BY DEF ConfigsIInv
    <2>1. ASSUME NEW t \in Targets, NEW c \in Edits \cup {Absent, NotAFile}, Write(t, c)
          PROVE  /\ Disturb /\ UNCHANGED <<offered, manifest>> /\ file' \in [Targets -> Contents]
      BY <2>0, <2>1 DEF Write, ConfigsType, Contents
    <2>2. ASSUME NEW d \in beside, Dispose(d)
          PROVE  /\ Disturb /\ UNCHANGED <<offered, manifest>> /\ file' \in [Targets -> Contents]
      BY <2>0, <2>2 DEF Dispose, ConfigsType
    <2>3. ASSUME NEW t \in Targets, LoseEntry(t)
          PROVE  /\ Disturb /\ UNCHANGED offered /\ file' \in [Targets -> Contents] /\ manifest' \in Manifests
                 /\ \A s \in Targets : manifest'[s] \in {Nothing, manifest[s]}
      BY <2>0, <2>3 DEF LoseEntry, ConfigsType, Manifests
    <2>4. QED
      BY <2>0, <2>1, <2>2, <2>3 DEF User, ConfigsType
  <1>2. \A q \in Procs : /\ job'[q] = [job[q] EXCEPT !.undisturbed = FALSE] /\ job[q] \in Jobs
    BY <1>1 DEF Disturb, ConfigsIInv, ConfigsType
  <1>3. /\ job' \in [Procs -> Jobs]
        /\ \A q \in Procs : /\ ~job'[q].undisturbed /\ job'[q].copy = job[q].copy /\ job'[q].mode = job[q].mode
                            /\ job'[q].version = job[q].version /\ job'[q].next = job[q].next
    BY <1>1, <1>2 DEF Disturb, Jobs
  <1>4. ConfigsType'
    BY <1>1, <1>3 DEF ConfigsIInv, ConfigsType
  <1>5. EntriesMeetADelivery(manifest)'
    BY <1>1 DEF ConfigsIInv, EntriesMeetADelivery
  <1>6. ASSUME NEW q \in Procs PROVE EntriesMeetADelivery(job[q].copy)'
    BY <1>1, <1>3 DEF ConfigsIInv, EntriesMeetADelivery
  <1>7. QED
    BY <1>3, <1>4, <1>5, <1>6 DEF ConfigsIInv

\* Every item of every run, its end, and everything the user does.
LEMMA NextConfigsIInv == ASSUME ShippedAssumption PROVE ConfigsIInv /\ [ConfigsNext]_configVars => ConfigsIInv'
  <1> SUFFICES ASSUME ConfigsIInv, [ConfigsNext]_configVars PROVE ConfigsIInv'
    OBVIOUS
  <1>1. ASSUME NEW p \in Procs, Finish(p) \/ FinishUnwritten(p) PROVE ConfigsIInv'
    <2>1. PICK written : written \in BOOLEAN /\ EndsWith(p, written) /\ job[p].mode # "idle"
      <3>1. CASE FinishUnwritten(p)
        BY <3>1 DEF FinishUnwritten
      <3>2. CASE Finish(p)
        <4>1. job[p].touched \in BOOLEAN
          BY DEF ConfigsIInv, ConfigsType, Jobs
        <4>2. QED
          BY <3>2, <4>1 DEF Finish
      <3>3. QED
        BY <1>1, <3>1, <3>2
    <2>2. QED
      BY <2>1, EndsWithIInv
  <1>2. ASSUME NEW p \in Procs, Tool(p) PROVE ConfigsIInv'
    BY <1>1, <1>2, StartIInv, RefreshItemIInv, InitItemIInv, AdoptItemIInv DEF Tool
  <1>3. CASE UNCHANGED configVars
    <2>1. /\ ConfigsType' /\ EntriesMeetADelivery(manifest)'
          /\ \A p \in Procs : EntriesMeetADelivery(job[p].copy)'
      BY <1>3 DEF configVars, ConfigsIInv, ConfigsType, EntriesMeetADelivery
    <2>2. ASSUME NEW p \in Procs, job'[p].mode = "refresh", job'[p].undisturbed PROVE SettledUpTo(p)'
      <3>1. SettledUpTo(p)
        BY <1>3, <2>2 DEF configVars, ConfigsIInv
      <3>2. QED
        BY <1>3, <3>1 DEF configVars, SettledUpTo, Action, AlongsideAction, Pending
    <2>3. QED
      BY <2>1, <2>2 DEF ConfigsIInv
  <1>4. QED
    BY <1>2, <1>3, UserIInv, CrashIInv DEF ConfigsNext

\* What the manifest and the runs' copies of it say, in every state.
THEOREM ConfigsInvariance == ASSUME ShippedAssumption PROVE ConfigsSpec => []ConfigsIInv
  BY InitConfigsIInv, NextConfigsIInv, PTL DEF ConfigsSpec

\* Whichever runs, users, crashes and lost entries: what the user wrote is
\* replaced only after a baseline was delivered beside it.
THEOREM ReplacedMetADelivery == ASSUME ShippedAssumption PROVE ConfigsSpec => EditsMeetADelivery
  <1>1. ConfigsIInv /\ [ConfigsNext]_configVars => [ReplacesWhatMetADelivery]_configVars
    <2> SUFFICES ASSUME ConfigsIInv, NEW p \in Procs, Tool(p), NEW t \in Targets,
                        file[t] \in Edits, file'[t] # file[t]
                 PROVE  <<t, file[t]>> \in offered
      BY DEF ReplacesWhatMetADelivery
    <2>1. file[t] \notin {Absent, NotAFile, Unreadable}
      BY DEF ShippedAssumption
    <2>2. ConfigsType
      BY DEF ConfigsIInv
    <2>3. CASE \E mode \in {"refresh", "init"}, v \in 1 .. MaxVersion : Start(p, mode, v)
      BY <2>3 DEF Start
    <2>4. CASE RefreshItem(p)
      <3>1. job[p].mode # "idle" /\ job[p].next <= Len(Profile)
        BY <2>4 DEF RefreshItem, AtItem
      <3>2. Planned(p) \in {"create", "update_in_place"} /\ file' = [file EXCEPT ![Target(p)] = Source(p)]
        BY <2>4 DEF RefreshItem, Install, Fails, Adopt, Deliver
      <3>3. t = Target(p)
        BY <2>2, <3>2 DEF ConfigsType
      <3>4. job[p].copy[t] # Nothing /\ file[t] = job[p].copy[t].target
        BY <2>1, <3>2, <3>3, PlannedFacts
      <3>5. QED
        BY <3>4 DEF ConfigsIInv, EntriesMeetADelivery
    <2>5. CASE InitItem(p)
      <3>1. file[Target(p)] = Absent /\ file' = [file EXCEPT ![Target(p)] = Source(p)]
        BY <2>5 DEF InitItem, Install, Fails
      <3>2. QED
        BY <2>1, <2>2, <3>1 DEF ConfigsType
    <2>6. CASE AdoptItem(p)
      BY <2>6 DEF AdoptItem, Adopt
    <2>7. CASE Finish(p) \/ FinishUnwritten(p)
      BY <2>7 DEF Finish, FinishUnwritten, EndsWith
    <2>8. QED
      BY <2>3, <2>4, <2>5, <2>6, <2>7 DEF Tool
  <1>2. QED
    BY ConfigsInvariance, <1>1, PTL DEF ConfigsSpec, EditsMeetADelivery

\* A refresh that nobody disturbed, whatever it found, settles.
THEOREM UndisturbedRefreshSettles == ASSUME ShippedAssumption PROVE ConfigsSpec => RefreshSettles
  <1>1. ConfigsIInv /\ [ConfigsNext]_configVars => [LeavesNothingToDo]_configVars
    <2> SUFFICES ASSUME ConfigsIInv, NEW p \in Procs, NEW v \in 1 .. MaxVersion, NEW t \in Targets,
                        job[p].mode = "refresh", job[p].version = v, job[p].undisturbed, Finish(p)
                 PROVE  Action(manifest[t], t, v)' \notin Writes
      BY DEF LeavesNothingToDo
    <2>1. SettledUpTo(p) /\ ConfigsType
      BY DEF ConfigsIInv
    <2>2. job[p].next > Len(Profile) /\ manifest' = job[p].copy /\ UNCHANGED <<file, beside>>
      BY <2>1 DEF Finish, EndsWith, SettledUpTo
    <2>3. PICK i \in 1 .. Len(Profile) : t = Profile[i]
      BY DEF Targets
    <2>4. Len(Profile) \in Nat /\ job[p].next \in Nat
      BY <2>1 DEF ShippedAssumption, ConfigsType, Jobs
    <2>5. i < job[p].next
      BY <2>2, <2>4
    <2>6. PICK e : e = job[p].copy[t]
      OBVIOUS
    <2>7. Action(e, t, v) \notin Writes
      BY <2>1, <2>3, <2>5, <2>6 DEF SettledUpTo
    <2>8. Action(e, t, v)' = Action(e, t, v)
      BY <2>2 DEF Action, AlongsideAction, Pending
    <2>9. Action(manifest[t], t, v)' = Action(e, t, v)'
      BY <2>2, <2>6
    <2>10. QED
      BY <2>7, <2>8, <2>9
  <1>2. QED
    BY ConfigsInvariance, <1>1, PTL DEF ConfigsSpec, RefreshSettles

-----------------------------------------------------------------------------
(*************************************************************************)
(* The open set: the folded index answers as each newer scan would, the  *)
(* walk carries what is open, and stopping early loses nothing of it.    *)
(*************************************************************************)

Admissions ==
  [all : BOOLEAN, files : SUBSET Files, rules : SUBSET Rules, pairs : SUBSET (Files \X Rules)]
States == [admit : Admissions, met : SUBSET Admissions, closed : BOOLEAN, wide : BOOLEAN]

\* Every scan of the chain that looks at the class leaves out the finding.
Kept(cls, f) ==
  \A i \in 1 .. Len(chain) : Looks(cls, chain[i], f.key) => NarrowGap(chain[i], f)

\* What a class admits are the findings kept, or more once a meet was given up.
FoldsTheKept ==
  \A x \in Classes : \A f \in Findings : f.key = x[1] =>
    /\ Kept(x[2], f) => ~fold[x].closed /\ Admits(fold[x].admit, f) /\ \A c \in fold[x].met : Admits(c, f)
    /\ ~fold[x].closed /\ Admits(fold[x].admit, f) => Kept(x[2], f) \/ fold[x].wide

\* The two ways in which the chain closes a key as a whole.
KeysTold ==
  /\ sawEmpty <=> \E i \in 1 .. Len(chain) : Empty(chain[i])
  /\ \A k \in Keys :
       k \in notRun <=> \E i \in 1 .. Len(chain) : ~Empty(chain[i]) /\ KeyVerdict(chain[i], k) = "not_run"

IndexIInv ==
  /\ slot \in Slots /\ chain \in Seq(BooksOf[slot]) /\ fold \in [Classes -> States]
  /\ FoldsTheKept /\ KeysTold

-----------------------------------------------------------------------------
\* A pass's constraint admits what it leaves out.
LEMMA ConstraintAdmits ==
  ASSUME NEW book \in AllBooks, NEW f \in Findings
  PROVE  /\ Constraint(book, f.key) \in Admissions /\ ~Constraint(book, f.key).all
         /\ Admits(Constraint(book, f.key), f) <=> NarrowGap(book, f)
         /\ NoNarrowGap(Constraint(book, f.key)) => ~NarrowGap(book, f)
  <1> DEFINE c == Constraint(book, f.key)
             measuring == {r \in book.runs : MeasuresOk(r, f.key)}
             files == UNION {r.files : r \in measuring}
  <1>1. /\ c.all = FALSE /\ c.files = files /\ c.rules = UNION {r.rules : r \in measuring}
        /\ c.pairs = {p \in Files \X Rules : /\ p[2] \in PackRules /\ p[1] \notin files
                                             /\ \E r \in measuring : p[1] \in r.pack}
    BY DEF Constraint
  <1>2. files \subseteq Files /\ UNION {r.rules : r \in measuring} \subseteq Rules
    BY BooksAssumption
  <1>3. c \in Admissions
    BY <1>2 DEF Constraint, Admissions
  <1>4. f.file \in Files /\ f.rule \in Rules
    BY DEF Findings
  <1>5. f.file \in c.files <=> \E r \in measuring : f.file \in r.files
    BY <1>1
  <1>6. f.rule \in c.rules <=> \E r \in measuring : f.rule \in r.rules
    BY <1>1
  <1>7. <<f.file, f.rule>> \in c.pairs <=>
          f.rule \in PackRules /\ f.file \notin files /\ \E r \in measuring : f.file \in r.pack
    BY <1>1, <1>4
  <1>8. NarrowGap(book, f) <=> \E r \in measuring : LeftOut(r, f)
    BY DEF NarrowGap
  <1>9. Admits(c, f) <=> NarrowGap(book, f)
    BY <1>1, <1>5, <1>6, <1>7, <1>8 DEF Admits, LeftOut
  <1>10. NoNarrowGap(c) => ~Admits(c, f)
    BY <1>1 DEF NoNarrowGap, Admits
  <1>11. QED
    BY <1>1, <1>3, <1>9, <1>10

\* The exact meet of two admissions admits what both do.
LEMMA ExactMeetAdmits ==
  ASSUME NEW s \in Admissions, NEW c \in Admissions, ~s.all, ~c.all, NEW f \in Findings
  PROVE  /\ ExactMeet(s, c) \in Admissions
         /\ Admits(ExactMeet(s, c), f) <=> Admits(s, f) /\ Admits(c, f)
  <1> DEFINE m == ExactMeet(s, c)
             p == <<f.file, f.rule>>
  <1>1. f.file \in Files /\ f.rule \in Rules /\ p \in Files \X Rules /\ p[1] = f.file /\ p[2] = f.rule
    BY DEF Findings
  <1>2. ~m.all /\ m.files = s.files \cap c.files /\ m.rules = s.rules \cap c.rules
    BY DEF ExactMeet
  <1>3. p \in m.pairs <=>
          /\ f.file \notin m.files /\ f.rule \notin m.rules
          /\ \/ p \in s.pairs /\ (f.file \in c.files \/ f.rule \in c.rules \/ p \in c.pairs)
             \/ f.file \in s.files \ c.files /\ (f.rule \in c.rules \/ p \in c.pairs)
             \/ f.rule \in s.rules \ c.rules /\ (f.file \in c.files \/ p \in c.pairs)
    BY <1>1 DEF ExactMeet
  <1>4. m \in Admissions
    BY DEF ExactMeet, Admissions
  <1>5. QED
    BY <1>2, <1>3, <1>4 DEF Admits

\* A class looks at a scan if the scan looks at all its targets.
LEMMA LooksByAll ==
  ASSUME NEW holder, NEW book, NEW key
  PROVE  Looks(ClassOf(holder, key), book, key) <=>
           /\ ~Empty(book) /\ KeyVerdict(book, key) = "measured"
           /\ ~TargetNotRun(holder, book, key)
  <1> DEFINE cls == ClassOf(holder, key)
             images == {t \in cls.targets : t.pass # ProjectFiles /\ t.ref # NoTarget}
             passes == {t \in cls.targets : t.pass # ProjectFiles}
             driver == IF images # {} THEN images ELSE IF passes # {} THEN passes ELSE cls.targets
  <1>1. cls.targets = {TargetOf(r) : r \in {q \in holder.runs : MeasuresOk(q, key)}}
    BY DEF ClassOf
  <1>2. LooksAtAll(cls, book, key) => InDriver(cls, book, key)
    <2> SUFFICES ASSUME LooksAtAll(cls, book, key), cls.targets # {}
                 PROVE  CoversTarget(book, key, CHOOSE t \in driver : TRUE)
      BY DEF InDriver
    <2>1. driver # {} /\ driver \subseteq cls.targets
      OBVIOUS
    <2>2. (CHOOSE t \in driver : TRUE) \in cls.targets
      BY <2>1
    <2>3. QED
      BY <2>2 DEF LooksAtAll
  <1>3. ~Empty(book) => (LooksAtAll(cls, book, key) <=> ~TargetNotRun(holder, book, key))
    BY <1>1 DEF LooksAtAll, TargetNotRun, CoversTarget
  <1>4. QED
    BY <1>2, <1>3 DEF Looks

\* What leaves a finding open, as the chain sees it.
LEMMA LeavesOpenByClass ==
  ASSUME NEW holder, NEW book, NEW f
  PROVE  LeavesOpen(holder, book, f) <=>
           /\ ~Empty(book)
           /\ KeyVerdict(book, f.key) = "not_run" => AskedFor(holder, f.key)
           /\ Looks(ClassOf(holder, f.key), book, f.key) => NarrowGap(book, f)
  <1>1. KeyVerdict(book, f.key) \in {"measured", "unmeasured", "not_run"}
    BY DEF KeyVerdict
  <1>2. CASE Empty(book)
    BY <1>2 DEF LeavesOpen, Verdict, TargetNotRun
  <1>3. CASE ~Empty(book)
    BY <1>1, <1>3, LooksByAll DEF LeavesOpen, Verdict
  <1>4. QED
    BY <1>2, <1>3

-----------------------------------------------------------------------------
\* Nothing is pushed.
LEMMA InitIndex == IndexInit => IndexIInv
  <1> SUFFICES ASSUME IndexInit PROVE IndexIInv
    OBVIOUS
  <1>1. AdmitAll \in Admissions /\ NewState \in States /\ AdmitAll.all
        /\ NewState.admit = AdmitAll /\ NewState.met = {} /\ ~NewState.closed
    BY DEF AdmitAll, Admissions, NewState, States
  <1>2. fold \in [Classes -> States] /\ \A x \in Classes : fold[x] = NewState
    BY <1>1 DEF IndexInit
  <1>3. chain = <<>> /\ Len(chain) = 0
    BY DEF IndexInit
  <1>4. FoldsTheKept
    BY <1>1, <1>2, <1>3 DEF FoldsTheKept, Kept, Admits
  <1>5. KeysTold
    BY <1>3 DEF KeysTold, IndexInit
  <1>6. QED
    BY <1>2, <1>3, <1>4, <1>5 DEF IndexIInv, IndexInit

\* One more scan that looks at a class, for one finding: `kept` says whether the
\* ones before it all leave it out.
LEMMA NarrowStep ==
  ASSUME NEW st \in States, NEW c \in Admissions, ~c.all, NEW f \in Findings, NEW kept \in BOOLEAN,
         NoNarrowGap(c) => ~Admits(c, f),
         kept => ~st.closed /\ Admits(st.admit, f) /\ \A d \in st.met : Admits(d, f),
         ~st.closed /\ Admits(st.admit, f) => kept \/ st.wide,
         ~st.closed
  PROVE  LET new == Narrow(st, c)
             keeps == kept /\ Admits(c, f)
         IN  /\ keeps => ~new.closed /\ Admits(new.admit, f) /\ \A d \in new.met : Admits(d, f)
             /\ ~new.closed /\ Admits(new.admit, f) => keeps \/ new.wide
  <1> DEFINE new == Narrow(st, c)
             admit == MeetAdmit(st.admit, c)
  <1>0. st.admit \in Admissions /\ st.met \subseteq Admissions
        /\ st = [admit |-> st.admit, met |-> st.met, closed |-> st.closed, wide |-> st.wide]
    BY DEF States
  <1>1. CASE NoNarrowGap(c)
    <2>1. new.closed
      BY <1>0, <1>1 DEF Narrow
    <2>2. QED
      BY <1>1, <2>1
  <1>2. CASE ~NoNarrowGap(c) /\ c \in st.met
    <2>1. new = st
      BY <1>2 DEF Narrow
    <2>2. QED
      BY <1>2, <2>1
  <1>3. CASE ~NoNarrowGap(c) /\ c \notin st.met
    <2>1. /\ new.admit = admit /\ new.met = st.met \cup {c} /\ new.closed = AdmitsNothing(admit)
          /\ new.wide = (st.wide \/ GivenUp(st.admit, c))
      BY <1>3 DEF Narrow
    <2>2. Admits(admit, f) => ~AdmitsNothing(admit)
      BY DEF Admits, AdmitsNothing
    <2>3. CASE st.admit.all
      <3>1. admit = c /\ Admits(st.admit, f)
        BY <2>3 DEF MeetAdmit, Admits
      <3>2. QED
        BY <2>1, <2>2, <3>1
    <2>4. CASE ~st.admit.all /\ PairBound(st.admit, c) > MaxPairs
      <3>1. admit = c /\ GivenUp(st.admit, c)
        BY <2>4 DEF MeetAdmit, GivenUp
      <3>2. QED
        BY <2>1, <2>2, <3>1
    <2>5. CASE ~st.admit.all /\ ~(PairBound(st.admit, c) > MaxPairs)
      <3>1. admit = ExactMeet(st.admit, c)
        BY <2>5 DEF MeetAdmit
      <3>2. Admits(admit, f) <=> Admits(st.admit, f) /\ Admits(c, f)
        BY <1>0, <2>5, <3>1, ExactMeetAdmits
      <3>3. QED
        BY <2>1, <2>2, <3>2
    <2>6. QED
      BY <2>3, <2>4, <2>5
  <1>4. QED
    BY <1>1, <1>2, <1>3

\* A state of the fold stays one, and what was given up stays so.
LEMMA AdvanceType ==
  ASSUME NEW st \in States, NEW cls, NEW book, NEW key, Constraint(book, key) \in Admissions
  PROVE  Advance(st, cls, book, key) \in States /\ (st.wide => Advance(st, cls, book, key).wide)
  <1> DEFINE c == Constraint(book, key)
             admit == MeetAdmit(st.admit, c)
  <1>0. st.admit \in Admissions /\ st.met \subseteq Admissions /\ st.wide \in BOOLEAN
        /\ st = [admit |-> st.admit, met |-> st.met, closed |-> st.closed, wide |-> st.wide]
    BY DEF States
  <1>1. ExactMeet(st.admit, c) \in Admissions
    BY DEF ExactMeet, Admissions
  <1>2. admit \in Admissions
    BY <1>1 DEF MeetAdmit
  <1>3. Narrow(st, c) \in States
    <2>1. [st EXCEPT !.closed = TRUE] \in States
      BY DEF States
    <2>2. AdmitsNothing(admit) \in BOOLEAN /\ GivenUp(st.admit, c) \in BOOLEAN
      BY DEF AdmitsNothing, GivenUp
    <2>3. [admit |-> admit, met |-> st.met \cup {c}, closed |-> AdmitsNothing(admit),
           wide |-> st.wide \/ GivenUp(st.admit, c)] \in States
      BY <1>0, <1>2, <2>2 DEF States
    <2>4. QED
      BY <2>1, <2>3 DEF Narrow
  <1>4. st.wide => Narrow(st, c).wide
    BY <1>0 DEF Narrow
  <1>5. QED
    BY <1>3, <1>4 DEF Advance

\* A scan is pushed.
LEMMA PushIndex ==
  ASSUME IndexIInv, NEW book \in BooksOf[slot], Push(book)
  PROVE  IndexIInv' /\ \A x \in Classes : fold[x].wide => fold'[x].wide
  <1> DEFINE n == Len(chain)
  <1>0. /\ slot \in Slots /\ slot' = slot /\ book \in AllBooks
        /\ chain \in Seq(BooksOf[slot]) /\ chain' = Append(chain, book)
        /\ fold \in [Classes -> States]
    BY DEF IndexIInv, Push, AllBooks
  <1>1. /\ n \in Nat /\ Len(chain') = n + 1 /\ chain'[n + 1] = book /\ chain' \in Seq(BooksOf[slot])
        /\ \A i \in 1 .. n : chain'[i] = chain[i]
        /\ \A i : i \in 1 .. n + 1 <=> i \in 1 .. n \/ i = n + 1
    BY <1>0
  <1>2. \A x \in Classes : fold'[x] = Advance(fold[x], x[2], book, x[1])
    BY DEF Push
  <1>3. ASSUME NEW x \in Classes
        PROVE  fold'[x] \in States /\ (fold[x].wide => fold'[x].wide)
    <2>1. Constraint(book, x[1]) \in Admissions
      <3> DEFINE measuring == {r \in book.runs : MeasuresOk(r, x[1])}
      <3>1. UNION {r.files : r \in measuring} \subseteq Files /\ UNION {r.rules : r \in measuring} \subseteq Rules
        BY <1>0, BooksAssumption
      <3>2. QED
        BY <3>1 DEF Constraint, Admissions
    <2>2. QED
      BY <1>0, <1>2, <2>1, AdvanceType
  <1>4. fold' \in [Classes -> States]
    BY <1>3 DEF Push
  <1>5. FoldsTheKept'
    <2> SUFFICES ASSUME NEW x \in Classes, NEW f \in Findings, f.key = x[1]
                 PROVE  /\ Kept(x[2], f)' =>
                             ~fold'[x].closed /\ Admits(fold'[x].admit, f) /\ \A d \in fold'[x].met : Admits(d, f)
                        /\ ~fold'[x].closed /\ Admits(fold'[x].admit, f) => Kept(x[2], f)' \/ fold'[x].wide
      BY DEF FoldsTheKept, Admits
    <2> DEFINE st == fold[x]
               c == Constraint(book, f.key)
               looks == Looks(x[2], book, f.key)
    <2>1. /\ Kept(x[2], f) => ~st.closed /\ Admits(st.admit, f) /\ \A d \in st.met : Admits(d, f)
          /\ ~st.closed /\ Admits(st.admit, f) => Kept(x[2], f) \/ st.wide
      BY DEF IndexIInv, FoldsTheKept
    <2>2. Kept(x[2], f)' <=> Kept(x[2], f) /\ (looks => NarrowGap(book, f))
      BY <1>1 DEF Kept
    <2>3. /\ c \in Admissions /\ ~c.all /\ (Admits(c, f) <=> NarrowGap(book, f))
          /\ (NoNarrowGap(c) => ~Admits(c, f))
      BY <1>0, ConstraintAdmits
    <2>4. CASE st.closed \/ ~looks
      <3>1. fold'[x] = st
        BY <1>2, <2>4 DEF Advance
      <3>2. QED
        BY <2>1, <2>2, <2>4, <3>1
    <2>5. CASE ~st.closed /\ looks
      <3>1. fold'[x] = Narrow(st, c)
        BY <1>2, <2>5 DEF Advance
      <3>2. st \in States
        BY <1>0
      <3> DEFINE kept == Kept(x[2], f)
      <3>3. kept \in BOOLEAN
        BY DEF Kept
      <3>4. kept => ~st.closed /\ Admits(st.admit, f) /\ \A d \in st.met : Admits(d, f)
        BY <2>1
      <3>5. ~st.closed /\ Admits(st.admit, f) => kept \/ st.wide
        BY <2>1
      <3>6. Kept(x[2], f)' <=> kept /\ Admits(c, f)
        BY <2>2, <2>3, <2>5
      <3> HIDE DEF kept, c, st
      <3>7. LET new == Narrow(st, c)
                keeps == kept /\ Admits(c, f)
            IN  /\ keeps => ~new.closed /\ Admits(new.admit, f) /\ \A d \in new.met : Admits(d, f)
                /\ ~new.closed /\ Admits(new.admit, f) => keeps \/ new.wide
        BY <2>3, <2>5, <3>2, <3>3, <3>4, <3>5, NarrowStep
      <3>8. QED
        BY <3>1, <3>6, <3>7
    <2>6. QED
      BY <2>4, <2>5
  <1>6. KeysTold'
    BY <1>1 DEF IndexIInv, KeysTold, Push
  <1>7. QED
    BY <1>0, <1>1, <1>3, <1>4, <1>5, <1>6 DEF IndexIInv

-----------------------------------------------------------------------------
\* The class of a holder, or of the widest one, is folded.
LEMMA ClassIsFolded ==
  ASSUME NEW k \in Keys
  PROVE  /\ \A h \in AllBooks : <<k, ClassOf(h, k)>> \in Classes
         /\ \A names \in SUBSET (Names \cup Unlisted) : <<k, ClassOf(Widening(names), k)>> \in Classes
  BY DEF Classes

\* All scans of the chain leave a finding open if none is empty, none leaves its
\* key aside unasked, and those that look at its class leave it out.
LEMMA OpenByClass ==
  ASSUME IndexIInv, NEW holder, NEW f \in Findings
  PROVE  (\A i \in 1 .. Len(chain) : LeavesOpen(holder, chain[i], f)) <=>
           /\ ~sawEmpty /\ (f.key \in notRun => AskedFor(holder, f.key))
           /\ Kept(ClassOf(holder, f.key), f)
  <1>1. f.key \in Keys
    BY DEF Findings
  <1>2. \A i \in 1 .. Len(chain) : LeavesOpen(holder, chain[i], f) <=>
          /\ ~Empty(chain[i])
          /\ KeyVerdict(chain[i], f.key) = "not_run" => AskedFor(holder, f.key)
          /\ Looks(ClassOf(holder, f.key), chain[i], f.key) => NarrowGap(chain[i], f)
    BY LeavesOpenByClass
  <1>3. /\ sawEmpty <=> \E i \in 1 .. Len(chain) : Empty(chain[i])
        /\ f.key \in notRun <=>
             \E i \in 1 .. Len(chain) : ~Empty(chain[i]) /\ KeyVerdict(chain[i], f.key) = "not_run"
    BY <1>1 DEF IndexIInv, KeysTold
  <1>4. QED
    BY <1>2, <1>3 DEF Kept

\* The index says of a finding what asking each newer scan says.
LEMMA IndexIsExact == IndexIInv => IndexExact
  <1> SUFFICES ASSUME IndexIInv, NEW holder \in BooksOf[slot], NEW f \in Producible(holder)
               PROVE  LET cls  == ClassOf(holder, f.key)
                          open == \A i \in 1 .. Len(chain) : LeavesOpen(holder, chain[i], f)
                      IN  /\ open => ScopeAdmits(cls, f)
                          /\ ScopeAdmits(cls, f) => open \/ fold[<<f.key, cls>>].wide
    BY DEF IndexExact
  <1> DEFINE cls == ClassOf(holder, f.key)
             x == <<f.key, cls>>
  <1>1. f \in Findings /\ f.key \in Keys /\ holder \in AllBooks
    BY DEF Producible, Findings, AllBooks, IndexIInv
  <1>2. x \in Classes /\ x[1] = f.key /\ x[2] = cls /\ cls.onRequest = AskedFor(holder, f.key)
    BY <1>1, ClassIsFolded DEF ClassOf
  <1>3. /\ Kept(cls, f) => ~fold[x].closed /\ Admits(fold[x].admit, f)
        /\ ~fold[x].closed /\ Admits(fold[x].admit, f) => Kept(cls, f) \/ fold[x].wide
    BY <1>1, <1>2 DEF IndexIInv, FoldsTheKept
  <1>4. ScopeAdmits(cls, f) <=>
          /\ ~sawEmpty /\ (f.key \in notRun => AskedFor(holder, f.key))
          /\ ~fold[x].closed /\ Admits(fold[x].admit, f)
    BY <1>2 DEF ScopeAdmits, Never
  <1>5. QED
    BY <1>1, <1>3, <1>4, OpenByClass

-----------------------------------------------------------------------------
\* The chain is what the walk has read of the history.
Walked ==
  /\ history \in Seq(Usable) /\ walking \in BOOLEAN
  /\ history # <<>> =>
       Len(chain) <= Len(history) /\ \A i \in 1 .. Len(chain) : chain[i] = history[i].book
  /\ history = <<>> \/ chain = <<>> => carried = {}
  /\ \A c \in carried : c[1] \in 1 .. Len(history) /\ c[2] \in Findings

OpenIInv == IndexIInv /\ Walked /\ CarriesTheOpen /\ StopLosesNothing

\* What a scan of the history reports, a scan with its bookkeeping can have.
LEMMA HistoryScans ==
  ASSUME IndexIInv, Walked, NEW i \in 1 .. Len(history)
  PROVE  /\ history[i].book \in BooksOf[slot] /\ history[i].book \in AllBooks
         /\ history[i].reports \subseteq Producible(history[i].book)
         /\ history[i].reports \subseteq Findings
  BY DEF Walked, Usable, Producible, IndexIInv, AllBooks

\* A scan can have findings of a key only if one of its passes produces it.
LEMMA ProducibleKeys ==
  ASSUME NEW book, NEW f \in Producible(book)
  PROVE  f.key \in ProducedKeys(book)
  <1>1. f \in Findings /\ f.key \in Keys
    BY DEF Producible, Findings
  <1>2. CASE Empty(book)
    BY <1>1, <1>2, BooksAssumption DEF ProducedKeys
  <1>3. CASE ~Empty(book)
    <2>1. PICK r \in book.runs :
            r.status # "skipped" /\ IF r.name \in Names THEN f.key \in Measures[r.name] ELSE f.key = UnknownKey
      BY <1>3 DEF Producible
    <2>2. f.key \in KeysProduced(r)
      BY <2>1, TableAssumption DEF KeysProduced, KeysOfRun
    <2>3. QED
      BY <1>3, <2>1, <2>2 DEF ProducedKeys
  <1>4. QED
    BY <1>2, <1>3

\* Pushed scans leave what is held open by older ones, and what was given up.
LEMMA HeldOpenStays ==
  ASSUME UNCHANGED history, NEW i, NEW f
  PROVE  HeldOpen(i, f)' <=> HeldOpen(i, f)
  BY DEF HeldOpen

\* Whatever the history, nothing is read.
LEMMA InitOpen == Init => OpenIInv
  <1> SUFFICES ASSUME Init PROVE OpenIInv
    OBVIOUS
  <1>1. IndexIInv
    BY InitIndex DEF Init
  <1>2. chain = <<>> /\ known = {} /\ carried = {} /\ walking = TRUE
    BY DEF Init, IndexInit
  <1>3. history \in Seq(Usable)
    <2>1. PICK n \in 0 .. MaxScans : history \in [1 .. n -> Usable]
      BY DEF Init
    <2>2. n \in Nat
      BY BoundAssumption
    <2>3. QED
      BY <2>1, <2>2
  <1>4. Walked
    BY <1>2, <1>3 DEF Walked
  <1>5. CarriesTheOpen /\ StopLosesNothing
    BY <1>2 DEF CarriesTheOpen, StopLosesNothing
  <1>6. QED
    BY <1>1, <1>4, <1>5 DEF OpenIInv

-----------------------------------------------------------------------------
\* The source is read: what it reports is open.
LEMMA ReadSourceOpen == ASSUME OpenIInv, ReadSource PROVE OpenIInv'
  <1>1. /\ chain = <<>> /\ history # <<>> /\ walking /\ walking' = walking
        /\ history' = history /\ carried' = carried /\ known' = history[1].reports
        /\ Push(history[1].book) /\ IndexIInv /\ Walked
    BY DEF ReadSource, OpenIInv
  <1>2. 1 \in 1 .. Len(history) /\ slot' = slot /\ chain' = <<history[1].book>>
    BY <1>1 DEF Walked, Push
  <1>3. IndexIInv'
    BY <1>1, <1>2, HistoryScans, PushIndex
  <1>4. Walked'
    BY <1>1, <1>2 DEF Walked, Usable, Producible
  <1>5. CarriesTheOpen'
    BY <1>1, <1>2 DEF CarriesTheOpen, HeldOpen, Walked
  <1>6. StopLosesNothing'
    BY <1>1 DEF StopLosesNothing
  <1>7. QED
    BY <1>3, <1>4, <1>5, <1>6 DEF OpenIInv

\* An older scan is read: what all newer ones left open is carried.
LEMMA ExamineOpen == ASSUME OpenIInv, Examine PROVE OpenIInv'
  <1> DEFINE i == Len(chain) + 1
             scan == history[i]
             taken == CarriedFrom(scan)
  <1>1. /\ walking /\ chain # <<>> /\ i <= Len(history) /\ Push(scan.book)
        /\ carried' = carried \cup {<<i, f>> : f \in taken} /\ known' = known \cup taken
        /\ history' = history /\ walking' = walking
        /\ IndexIInv /\ Walked /\ CarriesTheOpen
    BY DEF Examine, OpenIInv
  <1>2. /\ slot' = slot /\ chain' = Append(chain, scan.book) /\ chain \in Seq(BooksOf[slot])
    BY <1>1 DEF Push, IndexIInv
  <1>3. /\ Len(chain) \in Nat \ {0} /\ i \in 1 .. Len(history) /\ history # <<>>
        /\ Len(chain') = i /\ chain'[i] = scan.book /\ \A j \in 1 .. i - 1 : chain'[j] = chain[j]
        /\ \A j \in 1 .. Len(chain) : chain[j] = history[j].book
        /\ history \in Seq(Usable)
    BY <1>1, <1>2 DEF Walked
  <1>4. /\ scan.book \in BooksOf[slot] /\ scan.reports \subseteq Producible(scan.book)
        /\ scan.reports \subseteq Findings
    BY <1>1, <1>3, HistoryScans
  <1>5. IndexIInv' /\ \A x \in Classes : fold[x].wide => fold'[x].wide
    BY <1>1, <1>4, PushIndex
  <1>6. taken \subseteq Findings
    BY <1>4 DEF CarriedFrom
  <1>7. Walked'
    <2>1. Usable' = Usable
      BY <1>2 DEF Usable, Producible
    <2>2. carried' # {} => history # <<>> /\ chain' # <<>>
      BY <1>2, <1>3
    <2>3. QED
      BY <1>1, <1>3, <1>6, <2>1, <2>2 DEF Walked
  <1>8. \A f \in Producible(scan.book) :
          LET cls == ClassOf(scan.book, f.key)
          IN  /\ (\A j \in 1 .. i - 1 : LeavesOpen(scan.book, history[j].book, f)) => ScopeAdmits(cls, f)
              /\ ScopeAdmits(cls, f) =>
                   (\A j \in 1 .. i - 1 : LeavesOpen(scan.book, history[j].book, f)) \/ fold[<<f.key, cls>>].wide
    <2>1. IndexExact
      BY <1>1, IndexIsExact
    <2>2. QED
      BY <1>3, <1>4, <2>1 DEF IndexExact
  <1>9. \A f : HeldOpen(i, f) => f \in known'
    <2> SUFFICES ASSUME NEW f, HeldOpen(i, f), f \notin known PROVE f \in taken
      BY <1>1
    <2>1. f \in Producible(scan.book) /\ f \in scan.reports
      BY <1>4 DEF HeldOpen
    <2>2. \A j \in 1 .. i - 1 : LeavesOpen(scan.book, history[j].book, f)
      BY DEF HeldOpen
    <2>3. LeavesOpen(scan.book, chain[1], f)
      BY <1>3, <2>2
    <2>4. QED
      BY <1>8, <2>1, <2>2, <2>3, ProducibleKeys DEF CarriedFrom
  <1>10. CarriesTheOpen'
    <2>1. /\ {f \in Findings : \E j \in 1 .. Len(chain) : HeldOpen(j, f)} \subseteq known
          /\ \A c \in carried :
               \/ fold[<<c[2].key, ClassOf(history[c[1]].book, c[2].key)>>].wide
               \/ HeldOpen(c[1], c[2]) /\ \A j \in 1 .. c[1] - 1 : ~HeldOpen(j, c[2])
      BY <1>1, <1>3 DEF CarriesTheOpen
    <2>2. \A f \in Findings : (\E j \in 1 .. Len(chain') : HeldOpen(j, f)') => f \in known'
      BY <1>1, <1>3, <1>9, <2>1, HeldOpenStays
    <2>3. ASSUME NEW c \in carried'
          PROVE  \/ fold'[<<c[2].key, ClassOf(history[c[1]].book, c[2].key)>>].wide
                 \/ HeldOpen(c[1], c[2]) /\ \A j \in 1 .. c[1] - 1 : ~HeldOpen(j, c[2])
      <3> DEFINE cls == ClassOf(history[c[1]].book, c[2].key)
      <3>1. c[1] \in 1 .. Len(history) /\ c[2] \in Findings
        BY <1>1, <1>3, <1>6 DEF Walked
      <3>2. <<c[2].key, cls>> \in Classes
        BY <1>1, <3>1, HistoryScans, ClassIsFolded DEF Findings
      <3>3. fold[<<c[2].key, cls>>].wide => fold'[<<c[2].key, cls>>].wide
        BY <1>5, <3>2
      <3>4. CASE c \in carried
        BY <2>1, <3>3, <3>4
      <3>5. CASE c \notin carried
        <4>1. c[1] = i /\ c[2] \in taken
          BY <1>1, <3>5
        <4>2. c[2] \in scan.reports /\ c[2] \notin known /\ ScopeAdmits(cls, c[2])
          BY <4>1 DEF CarriedFrom
        <4>3. fold[<<c[2].key, cls>>].wide \/ HeldOpen(i, c[2])
          BY <1>4, <1>8, <4>1, <4>2 DEF HeldOpen
        <4>4. \A j \in 1 .. i - 1 : ~HeldOpen(j, c[2])
          BY <1>3, <2>1, <3>1, <4>2
        <4>5. QED
          BY <3>3, <4>1, <4>3, <4>4
      <3>6. QED
        BY <3>4, <3>5
    <2>4. \A c \in carried' :
            \/ fold'[<<c[2].key, ClassOf(history'[c[1]].book, c[2].key)>>].wide
            \/ HeldOpen(c[1], c[2])' /\ \A j \in 1 .. c[1] - 1 : ~HeldOpen(j, c[2])'
      BY <1>1, <2>3, HeldOpenStays
    <2>5. QED
      BY <2>2, <2>4 DEF CarriesTheOpen
  <1>11. StopLosesNothing'
    BY <1>1 DEF StopLosesNothing
  <1>12. QED
    BY <1>5, <1>7, <1>10, <1>11 DEF OpenIInv

-----------------------------------------------------------------------------
\* The widest holder has each pass that a scan of the history names, run ok.
LEMMA WidestHasAll ==
  ASSUME IndexIInv, Walked, NEW i \in 1 .. Len(history), NEW r \in history[i].book.runs
  PROVE  Run(r.name, "ok", AnyTarget, {}, {}, {}) \in Widest.runs /\ ~Empty(Widest)
  <1> DEFINE names == UNION {{q.name : q \in history[j].book.runs} : j \in 1 .. Len(history)}
  <1>1. r.name \in names
    OBVIOUS
  <1> HIDE DEF names
  <1>2. Run(r.name, "ok", AnyTarget, {}, {}, {}) \in Widening(names).runs
    BY <1>1 DEF Widening
  <1>3. Widest = Widening(names)
    BY DEF Widest, names
  <1>4. QED
    BY <1>2, <1>3 DEF Empty

\* The widest holder's class is folded.
LEMMA WidestIsFolded ==
  ASSUME IndexIInv, Walked, NEW k \in Keys
  PROVE  <<k, ClassOf(Widest, k)>> \in Classes
  <1> DEFINE names == UNION {{r.name : r \in history[i].book.runs} : i \in 1 .. Len(history)}
  <1>1. names \subseteq Names \cup Unlisted
    BY HistoryScans, BooksAssumption
  <1>2. QED
    BY <1>1, ClassIsFolded DEF Widest

\* A scan that looks again at what the widest holder looked at, looks again at
\* what any holder of the history did.
LEMMA WidestLooksFurther ==
  ASSUME IndexIInv, Walked, NEW i \in 1 .. Len(history), NEW k \in Keys,
         NEW book \in AllBooks, Looks(ClassOf(Widest, k), book, k)
  PROVE  Looks(ClassOf(history[i].book, k), book, k)
  <1> DEFINE holder == history[i].book
  <1>1. ~Empty(book) /\ KeyVerdict(book, k) = "measured" /\ ~TargetNotRun(Widest, book, k)
    BY LooksByAll
  <1>2. ASSUME NEW q \in holder.runs, MeasuresOk(q, k)
        PROVE  \E r \in book.runs : MeasuresOk(r, k) /\ SameTarget(TargetOf(r), TargetOf(q))
    <2> DEFINE w == Run(q.name, "ok", AnyTarget, {}, {}, {})
    <2>1. w \in Widest.runs /\ w.name = q.name /\ w.status = "ok" /\ w.target = AnyTarget
      BY WidestHasAll DEF Run
    <2>2. MeasuresOk(w, k)
      BY <1>2, <2>1 DEF MeasuresOk, SpeaksFor
    <2>3. PICK r \in book.runs : MeasuresOk(r, k) /\ SameTarget(TargetOf(r), TargetOf(w))
      BY <1>1, <2>1, <2>2 DEF TargetNotRun
    <2>4. r.target # AnyTarget /\ AnyTarget # NoTarget
      BY BooksAssumption
    <2>5. SameTarget(TargetOf(r), TargetOf(q))
      BY <2>1, <2>3, <2>4 DEF SameTarget, TargetOf
    <2>6. QED
      BY <2>3, <2>5
  <1>3. ~TargetNotRun(holder, book, k)
    BY <1>2 DEF TargetNotRun
  <1>4. QED
    BY <1>1, <1>3, LooksByAll

\* While an older scan holds a finding open, the walk goes on.
LEMMA HeldOpenCarries ==
  ASSUME IndexIInv, Walked, NEW i \in 1 .. Len(history), Len(chain) < i, NEW f, HeldOpen(i, f)
  PROVE  StillCarry
  <1> DEFINE holder == history[i].book
             k == f.key
             wide == ClassOf(Widest, k)
  <1>1. f \in Findings /\ k \in Keys /\ f \in Producible(holder) /\ holder \in AllBooks
    BY HistoryScans DEF HeldOpen, Findings
  <1>2. \A j \in 1 .. Len(chain) : LeavesOpen(holder, chain[j], f)
    <2>1. /\ \A j \in 1 .. Len(chain) : j \in 1 .. i - 1 /\ chain[j] = history[j].book
          /\ \A j \in 1 .. i - 1 : LeavesOpen(holder, history[j].book, f)
      BY DEF Walked, IndexIInv, HeldOpen
    <2>2. QED
      BY <2>1
  <1>3. ~sawEmpty /\ (k \in notRun => AskedFor(holder, k)) /\ Kept(ClassOf(holder, k), f)
    BY <1>1, <1>2, OpenByClass
  <1>4. k \in WidestKeys
    <2>1. CASE Empty(holder)
      BY <1>1, <2>1 DEF WidestKeys
    <2>2. CASE ~Empty(holder)
      <3>1. PICK r \in holder.runs :
              r.status # "skipped" /\ IF r.name \in Names THEN k \in Measures[r.name] ELSE k = UnknownKey
        BY <1>1, <2>2 DEF Producible
      <3> DEFINE w == Run(r.name, "ok", AnyTarget, {}, {}, {})
      <3>2. w \in Widest.runs /\ ~Empty(Widest) /\ w.name = r.name /\ w.status = "ok"
        BY WidestHasAll DEF Run
      <3>3. k \in KeysProduced(w)
        BY <3>1, <3>2 DEF KeysProduced, KeysOfRun
      <3>4. k \in ProducedKeys(Widest)
        BY <3>2, <3>3 DEF ProducedKeys
      <3>5. QED
        BY <3>2, <3>4 DEF WidestKeys
    <2>3. QED
      BY <2>1, <2>2
  <1>5. AskedFor(holder, k) => AskedFor(Widest, k)
    <2> SUFFICES ASSUME NEW q \in holder.runs, MeasuresOk(q, k), q.name \in OnRequest
                 PROVE  AskedFor(Widest, k)
      BY DEF AskedFor
    <2> DEFINE w == Run(q.name, "ok", AnyTarget, {}, {}, {})
    <2>1. w \in Widest.runs /\ w.name = q.name /\ w.status = "ok"
      BY WidestHasAll DEF Run
    <2>2. QED
      BY <2>1 DEF AskedFor, MeasuresOk, SpeaksFor
  <1>6. Kept(wide, f)
    <2>1. \A j \in 1 .. Len(chain) : chain[j] \in AllBooks
      BY DEF IndexIInv, AllBooks
    <2>2. QED
      BY <1>1, <1>3, <2>1, WidestLooksFurther DEF Kept
  <1>7. ~fold[<<k, wide>>].closed
    BY <1>1, <1>6, WidestIsFolded DEF IndexIInv, FoldsTheKept
  <1>8. ~Never(k, wide)
    BY <1>3, <1>5, <1>7 DEF Never, ClassOf
  <1>9. QED
    BY <1>3, <1>4, <1>8 DEF StillCarry

\* The walk stops: all that is open is known.
LEMMA StopOpen == ASSUME OpenIInv, Stop PROVE OpenIInv'
  <1>1. /\ chain # <<>> /\ (~StillCarry \/ Len(chain) = Len(history)) /\ walking' = FALSE
        /\ UNCHANGED <<indexVars, history, known, carried>>
        /\ IndexIInv /\ Walked /\ CarriesTheOpen
    BY DEF Stop, OpenIInv
  <1>2. IndexIInv' /\ Walked' /\ CarriesTheOpen'
    <2>1. /\ slot' = slot /\ chain' = chain /\ sawEmpty' = sawEmpty /\ notRun' = notRun /\ fold' = fold
          /\ history' = history /\ known' = known /\ carried' = carried
      BY <1>1 DEF indexVars
    <2>2. IndexIInv'
      BY <1>1, <2>1 DEF IndexIInv, FoldsTheKept, Kept, KeysTold
    <2>3. Walked'
      BY <1>1, <2>1 DEF Walked, Usable, Producible
    <2>4. CarriesTheOpen'
      BY <1>1, <2>1 DEF CarriesTheOpen, HeldOpen
    <2>5. QED
      BY <2>2, <2>3, <2>4
  <1>3. ASSUME NEW i \in 1 .. Len(history), NEW f \in Findings, HeldOpen(i, f)
        PROVE  f \in known
    <2>1. i \in 1 .. Len(chain)
      BY <1>1, <1>3, HeldOpenCarries DEF Walked, IndexIInv
    <2>2. history # <<>>
      BY <1>3
    <2>3. QED
      BY <1>1, <1>3, <2>1, <2>2 DEF CarriesTheOpen
  <1>4. StopLosesNothing'
    BY <1>1, <1>3 DEF StopLosesNothing, HeldOpen
  <1>5. QED
    BY <1>2, <1>4 DEF OpenIInv

\* A scan is pushed on the index alone.
LEMMA PushAnyOpen == ASSUME OpenIInv, PushAny PROVE OpenIInv'
  <1>1. PICK book \in BooksOf[slot] : Push(book)
    BY DEF PushAny
  <1>2. /\ history = <<>> /\ UNCHANGED <<history, known, carried, walking>>
        /\ IndexIInv /\ Walked /\ slot' = slot
    BY <1>1 DEF PushAny, OpenIInv, Push
  <1>3. IndexIInv'
    BY <1>1, <1>2, PushIndex
  <1>4. Walked'
    BY <1>2 DEF Walked, Usable, Producible
  <1>5. CarriesTheOpen' /\ StopLosesNothing'
    BY <1>2 DEF CarriesTheOpen, StopLosesNothing
  <1>6. QED
    BY <1>3, <1>4, <1>5 DEF OpenIInv

\* Every step keeps the invariant.
LEMMA NextOpen == OpenIInv /\ [Next]_vars => OpenIInv'
  <1> SUFFICES ASSUME OpenIInv, [Next]_vars PROVE OpenIInv'
    OBVIOUS
  <1>1. CASE UNCHANGED vars
    <2>1. UNCHANGED <<slot, chain, sawEmpty, notRun, fold, history, known, carried, walking>>
      BY <1>1 DEF vars, indexVars
    <2>2. IndexIInv'
      BY <2>1 DEF OpenIInv, IndexIInv, FoldsTheKept, Kept, KeysTold
    <2>3. Walked'
      BY <2>1 DEF OpenIInv, Walked, Usable, Producible
    <2>4. CarriesTheOpen' /\ StopLosesNothing'
      BY <2>1 DEF OpenIInv, CarriesTheOpen, StopLosesNothing, HeldOpen
    <2>5. QED
      BY <2>2, <2>3, <2>4 DEF OpenIInv
  <1>2. QED
    BY <1>1, ReadSourceOpen, ExamineOpen, StopOpen, PushAnyOpen DEF Next

\* Whatever scans a slot has, in whatever order they are read: what the index
\* folded is what each scan left out, and the walk read the history in order.
THEOREM OpenInvariance == Spec => []OpenIInv
  BY InitOpen, NextOpen, PTL DEF Spec

\* One look at the index (ChainIndex.scopeOf) tells of any finding what asking
\* each newer scan in turn (openGapFor) tells: however long the chain, also
\* while a history is walked, and only wider where a meet was given up on.
THEOREM IndexSaysWhatEachSays == Spec => []IndexExact
  <1>1. OpenIInv => IndexExact
    BY IndexIsExact DEF OpenIInv
  <1>2. QED
    BY OpenInvariance, <1>1, PTL

\* The same of the index by itself, over any newer scans (chainScope).
THEOREM IndexAloneIsExact == Spec => []IndexAlone
  <1>1. IndexExact => IndexAlone
    BY DEF IndexAlone
  <1>2. QED
    BY IndexSaysWhatEachSays, <1>1, PTL

\* The walk of a slot (carryForward) holds every finding that the scans read so
\* far hold open, each as of the newest of them, and no finding that was closed,
\* unless a meet was given up on.
THEOREM OpenIsCarried == Spec => []CarriesTheOpen
  <1>1. OpenIInv => CarriesTheOpen
    BY DEF OpenIInv
  <1>2. QED
    BY OpenInvariance, <1>1, PTL

\* Where the widest holder (StillCarry) could hold nothing open any more, no
\* older scan does: the walk ends with every open finding of the history.
THEOREM StopsLosingNothing == Spec => []StopLosesNothing
  <1>1. OpenIInv => StopLosesNothing
    BY DEF OpenIInv
  <1>2. QED
    BY OpenInvariance, <1>1, PTL
=============================================================================
