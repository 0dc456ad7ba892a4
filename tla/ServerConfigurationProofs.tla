--------------------- MODULE ServerConfigurationProofs ---------------------
(***************************************************************************)
(* Which profile a floor resolves to, for every policy the loader accepts   *)
(* and every area, and with which configuration a worker runs.              *)
(***************************************************************************)
EXTENDS ServerConfiguration, WellFoundedInduction, TLAPS

(***************************************************************************)
(* The least number of a set, by well-foundedness of <                     *)
(***************************************************************************)

LEMMA LeastExists ==
  ASSUME NEW S \in SUBSET Nat, S # {}
  PROVE  \E i \in S : \A j \in S : i <= j
<1> DEFINE Below == {ss \in Nat \X Nat : ss[1] < ss[2]}
<1>1. IsWellFoundedOn(Below, Nat)
  <2>1. Below = OpToRel(<, Nat)
    BY DEF OpToRel
  <2> QED
    BY <2>1, NatLessThanWellFounded
<1>2. \E i \in S : \A j \in S : ~ (<<j, i>> \in Below)
  <2> HIDE DEF Below
  <2> QED
    BY <1>1, WFMin
<1>3. PICK i \in S : \A j \in S : ~ (<<j, i>> \in Below)
  BY <1>2
<1>4. ASSUME NEW j \in S PROVE i <= j
  <2>1. ~ (<<j, i>> \in Below)
    BY <1>3
  <2>2. j \in Nat /\ i \in Nat
    OBVIOUS
  <2> QED
    BY <2>1, <2>2
<1> QED
  BY <1>4

LEMMA FirstLeast ==
  ASSUME NEW S \in SUBSET Nat, S # {}
  PROVE  First(S) \in S /\ \A j \in S : First(S) <= j
BY LeastExists, Zenon DEF First

(***************************************************************************)
(* Policies                                                                *)
(***************************************************************************)

LEMMA ProfileFields ==
  ASSUME NEW p \in Profiles, p.circulation_ratio > 0, p.circulation_ratio <= 100
  PROVE  /\ p.name \in STRING /\ p.max_hallway_room_count \in Int
         /\ p.circulation_ratio \in 1..100
<1>1. p.name \in STRING /\ p.max_hallway_room_count \in Int /\ p.circulation_ratio \in Int
  BY Zenon DEF Profiles
<1> QED
  BY <1>1

\* What is known of the profiles of an accepted policy, without the names.
Maximum(policy, i) == policy.profiles[i].max_floor_area

LEMMA PolicyFacts ==
  ASSUME NEW policy, ValidPolicy(policy), policy.profiles \in Seq(Profiles)
  PROVE  /\ policy.minimum > 0
         /\ Len(policy.profiles) \in Nat \ {0}
         /\ \A i \in 1..Len(policy.profiles) :
              /\ policy.profiles[i] \in Profiles
              /\ i < Len(policy.profiles) => Maximum(policy, i) \in Int
              /\ i < Len(policy.profiles) => Maximum(policy, i) # Null
              /\ i = Len(policy.profiles) => Maximum(policy, i) = Null
              /\ i < Len(policy.profiles) /\ i > 1 => Maximum(policy, i) > Maximum(policy, i - 1)
              /\ policy.profiles[i].circulation_ratio > 0
              /\ policy.profiles[i].circulation_ratio <= 100
<1>1. /\ policy.minimum > 0
      /\ Len(policy.profiles) > 0
      /\ \A i \in 1..Len(policy.profiles) :
           /\ Maximum(policy, i) = Null <=> i = Len(policy.profiles)
           /\ Maximum(policy, i) # Null
                => Maximum(policy, i) > (IF i = 1 THEN 0 ELSE Maximum(policy, i - 1))
           /\ policy.profiles[i].circulation_ratio > 0
           /\ policy.profiles[i].circulation_ratio <= 100
  BY DEF ValidPolicy, Maximum
<1>2. Len(policy.profiles) \in Nat
  OBVIOUS
<1>3. ASSUME NEW i \in 1..Len(policy.profiles)
      PROVE  policy.profiles[i] \in Profiles /\ Maximum(policy, i) \in Int \cup {Null}
  <2>1. policy.profiles[i] \in Profiles
    OBVIOUS
  <2> QED
    BY <2>1 DEF Profiles, Maximum
<1> QED
  BY <1>1, <1>2, <1>3

\* The maxima rise from one profile to the next, so that an area one profile
\* covers is in no bracket after it.
LEMMA MaximaRise ==
  ASSUME NEW policy, ValidPolicy(policy), policy.profiles \in Seq(Profiles),
         NEW area \in Nat,
         NEW i \in 1..Len(policy.profiles), area <= Maximum(policy, i),
         i < Len(policy.profiles),
         NEW k \in 1..Len(policy.profiles), k > i
  PROVE  ~ (Maximum(policy, k - 1) < area)
<1> DEFINE Above == {n \in 1..Len(policy.profiles) : n > i /\ Maximum(policy, n - 1) < area}
<1> SUFFICES ASSUME Maximum(policy, k - 1) < area PROVE FALSE
  OBVIOUS
<1>1. Above \in SUBSET Nat /\ k \in Above
  OBVIOUS
<1>2. PICK n \in Above : \A m \in Above : n <= m
  <2> HIDE DEF Above
  <2> QED
    BY <1>1, LeastExists
<1>3. n \in 1..Len(policy.profiles) /\ n > i /\ Maximum(policy, n - 1) < area
  OBVIOUS
<1> HIDE DEF Above
<1>4. Len(policy.profiles) \in Nat
  OBVIOUS
<1>5. Maximum(policy, i) \in Int
  BY PolicyFacts
<1>6. n - 1 # i
  BY <1>3, <1>4, <1>5
<1>7. /\ n - 1 \in 1..Len(policy.profiles)
      /\ n - 2 \in 1..Len(policy.profiles)
      /\ n - 1 < Len(policy.profiles) /\ n - 2 < Len(policy.profiles)
      /\ n - 1 > 1 /\ n - 1 > i /\ (n - 1) - 1 = n - 2
  BY <1>3, <1>4, <1>6
<1>8. Maximum(policy, n - 1) \in Int /\ Maximum(policy, n - 2) \in Int
  BY <1>7, PolicyFacts
<1>9. Maximum(policy, n - 1) > Maximum(policy, (n - 1) - 1)
  BY <1>7, PolicyFacts
<1>10. Maximum(policy, (n - 1) - 1) < area
  BY <1>3, <1>7, <1>8, <1>9
<1>11. n - 1 \in Above
  BY <1>7, <1>10 DEF Above
<1>12. n <= n - 1
  BY <1>2, <1>11
<1> QED
  BY <1>3, <1>4, <1>12

\* Percentage is the share of the area, rounded up.
LEMMA PercentageBounds ==
  ASSUME NEW ratio \in 1..100, NEW area \in Nat
  PROVE  /\ Percentage(ratio, area) \in Int /\ ratio * area \in Int
         /\ 100 * Percentage(ratio, area) >= ratio * area
         /\ 100 * Percentage(ratio, area) < ratio * area + 100
         /\ Percentage(ratio, area) <= area
<1> DEFINE m == area * ratio
<1>1. m \in Nat /\ m <= 100 * area /\ m = ratio * area
  OBVIOUS
<1>2. Percentage(ratio, area) = (m + 99) \div 100
  BY DEF Percentage
<1> HIDE DEF m
<1>3. (m + 99) \div 100 \in Int /\ 100 * ((m + 99) \div 100) >= m
  BY <1>1
<1>4. 100 * ((m + 99) \div 100) < m + 100
  BY <1>1
<1>5. (m + 99) \div 100 <= area
  BY <1>1
<1> QED
  BY <1>1, <1>2, <1>3, <1>4, <1>5

\* What ProfilesRight says of one job.
Right(policy, area, got) ==
  \E i \in 1..Len(policy.profiles) :
    LET share == policy.profiles[i].circulation_ratio * area
    IN  /\ InBracket(policy, i, area)
        /\ \A k \in 1..Len(policy.profiles) : InBracket(policy, k, area) => k = i
        /\ got.name = policy.profiles[i].name
        /\ got.hallways = policy.profiles[i].max_hallway_room_count
        /\ got.allowance >= policy.minimum
        /\ 100 * got.allowance >= share
        /\ got.allowance > policy.minimum => 100 * got.allowance < share + 100
        /\ got.allowance > area => got.allowance = policy.minimum

\* An accepted policy resolves every area to the only profile it is meant for.
LEMMA ResolvedRight ==
  ASSUME NEW policy, ValidPolicy(policy), policy.profiles \in Seq(Profiles),
         policy.minimum \in Int, NEW area \in Nat, Covering(policy, area) # {}
  PROVE  /\ Resolved(policy, area) \in ResolvedProfiles
         /\ Right(policy, area, Resolved(policy, area))
<1> DEFINE i == First(Covering(policy, area))
           got == Resolved(policy, area)
<1>1. Len(policy.profiles) \in Nat /\ Covering(policy, area) \in SUBSET Nat
  BY DEF Covering
<1>2. i \in Covering(policy, area) /\ \A j \in Covering(policy, area) : i <= j
  BY <1>1, FirstLeast
<1> HIDE DEF i
<1>3. i \in 1..Len(policy.profiles)
  BY <1>2 DEF Covering
<1>4. Maximum(policy, i) = Null \/ area <= Maximum(policy, i)
  BY <1>2 DEF Covering, Covers, Maximum
<1>5. ASSUME NEW k \in 1..Len(policy.profiles), k < i
      PROVE  Maximum(policy, k) \in Int /\ Maximum(policy, k) # Null /\ area > Maximum(policy, k)
  <2>1. k \notin Covering(policy, area)
    BY <1>1, <1>2, <1>3, <1>5
  <2>2. Maximum(policy, k) \in Int /\ Maximum(policy, k) # Null
    BY <1>1, <1>3, <1>5, PolicyFacts
  <2>3. ~ (area <= Maximum(policy, k))
    BY <2>1 DEF Covering, Covers, Maximum
  <2> QED
    BY <2>2, <2>3
<1>6. InBracket(policy, i, area)
  <2>1. i > 1 => Maximum(policy, i - 1) < area
    BY <1>1, <1>3, <1>5
  <2>2. Maximum(policy, i) # Null => area <= Maximum(policy, i)
    BY <1>4
  <2> QED
    BY <2>1, <2>2 DEF InBracket, Maximum
<1>7. ASSUME NEW k \in 1..Len(policy.profiles), InBracket(policy, k, area) PROVE k = i
  <2>1. /\ k > 1 => Maximum(policy, k - 1) < area
        /\ Maximum(policy, k) # Null => area <= Maximum(policy, k)
    BY <1>7 DEF InBracket, Maximum
  <2>2. ~ (k < i)
    BY <1>5, <2>1
  <2>3. ASSUME k > i PROVE FALSE
    <3>1. i < Len(policy.profiles) /\ k > 1
      BY <1>1, <1>3, <2>3
    <3>2. area <= Maximum(policy, i)
      BY <1>3, <1>4, <3>1, PolicyFacts
    <3> QED
      BY <1>3, <2>1, <2>3, <3>1, <3>2, MaximaRise
  <2> QED
    BY <1>1, <1>3, <2>2, <2>3
<1> DEFINE p == policy.profiles[i]
<1>8. /\ p.name \in STRING /\ p.max_hallway_room_count \in Int
      /\ p.circulation_ratio \in 1..100
  <2>1. p \in Profiles /\ p.circulation_ratio > 0 /\ p.circulation_ratio <= 100
    BY <1>3, PolicyFacts
  <2> QED
    BY <2>1, ProfileFields
<1> DEFINE part == Percentage(p.circulation_ratio, area)
           share == p.circulation_ratio * area
<1>9. /\ part \in Int /\ 100 * part >= share /\ 100 * part < share + 100 /\ part <= area
  BY <1>8, PercentageBounds
<1>10. got = [name |-> p.name, area |-> area, allowance |-> Larger(policy.minimum, part),
              hallways |-> p.max_hallway_room_count]
  BY DEF Resolved, i
<1>11. /\ got.name = p.name /\ got.hallways = p.max_hallway_room_count
       /\ got.allowance = Larger(policy.minimum, part)
  BY <1>10
<1>12. share \in Int
  BY <1>8, PercentageBounds
<1> HIDE DEF part, share
<1>13. /\ Larger(policy.minimum, part) \in Int
       /\ Larger(policy.minimum, part) >= policy.minimum
       /\ 100 * Larger(policy.minimum, part) >= share
       /\ Larger(policy.minimum, part) > policy.minimum
            => 100 * Larger(policy.minimum, part) < share + 100
       /\ Larger(policy.minimum, part) > area => Larger(policy.minimum, part) = policy.minimum
  BY <1>9, <1>12 DEF Larger
<1>14. got \in ResolvedProfiles
  BY <1>8, <1>10, <1>13 DEF ResolvedProfiles
<1>15. Right(policy, area, got)
  BY <1>3, <1>6, <1>7, <1>11, <1>13 DEF Right, share
<1> QED
  BY <1>14, <1>15

(***************************************************************************)
(* The specification                                                       *)
(***************************************************************************)

\* The tables of the jobs are functions; with the facts of TypeOK.
Tables ==
  /\ floor \in [Jobs -> Floors \cup {None}]
  /\ config \in [Jobs -> Documents \cup {None}]
  /\ profile \in [Jobs -> ResolvedProfiles \cup {None}]

Typed == TypeOK /\ Tables

\* A running server's file is the one it loaded unless it was edited; without a
\* server there are no jobs.
FileKept ==
  /\ boot # None /\ ~edited => file = boot
  /\ boot = None => \A j \in Jobs : state[j] = "none"

LEMMA AreaNumber == ASSUME NEW f \in Floors PROVE Area(f) \in Nat
<1>1. f[1] \in Nat /\ f[2] \in Nat
  BY FloorAssumption
<1> QED
  BY <1>1 DEF Area

LEMMA LoadedPolicy ==
  ASSUME NEW d, Loads(d)
  PROVE  /\ ValidPolicy(d.policy) /\ d.policy.profiles \in Seq(Profiles)
         /\ d.policy.minimum \in Int /\ d \in Documents /\ d # None
BY DocumentAssumption DEF Loads

\* The outcome of preprocessing a job of the right types.
LEMMA PreprocessResolves ==
  ASSUME Typed, NEW j \in Jobs, state[j] = "loaded",
         Covering(config[j].policy, Area(floor[j])) # {}
  PROVE  /\ Resolved(config[j].policy, Area(floor[j])) \in ResolvedProfiles
         /\ Right(config[j].policy, Area(floor[j]),
                  Resolved(config[j].policy, Area(floor[j])))
<1>1. Loads(config[j]) /\ floor[j] \in Floors
  BY DEF Typed, TypeOK
<1> QED
  BY <1>1, AreaNumber, LoadedPolicy, ResolvedRight

LEMMA TypedInit == Init => Typed
<1> SUFFICES ASSUME Init PROVE Typed
  OBVIOUS
<1> QED
  BY DEF Init, All, Typed, TypeOK, Tables, States

LEMMA TypedNext == Typed /\ [Next]_vars => Typed'
<1> SUFFICES ASSUME Typed, [Next]_vars PROVE Typed'
  OBVIOUS
<1> USE DEF Typed, TypeOK, Tables
<1>1. ASSUME Boot PROVE Typed'
  BY <1>1 DEF Boot, jobs
<1>2. ASSUME Stop PROVE Typed'
  BY <1>2 DEF Stop, All, States
<1>3. ASSUME Edit PROVE Typed'
  BY <1>3 DEF Edit, jobs
<1>4. ASSUME NEW j \in Jobs, Submit(j) PROVE Typed'
  BY <1>4 DEF Submit, server, States
<1>5. ASSUME NEW j \in Jobs, WorkerLoads(j) PROVE Typed'
  BY <1>5, LoadedPolicy DEF WorkerLoads, Becomes, Drifts, server, States
<1>6. ASSUME NEW j \in Jobs, Preprocess(j) PROVE Typed'
  <2> DEFINE got == Resolved(config[j].policy, Area(floor[j]))
  <2>1. CASE /\ Becomes(j, "loaded", "prepared")
             /\ Covering(config[j].policy, Area(floor[j])) # {}
             /\ profile' = [profile EXCEPT ![j] = got]
             /\ \E R \in SUBSET RoomTypes :
                  rooms[j] \subseteq R /\ rooms' = [rooms EXCEPT ![j] = R]
    <3>1. got \in ResolvedProfiles
      BY <2>1, PreprocessResolves DEF Becomes
    <3> HIDE DEF got
    <3> QED
      BY <1>6, <2>1, <3>1 DEF Preprocess, Becomes, server, States
  <2>2. CASE Becomes(j, "loaded", "preprocessing_failed") /\ UNCHANGED <<profile, rooms>>
    BY <1>6, <2>2 DEF Preprocess, Becomes, server, States
  <2> QED
    BY <1>6, <2>1, <2>2 DEF Preprocess
<1>7. ASSUME NEW j \in Jobs, ConfigureSearch(j) PROVE Typed'
  BY <1>7 DEF ConfigureSearch, Becomes, server, States
<1>8. ASSUME UNCHANGED vars PROVE Typed'
  BY <1>8 DEF vars
<1> QED
  BY <1>1, <1>2, <1>3, <1>4, <1>5, <1>6, <1>7, <1>8 DEF Next

\* Every variable has its type; what runs was loaded from a valid document, and
\* what searches has a resolved profile.
THEOREM Typing == Spec => []TypeOK
<1>1. Typed => TypeOK
  BY DEF Typed
<1> QED
  BY <1>1, TypedInit, TypedNext, PTL DEF Spec

(***************************************************************************)
(* ProfilesRight                                                           *)
(***************************************************************************)

Resolves == {"prepared", "searching"}

LEMMA RightMeaning ==
  ProfilesRight <=> \A j \in Jobs : state[j] \in Resolves =>
                      Right(config[j].policy, Area(floor[j]), profile[j])
BY Zenon DEF ProfilesRight, Right, Resolves

LEMMA RightMeaningNext ==
  ProfilesRight' <=> \A j \in Jobs : state'[j] \in Resolves =>
                       Right(config'[j].policy, Area(floor'[j]), profile'[j])
BY Zenon DEF ProfilesRight, Right, Resolves, InBracket

LEMMA ProfilesNext == Typed /\ ProfilesRight /\ [Next]_vars => ProfilesRight'
<1> SUFFICES ASSUME Typed, ProfilesRight, [Next]_vars, NEW j \in Jobs,
                    state'[j] \in Resolves
             PROVE  Right(config'[j].policy, Area(floor'[j]), profile'[j])
  BY RightMeaningNext
<1> USE DEF Typed, TypeOK, Tables
<1>1. ASSUME state[j] \in Resolves, config'[j] = config[j], floor'[j] = floor[j],
             profile'[j] = profile[j]
      PROVE  Right(config'[j].policy, Area(floor'[j]), profile'[j])
  BY <1>1, RightMeaning
<1>2. CASE Boot \/ Edit \/ UNCHANGED vars
  BY <1>1, <1>2 DEF Boot, Edit, jobs, vars
<1>3. CASE Stop
  BY <1>3 DEF Stop, All, Resolves
<1>4. ASSUME NEW k \in Jobs, Submit(k)
      PROVE  Right(config'[j].policy, Area(floor'[j]), profile'[j])
  BY <1>1, <1>4 DEF Submit, Resolves
<1>5. ASSUME NEW k \in Jobs, WorkerLoads(k)
      PROVE  Right(config'[j].policy, Area(floor'[j]), profile'[j])
  BY <1>1, <1>5 DEF WorkerLoads, Becomes, Resolves
<1>6. ASSUME NEW k \in Jobs, Preprocess(k)
      PROVE  Right(config'[j].policy, Area(floor'[j]), profile'[j])
  <2>1. CASE j # k
    BY <1>1, <1>6, <2>1 DEF Preprocess, Becomes, Resolves
  <2>2. CASE j = k
    <3>1. UNCHANGED <<floor, config>> /\ state[j] = "loaded"
      BY <1>6, <2>2 DEF Preprocess, Becomes
    <3>2. /\ Covering(config[j].policy, Area(floor[j])) # {}
          /\ profile' = [profile EXCEPT ![j] = Resolved(config[j].policy, Area(floor[j]))]
      BY <1>6, <2>2 DEF Preprocess, Becomes, Resolves
    <3>3. profile'[j] = Resolved(config[j].policy, Area(floor[j]))
      BY <3>2
    <3> QED
      BY <3>1, <3>2, <3>3, PreprocessResolves
  <2> QED
    BY <2>1, <2>2
<1>7. ASSUME NEW k \in Jobs, ConfigureSearch(k)
      PROVE  Right(config'[j].policy, Area(floor'[j]), profile'[j])
  BY <1>1, <1>7 DEF ConfigureSearch, Becomes, Resolves
<1> QED
  BY <1>2, <1>3, <1>4, <1>5, <1>6, <1>7 DEF Next

\* Every floor that is searched has the one profile whose bracket it is in, and
\* the circulation area of that profile: for every policy the loader accepts.
THEOREM ProfilesResolved == Spec => []ProfilesRight
<1>1. Init => ProfilesRight
  BY DEF Init, All, ProfilesRight
<1> QED
  BY <1>1, TypedInit, TypedNext, ProfilesNext, PTL DEF Spec

(***************************************************************************)
(* RunsAsAdvertised                                                        *)
(***************************************************************************)

Advertised == FileKept /\ RunsAsAdvertised

LEMMA AdvertisedNext == Typed /\ Advertised /\ [Next]_vars => Advertised'
<1> SUFFICES ASSUME Typed, Advertised, [Next]_vars PROVE Advertised'
  OBVIOUS
<1> USE DEF Typed, TypeOK, Tables, Advertised, FileKept, RunsAsAdvertised
<1>1. CASE Boot
  BY <1>1 DEF Boot, jobs, Loads
<1>2. CASE Stop
  BY <1>2 DEF Stop, All
<1>3. CASE Edit
  BY <1>3 DEF Edit, jobs
<1>4. ASSUME NEW j \in Jobs, Submit(j) PROVE Advertised'
  BY <1>4 DEF Submit, server
<1>5. ASSUME NEW j \in Jobs, WorkerLoads(j) PROVE Advertised'
  <2>1. boot # None /\ UNCHANGED <<file, boot, edited, rooms>>
    BY <1>5 DEF WorkerLoads, Becomes, server
  <2>2. ASSUME ~edited PROVE file = boot /\ Loads(file)
    BY <2>1, <2>2
  <2>3. edited => j \in drifted'
    BY <1>5 DEF WorkerLoads, Drifts
  <2>4. drifted \subseteq drifted'
    BY <1>5 DEF WorkerLoads, Drifts
  <2>5. ASSUME NEW k \in Jobs \ drifted', k # j
        PROVE  k \notin drifted /\ state'[k] = state[k] /\ config'[k] = config[k]
    BY <1>5, <2>4, <2>5 DEF WorkerLoads, Becomes
  <2>6. ASSUME j \notin drifted' PROVE state'[j] = "loaded" /\ config'[j] = boot
    BY <1>5, <2>2, <2>3, <2>6 DEF WorkerLoads, Becomes
  <2> QED
    BY <2>1, <2>5, <2>6
<1>6. ASSUME NEW j \in Jobs, Preprocess(j) PROVE Advertised'
  <2>1. \/ Becomes(j, "loaded", "prepared")
        \/ Becomes(j, "loaded", "preprocessing_failed")
    BY <1>6 DEF Preprocess
  <2>2. ASSUME NEW k \in Jobs, state'[k] = "unexpected_generation_error"
        PROVE  state[k] = "unexpected_generation_error" /\ rooms'[k] = rooms[k]
    BY <1>6, <2>1, <2>2 DEF Preprocess, Becomes
  <2> QED
    BY <1>6, <2>1, <2>2 DEF Preprocess, Becomes, server
<1>7. ASSUME NEW j \in Jobs, ConfigureSearch(j) PROVE Advertised'
  BY <1>7 DEF ConfigureSearch, Becomes, server
<1>8. CASE UNCHANGED vars
  BY <1>8 DEF vars
<1> QED
  BY <1>1, <1>2, <1>3, <1>4, <1>5, <1>6, <1>7, <1>8 DEF Next

\* A job runs with the configuration its server advertised, unless the file was
\* edited before its worker started.
THEOREM AsAdvertised == Spec => []RunsAsAdvertised
<1>1. Init => Advertised
  BY DEF Init, All, Advertised, FileKept, RunsAsAdvertised
<1>2. Advertised => RunsAsAdvertised
  BY DEF Advertised
<1> QED
  BY <1>1, <1>2, TypedInit, TypedNext, AdvertisedNext, PTL DEF Spec
=============================================================================
