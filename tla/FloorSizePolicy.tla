-------------------------- MODULE FloorSizePolicy --------------------------
(***************************************************************************)
(* FloorSizePolicy (app/core_config.py): which size profile a floor has and *)
(* how much circulation area it is allowed.  A policy is the minimum and    *)
(* the list of profiles of a configuration file; ratios are in hundredths.  *)
(***************************************************************************)
EXTENDS Integers, Sequences

CONSTANT Null  \* max_floor_area of the last profile

ASSUME NullAssumption == Null \notin Nat

\* What _floor_size_policy accepts.
ValidPolicy(policy) ==
  LET profiles == policy.profiles
      Max(i)   == profiles[i].max_floor_area
  IN  /\ policy.minimum > 0
      /\ Len(profiles) > 0
      /\ \A i, j \in 1..Len(profiles) : i # j => profiles[i].name # profiles[j].name
      /\ \A i \in 1..Len(profiles) :
           /\ Max(i) = Null <=> i = Len(profiles)
           /\ Max(i) # Null => Max(i) > (IF i = 1 THEN 0 ELSE Max(i - 1))
           /\ profiles[i].circulation_ratio > 0
           /\ profiles[i].circulation_ratio <= 100
           /\ profiles[i].max_hallway_room_count >= 1

\* Mutant: a profile's maximum belongs to the next one.
CoversBelow(profile, area) ==
  profile.max_floor_area = Null \/ area < profile.max_floor_area

\* The profiles the loop of resolve stops at.
Covers(profile, area) == profile.max_floor_area = Null \/ area <= profile.max_floor_area

Covering(policy, area) ==
  {i \in 1..Len(policy.profiles) : Covers(policy.profiles[i], area)}

First(S) == CHOOSE i \in S : \A j \in S : i <= j

\* to_integral_value(ROUND_CEILING) of the percentage.
Percentage(ratio, area) == (area * ratio + 99) \div 100

Larger(a, b) == IF a >= b THEN a ELSE b

Resolved(policy, area) ==
  LET profile == policy.profiles[First(Covering(policy, area))]
  IN  [name      |-> profile.name,
       area      |-> area,
       allowance |-> Larger(policy.minimum,
                            Percentage(profile.circulation_ratio, area)),
       hallways  |-> profile.max_hallway_room_count]
=============================================================================
