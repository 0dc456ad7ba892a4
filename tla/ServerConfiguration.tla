------------------------ MODULE ServerConfiguration ------------------------
(***************************************************************************)
(* The configuration file and its two readers: the server, which loads it   *)
(* once when it starts (main.py, core_config.py), and each worker, which    *)
(* loads it again when its job starts (jobs/worker.py) and derives from it  *)
(* what the pipeline runs with.                                             *)
(***************************************************************************)
EXTENDS FloorSizePolicy

CONSTANTS Jobs,
          Documents,  \* what an operator may write to the file
          Torn,       \* a file that cannot be read as a document
          Packaged,   \* the document the application is delivered with
          Floors,     \* limits of a request: width and length
          RoomTypes,
          None

Profiles == [name : STRING, max_floor_area : Int \cup {Null},
             circulation_ratio : Int, max_hallway_room_count : Int]

\* The parts of a document that matter here; the rest is valid.
ASSUME DocumentAssumption ==
  /\ \A d \in Documents :
       /\ d.policy.minimum \in Int
       /\ d.policy.profiles \in Seq(Profiles)
       /\ d.timeout \in Int
       /\ d.routes \subseteq RoomTypes \X RoomTypes
  /\ Packaged \in Documents
  /\ Torn \notin Documents
  /\ None \notin Documents
ASSUME FloorAssumption == Floors \subseteq (Nat \ {0}) \X (Nat \ {0})

VARIABLES
  file,     \* the configuration file
  boot,     \* BOOT_CONFIG of the running server
  edited,   \* history: the file was written since the server started
  drifted,  \* history: jobs whose worker started after that
  state, floor,  \* of each job the server has accepted
  rooms,    \* room types of its request, then of the prepared specification
  config,   \* what its worker loaded
  profile   \* what preprocessing resolved

server == <<boot, edited>>
jobs == <<state, floor, rooms, config, profile>>
vars == <<file, boot, edited, drifted, state, floor, rooms, config, profile>>

States == {"none", "queued", "loaded", "prepared", "searching",
           "preprocessing_failed", "unexpected_generation_error"}

Area(f) == f[1] * f[2]

\* load_server_config returns, or raises CoreConfigLoadError.
Loads(d) == d \in Documents /\ d.timeout > 0 /\ ValidPolicy(d.policy)

\* circulation_for: the rules between rooms of these types.
RouteRules(d, R) == {rule \in d.routes : rule[1] \in R /\ rule[2] \in R}

All(value) == [j \in Jobs |-> value]

Init ==
  /\ file \in Documents \cup {Torn}
  /\ boot = None
  /\ edited = FALSE
  /\ drifted = {}
  /\ state = All("none")
  /\ floor = All(None)
  /\ rooms = All({})
  /\ config = All(None)
  /\ profile = All(None)

\* The module is imported, and the lifespan hands its configuration on.
Boot ==
  /\ boot = None
  /\ Loads(file)
  /\ boot' = file
  /\ edited' = FALSE
  /\ UNCHANGED <<file, drifted, jobs>>

\* The server stops, its workers too; the jobs are not taken up again.
Stop ==
  /\ boot # None
  /\ boot' = None
  /\ drifted' = {}
  /\ state' = All("none")
  /\ floor' = All(None)
  /\ rooms' = All({})
  /\ config' = All(None)
  /\ profile' = All(None)
  /\ UNCHANGED <<file, edited>>

Edit ==
  /\ file' \in (Documents \cup {Torn}) \ {file}
  /\ edited' = TRUE
  /\ UNCHANGED <<boot, drifted, jobs>>

Submit(j) ==
  /\ boot # None
  /\ state[j] = "none"
  /\ state' = [state EXCEPT ![j] = "queued"]
  /\ \E f \in Floors : floor' = [floor EXCEPT ![j] = f]
  /\ \E R \in SUBSET RoomTypes \ {{}} : rooms' = [rooms EXCEPT ![j] = R]
  /\ UNCHANGED <<file, server, drifted, config, profile>>

Becomes(j, from, to) == state[j] = from /\ state' = [state EXCEPT ![j] = to]

Drifts(j) == drifted' = IF edited THEN drifted \cup {j} ELSE drifted

\* Mutant: config_path does not reach load_server_config.
WorkerLoadsPackaged(j) ==
  /\ Becomes(j, "queued", "loaded")
  /\ config' = [config EXCEPT ![j] = Packaged]
  /\ Drifts(j)
  /\ UNCHANGED <<file, server, floor, rooms, profile>>

\* run_generation_worker.
WorkerLoads(j) ==
  /\ \/ /\ Loads(file)
        /\ Becomes(j, "queued", "loaded")
        /\ config' = [config EXCEPT ![j] = file]
     \/ /\ ~ Loads(file)
        /\ Becomes(j, "queued", "unexpected_generation_error")
        /\ UNCHANGED config
  /\ Drifts(j)
  /\ UNCHANGED <<file, server, floor, rooms, profile>>

\* Mutant: the resolved profile is not kept.
PreprocessForgets(j) ==
  /\ Becomes(j, "loaded", "prepared")
  /\ UNCHANGED <<file, server, drifted, floor, rooms, config, profile>>

\* preprocessing_for_floor_limits and prepare_generation_input (fpg_core),
\* which may refuse the request; both inside one try.  The prepared specification
\* has the requested rooms and those the server adds, hallways above all.
Preprocess(j) ==
  /\ LET policy == config[j].policy
         area   == Area(floor[j])
     IN  \/ /\ Becomes(j, "loaded", "prepared")
            /\ Covering(policy, area) # {}
            /\ profile' = [profile EXCEPT ![j] = Resolved(policy, area)]
            /\ \E R \in SUBSET RoomTypes :
                 rooms[j] \subseteq R /\ rooms' = [rooms EXCEPT ![j] = R]
         \/ /\ Becomes(j, "loaded", "preprocessing_failed")
            /\ UNCHANGED <<profile, rooms>>
  /\ UNCHANGED <<file, server, drifted, floor, config>>

\* circulation_for, outside the try.
ConfigureSearch(j) ==
  /\ \/ /\ Becomes(j, "prepared", "searching")
        /\ RouteRules(config[j], rooms[j]) # {}
     \/ /\ Becomes(j, "prepared", "unexpected_generation_error")
        /\ RouteRules(config[j], rooms[j]) = {}
  /\ UNCHANGED <<file, server, drifted, floor, rooms, config, profile>>

Next ==
  \/ Boot \/ Stop \/ Edit
  \/ \E j \in Jobs : Submit(j) \/ WorkerLoads(j) \/ Preprocess(j) \/ ConfigureSearch(j)

Spec == Init /\ [][Next]_vars

(***************************************************************************)
(* Properties                                                              *)
(***************************************************************************)

ResolvedProfiles == [name : STRING, area : Nat, allowance : Int, hallways : Int]

\* The types; what runs was loaded from a valid document, and what searches
\* has its profile.
TypeOK ==
  /\ file \in Documents \cup {Torn}
  /\ boot = None \/ Loads(boot)
  /\ edited \in BOOLEAN
  /\ drifted \subseteq Jobs
  /\ state \in [Jobs -> States]
  /\ rooms \in [Jobs -> SUBSET RoomTypes]
  /\ \A j \in Jobs :
       /\ state[j] # "none" => floor[j] \in Floors
       /\ state[j] \in {"loaded", "prepared", "searching"} => Loads(config[j])
       /\ state[j] \in {"prepared", "searching"} => profile[j] \in ResolvedProfiles

\* The areas a profile is meant for: above the maximum of the one before, up to
\* its own.
InBracket(policy, i, area) ==
  /\ i > 1 => policy.profiles[i - 1].max_floor_area < area
  /\ policy.profiles[i].max_floor_area # Null => area <= policy.profiles[i].max_floor_area

\* A floor gets the one profile whose bracket it is in, also when its area is a
\* maximum; its circulation area is the percentage, rounded up by less than one
\* unit, or the minimum, and exceeds the floor only if the minimum does.
ProfilesRight ==
  \A j \in Jobs : state[j] \in {"prepared", "searching"} =>
    LET policy == config[j].policy
        area   == Area(floor[j])
        got    == profile[j]
    IN  \E i \in 1..Len(policy.profiles) :
          LET share == policy.profiles[i].circulation_ratio * area
          IN  /\ InBracket(policy, i, area)
              /\ \A k \in 1..Len(policy.profiles) : InBracket(policy, k, area) => k = i
              /\ got.name = policy.profiles[i].name
              /\ got.hallways = policy.profiles[i].max_hallway_room_count
              /\ got.allowance >= policy.minimum
              /\ 100 * got.allowance >= share
              /\ got.allowance > policy.minimum => 100 * got.allowance < share + 100
              /\ got.allowance > area => got.allowance = policy.minimum

\* Unless the file was edited between the start of the server and that of the
\* worker, a job runs with the policy and the timeout of the server that
\* accepted it and advertised them, and no job fails for its configuration but
\* one without a route rule for its prepared rooms.
RunsAsAdvertised ==
  \A j \in Jobs \ drifted :
    /\ state[j] \in {"loaded", "prepared", "searching"} => config[j] = boot
    /\ state[j] = "unexpected_generation_error" => RouteRules(boot, rooms[j]) = {}
=============================================================================
