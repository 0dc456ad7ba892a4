----------------------- MODULE MCServerConfiguration -----------------------
(* The packaged policy, an edited one, and documents the loader refuses.    *)
EXTENDS ServerConfiguration, TLC

Symmetry == Permutations(Jobs)

Profile(name, max, ratio, hallways) ==
  [name |-> name, max_floor_area |-> max, circulation_ratio |-> ratio,
   max_hallway_room_count |-> hallways]

Document(minimum, profiles, timeout, routes) ==
  [policy |-> [minimum |-> minimum, profiles |-> profiles],
   timeout |-> timeout, routes |-> routes]

Small  == Profile("small", 8000, 7, 2)
Medium == Profile("medium", 15000, 9, 4)
Large  == Profile("large", Null, 11, 5)

MCRoomTypes == {"bedroom", "hallway"}
Routes == {<<"bedroom", "hallway">>}
Alone  == {<<"bedroom", "bedroom">>}

MCPackaged == Document(300, <<Small, Medium, Large>>, 600, Routes)

MCDocuments == {
  MCPackaged,
  Document(1, <<Profile("small", 15000, 100, 1), Large>>, 300, Routes \cup Alone),
  Document(300, <<Small, Medium>>, 600, Routes),        \* no last profile
  Document(300, <<Medium, Small, Large>>, 600, Routes), \* maxima fall
  Document(300, <<Small, Large, Large>>, 600, Routes),  \* name twice
  Document(300, <<Large>>, 0, Routes)}                  \* no time

\* Areas at the maxima, above them, and where the percentage passes 300:
\* 1, 4286, 8000, 8001, 15000, 15001.
MCFloors == {<<1, 1>>, <<2, 2143>>, <<80, 100>>, <<63, 127>>, <<100, 150>>, <<7, 2143>>}
=============================================================================
