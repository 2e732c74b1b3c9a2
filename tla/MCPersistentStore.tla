-------------------------- MODULE MCPersistentStore --------------------------
(***************************************************************************)
(* Model checking of the store.  Four concurrent lanes are out of reach,   *)
(* so each scenario runs three of them, or two, in depth.                  *)
(***************************************************************************)
EXTENDS PersistentStore

CONSTANTS p1, p2

\* The third record is bigger than the store.
Sizes == [r \in Records |-> IF r = 3 THEN MaxBytes + 1 ELSE 1]

\* Two processes persist over each other while one replays; files outlive their age.
TwoPersist == [persist |-> {p1, p2}, claim |-> {p1}, legacy |-> {}, new |-> {1, 2},
               ages |-> {1, 2}, spoils |-> {}, crashes |-> 1, faults |-> 0]

\* Two processes replay the same records while one persists.
TwoClaim == [persist |-> {p1}, claim |-> {p1, p2}, legacy |-> {1}, new |-> {2},
             ages |-> {}, spoils |-> {}, crashes |-> 0, faults |-> 0]

\* Two processes replay a record that is damaged at any moment.
Damage == [persist |-> {}, claim |-> {p1, p2}, legacy |-> {1}, new |-> {},
           ages |-> {1}, spoils |-> {1}, crashes |-> 1, faults |-> 1]

\* One process on its own, whose last record is bigger than the store.
Alone == [persist |-> {p1}, claim |-> {p1}, legacy |-> {}, new |-> {1, 2, 3},
          ages |-> {}, spoils |-> {}, crashes |-> 0, faults |-> 0]

\* One process whose disk fails twice, so that the error path itself may fail.
Faults == [persist |-> {p1}, claim |-> {p1}, legacy |-> {}, new |-> {1, 2},
           ages |-> {1}, spoils |-> {1}, crashes |-> 0, faults |-> 2]

AllScenarios == {TwoPersist, TwoClaim, Damage, Alone, Faults}
OnlyAlone == {Alone}
=============================================================================
