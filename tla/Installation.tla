---------------------------- MODULE Installation ----------------------------
(***************************************************************************)
(* What the start-up of the server promises about databases, however often *)
(* it is started, stopped or killed: each one is set up in two steps, the  *)
(* second one puts in all of the seed, and after that rows change by       *)
(* serving requests only.                                                  *)
(***************************************************************************)
CONSTANTS Databases, SeedRows, ServedRows

VARIABLES phase,             \* by database: "empty", "schema", "seeded"
          rows               \* by database: the rows of its tables

Init == /\ phase = [d \in Databases |-> "empty"]
        /\ rows = [d \in Databases |-> {}]

CreateSchema(d) == /\ phase[d] = "empty"
                   /\ phase' = [phase EXCEPT ![d] = "schema"]
                   /\ UNCHANGED rows

Seed(d) == /\ phase[d] = "schema"
           /\ phase' = [phase EXCEPT ![d] = "seeded"]
           /\ rows' = [rows EXCEPT ![d] = SeedRows]

Serve(d, R) == /\ phase[d] = "seeded"
               /\ rows' = [rows EXCEPT ![d] = R]
               /\ UNCHANGED phase

Next == \E d \in Databases :
           \/ CreateSchema(d) \/ Seed(d)
           \/ \E R \in SUBSET (SeedRows \cup ServedRows) : Serve(d, R)

Spec == Init /\ [][Next]_<<phase, rows>>
=============================================================================
