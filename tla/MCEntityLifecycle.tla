------------------------- MODULE MCEntityLifecycle -------------------------
(* The prototypes of Data\Entities: akali has an action component, wall has not. *)
EXTENDS EntityLifecycle

MCPrototypes == {"akali", "wall"}
MCHas == [id \in MCPrototypes |-> IF id = "akali" THEN {"Transform", "Action"} ELSE {"Transform"}]
=============================================================================
