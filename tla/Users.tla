--------------------------------- MODULE Users ---------------------------------
(* The accounts of travelmap, by users.id, which the tables of a user name. *)

CONSTANT User

=============================================================================
