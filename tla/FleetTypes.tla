----------------------------- MODULE FleetTypes -----------------------------
(***************************************************************************)
(* The enumerations the backend shares between its modules and the        *)
(* database, and the sentinel that stands for a NULL column.               *)
(***************************************************************************)

CONSTANT Null   \* the value of a nullable column that is not set

\* The life of a trip, in the order the code lists it.
TripStatus == {"CREATED", "ROUTE_PLANNED", "IN_PROGRESS", "DELIVERING", "COMPLETED"}

\* The states an administrator, a trip or the offline job give a truck.
TruckStatus == {"ACTIVE", "IDLE", "OFFLINE", "MAINTENANCE"}

StopType == {"LOAD_PICKUP", "DELIVERY"}

StopStatus == {"PENDING", "CONFIRMED", "COMPLETED"}

=============================================================================
