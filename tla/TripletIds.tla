----------------------------- MODULE TripletIds -----------------------------
(* The names of triplets (src/server/common/util/blob_token.go, uuid.go). *)
EXTENDS FiniteSets

CONSTANTS
    Triplets,   \* ids of triplets: random uuids
    NoTriplet   \* the empty string where an id is expected

TripletIds == Triplets \cup {NoTriplet}

ASSUME TripletsAssumption == IsFiniteSet(Triplets) /\ NoTriplet \notin Triplets
=============================================================================
