---------------------------- MODULE MCSharedLane ----------------------------
(* SharedLane for TLC in two slices: slow bursts of three originals on a     *)
(* lasting connection, and brisk ones under owners and connections that      *)
(* change.  Rows are numbers, used in order; originals are                   *)
(* interchangeable.                                                          *)
EXTENDS SharedLane, TLC

VARIABLE brisk

Brisk == INSTANCE SharedLane WITH Quiet <- 1, Window <- 1

MCInit == Init /\ brisk \in BOOLEAN /\ owner = 1

Used == {m \in Msg : status[m] # "free"}

MCNext ==
    /\ UNCHANGED brisk
    /\ \/ ~brisk /\ Next /\ UNCHANGED <<owner, gen>>
       \/ /\ brisk /\ Brisk!Next /\ owner' >= owner
          /\ Cardinality({o \in Orig : receipt'[o] # "new"}) <= 2
    /\ Used' = 1 .. Cardinality(Used')

MCSpec == MCInit /\ [][MCNext]_<<brisk, vars>>

Symmetry == Permutations(Orig)
=============================================================================
