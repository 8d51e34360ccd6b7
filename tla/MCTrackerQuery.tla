--------------------------- MODULE MCTrackerQuery ---------------------------
(* Values for the runs of TrackerQuery.                                    *)
EXTENDS TrackerQuery

MCSlotPoints == {"unready", "running", "waited", "stopped", "result"}

=============================================================================
