---------------------------- MODULE MCDMSMemory ----------------------------
(***************************************************************************)
(* DMSMemory for TLC: trajectories of different lengths, "tap" being too   *)
(* short to be stored.                                                     *)
(***************************************************************************)
EXTENDS DMSMemory

MCLength == [t \in Trajectories |->
               CASE t = "long"  -> 4
                 [] t = "mid"   -> 3
                 [] t = "short" -> 2
                 [] t = "tap"   -> 1]
=============================================================================
