--------------------------------- MODULE MCCard ---------------------------------
(***************************************************************************)
(* The two ways the firmware uses the card, one of which is built in: the  *)
(* owner keeps it mounted, or every call mounts it.                        *)
(***************************************************************************)
EXTENDS BlockStream, RawStorage

VARIABLE mounted

MCInit == mounted \in BOOLEAN /\ StreamInit /\ RawInit

MCNext ==
    /\ UNCHANGED mounted
    /\ \/ mounted /\ StreamNext /\ UNCHANGED rawVars
       \/ ~mounted /\ RawNext /\ UNCHANGED streamVars

MCSpec == MCInit /\ [][MCNext]_<<mounted, streamVars, rawVars>>
=================================================================================
