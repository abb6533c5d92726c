--------------------------- MODULE DatabaseAccess ---------------------------
(***************************************************************************)
(* The backend and one customer database: SchemaStudy on the study         *)
(* surface (the extraction and the probe do no more than connect),         *)
(* Grounding on the chat surface, and on all of them the connect seam of   *)
(* ConnectRetry and the engines of Hardening.                              *)
(***************************************************************************)
EXTENDS SchemaStudy, Grounding, Hardening

studyOnlyVars == <<dialect, resolver, phase, inventoryVars, loopVars, tableVars, fault, document>>

AccessInit ==
    /\ StudyInit /\ GroundInit /\ HardenInit
    /\ dialect = "mongodb" <=> server.db = "mongodb"
    /\ surface # "study" => resolver

AccessNext ==
    /\ \/ surface # "chat" /\ StudyNext /\ UNCHANGED groundVars
       \/ surface = "chat" /\ GroundNext /\ UNCHANGED studyOnlyVars
    /\ Harden

AccessSpec == AccessInit /\ [][AccessNext]_<<studyVars, groundVars, hardenVars>>
=============================================================================
