------------------------------- MODULE MCCloud -------------------------------
(* One run for what cli_bridge.py and local_data_interface.py share between *)
(* pages: two worker threads on one document, every section in turn; two    *)
(* pages that install an update; two tabs on one configuration; two views   *)
(* of one camera.                                                           *)
EXTENDS CloudBridge, Firmware, CameraConfig, LocalData, TLC

VARIABLE part    \* which of the four the behaviour is about

MCVersions == {<< >>, <<9, 40>>, <<9, 40, 104>>, <<9, 40, 105>>, <<9, 41>>, <<10, 0, 0>>}
MCMinFirmware == <<9, 40, 105>>

OneSection == kind = "privacy" /\ tidy /\ doc["privacyMode"] = Fixed
NoUpdate == offer = NoTarget /\ ~waits
OneConfig == ~careful /\ file.cams = << >>
OneCamera == /\ iface = "inactive" /\ ~gen2 /\ ~lan /\ password = "none"
             /\ firmware = << >>

MCInit == /\ CloudInit /\ FwInit /\ ConfigInit /\ LocalInit
          /\ part \in {"section", "firmware", "config", "local"}
          /\ part = "section" \/ OneSection
          /\ part = "firmware" \/ NoUpdate
          /\ IF part = "config" THEN careful ELSE OneConfig
          /\ part = "local" \/ OneCamera

MCNext ==
    /\ UNCHANGED part
    /\ \/ part = "section" /\ CloudNext /\ UNCHANGED <<fwVars, configVars, localVars>>
       \/ part = "firmware" /\ FwNext /\ UNCHANGED <<cloudVars, configVars, localVars>>
       \/ part = "config" /\ ConfigNext /\ UNCHANGED <<cloudVars, fwVars, localVars>>
       \/ part = "local" /\ LocalNext /\ UNCHANGED <<cloudVars, fwVars, configVars>>

MCSpec == MCInit /\ [][MCNext]_<<cloudVars, fwVars, configVars, localVars, part>>

\* Every variable of the four has its type.
TypesOK == CloudTypeOK /\ FwTypeOK /\ ConfigTypeOK /\ LocalTypeOK

MCSymmetry == UNION {Permutations(S) : S \in {Threads, Tabs, Views, Names}}
=============================================================================
