----------------------------- MODULE MCAbBoot -----------------------------
(* AbBoot with the feature sets in use. *)
EXTENDS AbBoot

Redundancy == {"REDUNDANCY_ENABLE"}
MCFeatures ==
    {{}, Redundancy,
     Redundancy \cup {"REDUNDANCY_USER"},
     Redundancy \cup {"ROOTFS_AB"},
     Redundancy \cup {"ROOTFS_AB", "UNIFY_RF_BL_AB"}}
=============================================================================
