---------------------------- MODULE MCLinuxClient ----------------------------
(* LinuxClient for a profile with default routes of both families.          *)
EXTENDS LinuxClient, SetupPlan

MCProfile == << [family |-> "-4", default |-> TRUE],
                [family |-> "-6", default |-> FALSE],
                [family |-> "-6", default |-> TRUE] >>
MCSetup == SetupOf(1, MCProfile, NoRule)

=============================================================================
