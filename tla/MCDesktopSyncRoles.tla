------------------------- MODULE MCDesktopSyncRoles -------------------------
(***************************************************************************)
(* Two ways to share the work between two machines.  In "one" only the     *)
(* users the cfg names edit and click; in "both" the users of both click,  *)
(* and there is more to send each way than the transport takes in.         *)
(***************************************************************************)
EXTENDS MCDesktopSync

CONSTANT MoreFiles

VARIABLE roles

rolesVars == <<vars, roles>>

Both == INSTANCE DesktopSync WITH
  Files <- MoreFiles, Clickers <- Hosts, Editors <- {},
  Old <- 2, MaxEdits <- 3, MaxClock <- 0

RolesInit ==
  \/ roles = "one" /\ Init
  \/ roles = "both" /\ Both!Init

RolesNext ==
  \/ roles = "one" /\ Next /\ UNCHANGED roles
  \/ roles = "both" /\ Both!Next /\ UNCHANGED roles

\* The threads keep running, in either.
Runs(h) ==
  \/ roles = "one" /\ Main(h) /\ UNCHANGED <<faults, roles>>
  \/ roles = "both" /\ Both!Main(h) /\ UNCHANGED <<faults, roles>>

Serves(h) ==
  \/ roles = "one" /\ Server(h) /\ UNCHANGED <<faults, roles>>
  \/ roles = "both" /\ Both!Server(h) /\ UNCHANGED <<faults, roles>>

RolesSpec ==
  /\ RolesInit /\ [][RolesNext]_rolesVars
  /\ \A h \in Hosts : WF_rolesVars(Runs(h)) /\ WF_rolesVars(Serves(h))
=============================================================================
