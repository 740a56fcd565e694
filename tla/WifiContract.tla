---------------------------- MODULE WifiContract ----------------------------
(***************************************************************************)
(* What the session may rely on when it calls IWifiManager and             *)
(* IDhcpServer: one call is one step, the manager lets go of its control   *)
(* socket only together with the group, and one DHCP server is known at a  *)
(* time.  The end of the process is the exception: nothing takes the group *)
(* down then.                                                              *)
(***************************************************************************)
EXTENDS Naturals

VARIABLES
  life,  \* ends of the process so far
  dhcp,  \* a DHCP server is known
  ctrl,  \* the control socket is open
  group  \* a group is up, or may come up

contractVars == <<life, dhcp, ctrl, group>>

Init == life = 0 /\ dhcp = FALSE /\ ctrl = FALSE /\ group = FALSE

\* StartP2pGroupOwner: whether or not it succeeds, the group can be removed.
FormGroup == /\ ctrl' = TRUE /\ (group => group')
             /\ UNCHANGED <<life, dhcp>>

\* wpa_supplicant refused the group, failed to form it or has removed it.
GroupGoes == group' = FALSE /\ UNCHANGED <<life, dhcp, ctrl>>

\* IWifiManager::Stop; it can ask only who listens.
StopManager == /\ group' = IF ctrl THEN FALSE ELSE group
               /\ ctrl' = FALSE
               /\ UNCHANGED <<life, dhcp>>

StartDhcp == ~dhcp /\ dhcp' = TRUE /\ UNCHANGED <<life, ctrl, group>>

StopDhcp == dhcp' = FALSE /\ UNCHANGED <<life, ctrl, group>>

ProcessEnds == /\ life' = life + 1
               /\ dhcp' = FALSE /\ ctrl' = FALSE /\ UNCHANGED group

Next == FormGroup \/ GroupGoes \/ StopManager \/ StartDhcp \/ StopDhcp \/ ProcessEnds

Spec == Init /\ [][Next]_contractVars
=============================================================================
