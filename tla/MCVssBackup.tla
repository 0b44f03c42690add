---------------------------- MODULE MCVssBackup ----------------------------
(* Instances of VssBackup for TLC. *)
EXTENDS VssBackup

CONSTANTS phone, desktop,   \* devices
          receive, refresh  \* blind_receive, refresh

Both  == {phone, desktop}
Alone == {phone}

Refreshed == {receive, refresh}
Received  == {receive}
Refresh   == {refresh}
=============================================================================
