---------------------------- MODULE MCInstaller ----------------------------
(* The installer on two disks.                                              *)
EXTENDS Installer

CONSTANTS sda, sdb

TwoPaths == {sda, sdb}

=============================================================================
