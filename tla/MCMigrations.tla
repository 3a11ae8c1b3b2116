---------------------------- MODULE MCMigrations ----------------------------
(* Two backends and one wallet on one device: rows that differ in the backend
   alone, the case the constraints of the migrations disagree about. Three
   rollouts let an upgrade overlap with a rollback.                         *)
EXTENDS Migrations

MCKeys == {"k1"}
MCUrls == {"u1", "u2"}
MCDevices == {"d1"}
=============================================================================
