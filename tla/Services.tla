-------------------------------- MODULE Services --------------------------------
(* The components that serve requests beside the lifecycle.  They share no      *)
(* state in the program, so a behaviour of this module is one of one of them,   *)
(* while the others stay in an initial state: the sum of their state spaces.    *)
EXTENDS Accounts, Consoles, VmOperations, ImageCache, Backups, AddressPool, SchemaUpgrade,
  JobHistory, CatalogSeeds

CONSTANT Focuses   \* which of them are looked at

VARIABLE focus     \* the one of this behaviour

ASSUME KnownFocuses ==
  Focuses \subseteq
    {"accounts", "consoles", "operations", "images", "backups", "pools", "schema", "history",
     "seeds"}

services ==
  <<focus, accounts, consoles, operations, images, backups, pools, schema, history, seeds>>

\* One initial state is enough of a component that is not looked at.
ServicesInit ==
  /\ focus \in Focuses
  /\ AccountsInit /\ (focus # "accounts" => \A u \in Users : user[u] = NoAccount)
  /\ ConsolesInit /\ (focus # "consoles" => ~viewer.admin)
  /\ OperationsInit
  /\ ImagesInit /\ (focus # "images" => ~checksummed /\ file[Base] = "absent")
  /\ BackupsInit
  /\ PoolInit /\ (focus # "pools" => net.pool = [family |-> 4, start |-> 0, end |-> 0, gateway |-> NoAddress])
  /\ UpgradeInit
  /\ focus # "schema" => tables = {} /\ sqlite = "drops" /\ \A d \in Deps : past[d] = <<"bad", "none">>
  /\ HistoryInit
  /\ focus # "seeds" =>
       /\ configured = FALSE /\ secret = <<>>
       /\ catalog = [b \in Blocks |-> IF b = "own" THEN "custom" ELSE "former"]
       /\ recipe = [p \in Placed |-> [ref |-> "own", input |-> Blank, sound |-> TRUE]]
  /\ SeedsInit
  /\ focus # "seeds" \/ (\E p \in Placed : recipe[p].ref # "own") => starter = NoStarter /\ Existing = {}

ServicesNext ==
  /\ \/ /\ focus = "accounts" /\ AccountsNext
        /\ UNCHANGED <<consoles, operations, images, backups, pools, schema, history, seeds>>
     \/ /\ focus = "consoles" /\ ConsolesNext
        /\ UNCHANGED <<accounts, operations, images, backups, pools, schema, history, seeds>>
     \/ /\ focus = "operations" /\ OperationsNext
        /\ UNCHANGED <<accounts, consoles, images, backups, pools, schema, history, seeds>>
     \/ /\ focus = "images" /\ ImagesNext
        /\ UNCHANGED <<accounts, consoles, operations, backups, pools, schema, history, seeds>>
     \/ /\ focus = "backups" /\ BackupsNext
        /\ UNCHANGED <<accounts, consoles, operations, images, pools, schema, history, seeds>>
     \/ /\ focus = "pools" /\ PoolNext
        /\ UNCHANGED <<accounts, consoles, operations, images, backups, schema, history, seeds>>
     \/ /\ focus = "schema" /\ UpgradeNext
        /\ UNCHANGED <<accounts, consoles, operations, images, backups, pools, history, seeds>>
     \/ /\ focus = "history" /\ HistoryNext
        /\ UNCHANGED <<accounts, consoles, operations, images, backups, pools, schema, seeds>>
     \/ /\ focus = "seeds" /\ SeedsNext
        /\ UNCHANGED <<accounts, consoles, operations, images, backups, pools, schema, history>>
  /\ UNCHANGED focus

\* What waits in the component that is looked at goes on; in the others nothing waits.
ServicesSpec ==
  /\ ServicesInit /\ [][ServicesNext]_services
  /\ ConsolesFairness /\ OperationsFairness
  /\ WF_schema(focus = "schema" /\ Upgrading)

TypeOK ==
  /\ AccountsTypeOK /\ ConsolesTypeOK /\ OperationsTypeOK /\ ImagesTypeOK
  /\ BackupsTypeOK /\ PoolTypeOK /\ UpgradeTypeOK /\ HistoryTypeOK
  /\ SeedsTypeOK
================================================================================
