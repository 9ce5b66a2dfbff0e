------------------------------ MODULE CatalogSeeds ------------------------------
(* What every start of the program writes before it serves (app/seed.py         *)
(* 1557-1932, run_all_seeds): templates of earlier releases are moved to the    *)
(* blocks of this one, credentials in them become references to secrets, and    *)
(* what an installation needs is added without touching what its operator has.  *)
(* Each step is a transaction; the process may stop between any two.            *)
EXTENDS Integers, Sequences, FiniteSets

CONSTANTS
  Placements,        \* how many blocks a user's template places, each with one credential
  Curated,           \* names in CURATED_BASE_IMAGES
  MaxConnections,    \* bound
  MaxCatalogEdits    \* bound: edits of the operator, and starts of an older release

ASSUME SeedBounds ==
  Placements \in Nat /\ MaxConnections \in Nat \ {0} /\ MaxCatalogEdits \in Nat

VARIABLES
  recipe,      \* of each placement: the block it names and its credential field
  credential,  \* what its author typed there, 0 if nothing
  catalog,     \* the table of blocks
  secret,      \* the user's secrets by id; their values are encrypted
  image,       \* the base images of the curated names
  connection,  \* the connections by id, with their default network
  starter,     \* the public starter template; 0 is no connection, no network
  configured,  \* whether the environment names a connection to make
  step,        \* where the start is
  untouched,   \* since the last complete start only the program has written
  catalogEdits

catalogs == <<recipe, credential, catalog, secret, image, connection, starter>>
seeds == <<catalogs, configured, step, untouched, catalogEdits>>

Placed == 1..Placements
Blocks == {"b-ssh", "b-user", "own"}
Connections == 1..MaxConnections
NoConnection == [there |-> FALSE, network |-> FALSE, env |-> FALSE]
NoStarter == [template |-> FALSE, connection |-> 0, network |-> 0]
OwnValue == -1

\* An input is blank, a literal, or a reference to a secret by its name.  A name that
\* the migration makes has the template's id and the field's name, and a counter.
Blank == [is |-> "blank"]
Literal == [is |-> "literal"]
Reference(name) == [is |-> "reference", name |-> name]

\* A database of an earlier release.  A malformed placement is left as it is; the starter
\* may name a network without a connection, one that is there or not.
FormerConnections ==
  {[c \in Connections |-> [NoConnection EXCEPT !.there = c \in had, !.network = c \in had]] :
     had \in SUBSET {1}}
FormerStarters ==
  {NoStarter} \cup {[template |-> TRUE, connection |-> 0, network |-> n] : n \in Connections}
SeedsInit ==
  /\ recipe \in [Placed -> [ref : Blocks, input : {Blank, Literal}, sound : BOOLEAN]]
  /\ \A p \in Placed : ~recipe[p].sound => recipe[p].ref = "b-ssh"
  /\ credential = [p \in Placed |-> IF recipe[p].input = Literal THEN p ELSE 0]
  /\ catalog \in {c \in [Blocks -> {"absent", "former", "custom"}] :
                    c["own"] = "custom" /\ c["b-user"] # "custom" /\ c["b-ssh"] # "custom"}
  /\ secret \in {<<>>} \cup {<<[name |-> 1, value |-> OwnValue]>>}
  /\ image = [i \in Curated |-> "absent"]
  /\ connection \in FormerConnections
  /\ starter \in FormerStarters
  /\ configured \in BOOLEAN
  /\ step = "down" /\ untouched = FALSE /\ catalogEdits = 0

--------------------------------------------------------------------------------
(* run_all_seeds *)

\* Mutant of Steps: the starter's location before the networks.
LocationFirst ==
  <<"recipes", "blocks", "images", "connection", "starter", "location", "networks", "credentials">>

Steps ==
  <<"recipes", "blocks", "images", "connection", "starter", "networks", "credentials", "location">>

Boot ==
  /\ step = "down"
  /\ step' = Steps[1]
  /\ UNCHANGED <<catalogs, configured, untouched, catalogEdits>>

\* The step at hand commits; after the last one the program serves.
Commits(name) ==
  /\ step = name
  /\ LET n == CHOOSE k \in DOMAIN Steps : Steps[k] = name IN
       IF n = Len(Steps) THEN step' = "up" /\ untouched' = TRUE
       ELSE step' = Steps[n + 1] /\ UNCHANGED untouched
  /\ UNCHANGED <<configured, catalogEdits>>

\* _migrate_b_ssh_recipe, committed before the block's row is pruned
MoveRecipes ==
  /\ Commits("recipes")
  /\ recipe' = [p \in Placed |->
       IF recipe[p].ref = "b-ssh" /\ recipe[p].sound THEN [recipe[p] EXCEPT !.ref = "b-user"] ELSE recipe[p]]
  /\ UNCHANGED <<credential, catalog, secret, image, connection, starter>>

\* Built-in blocks that this release has no more
Obsolete == {b \in Blocks : catalog[b] \in {"former", "builtin"} /\ b # "b-user"}

\* seed_blocks: prune, bring the built-in ones up to date, add
SyncBlocks ==
  /\ Commits("blocks")
  /\ catalog' = [b \in Blocks |->
       IF b \in Obsolete THEN "absent" ELSE IF b = "b-user" THEN "builtin" ELSE catalog[b]]
  /\ UNCHANGED <<recipe, credential, secret, image, connection, starter>>

\* seed_base_image: by name
AddImages ==
  /\ Commits("images")
  /\ image' = [i \in Curated |-> IF image[i] = "absent" THEN "curated" ELSE image[i]]
  /\ UNCHANGED <<recipe, credential, catalog, secret, connection, starter>>

\* The table's next id, within the bound
NextConnection ==
  {c \in Connections : (\A k \in c..MaxConnections : ~connection[k].there)
                        /\ (c > 1 => connection[c - 1].there)}
Existing == {c \in Connections : connection[c].there}
Least(ids) == CHOOSE c \in ids : \A k \in ids : c <= k

\* maybe_seed_proxmox: the connection that the environment names, if it has one, by name
AddEnvConnection ==
  /\ Commits("connection")
  /\ connection' = [c \in Connections |->
       IF configured /\ c \in NextConnection /\ \A k \in Existing : ~connection[k].env
         THEN [there |-> TRUE, network |-> FALSE, env |-> TRUE] ELSE connection[c]]
  /\ UNCHANGED <<recipe, credential, catalog, secret, image, starter>>

\* seed_templates: its location is left open
AddStarter ==
  /\ Commits("starter")
  /\ starter' = IF starter.template THEN starter ELSE [NoStarter EXCEPT !.template = TRUE]
  /\ UNCHANGED <<recipe, credential, catalog, secret, image, connection>>

\* default_network_for
WithNetworks(table) == [c \in Connections |-> [table[c] EXCEPT !.network = @ \/ table[c].there]]

\* seed_default_networks
AddNetworks ==
  /\ Commits("networks")
  /\ connection' = WithNetworks(connection)
  /\ UNCHANGED <<recipe, credential, catalog, secret, image, starter>>

\* backfill_starter_template_location: a connection that was chosen stays, whatever it is;
\* one that is missing is that of the starter's network, or the first with its network.
\* A network goes with its connection.
Located(table) ==
  LET have == {c \in Connections : table[c].there}
      home == IF starter.network # 0 THEN starter.network ELSE Least(have) IN
    IF /\ starter.template /\ starter.connection = 0 /\ have # {}
       /\ table[home].network
    THEN [starter EXCEPT !.connection = home, !.network = home]
    ELSE starter
PlaceStarter ==
  /\ Commits("location")
  /\ starter' = Located(connection)
  /\ UNCHANGED <<recipe, credential, catalog, secret, image, connection>>

\* Which blocks have a credential field: in earlier releases b-user had none.
Sensitive(b) == catalog[b] \in {"builtin", "custom"} \/ (b = "b-ssh" /\ catalog[b] = "former")

\* Mutant of ToMove: a reference is moved like a literal.
ToMoveAll == {p \in Placed : Sensitive(recipe[p].ref) /\ recipe[p].input # Blank}

\* The placements whose credential is written out
ToMove == {p \in Placed : Sensitive(recipe[p].ref) /\ recipe[p].input = Literal}

\* Mutant of NamesTaken: the names in the store are not looked at.
NoNamesTaken(store) == {}

NamesTaken(store) == {store[i].name : i \in DOMAIN store}

\* The first of the template's names that is not in the store
FreeName(store) ==
  CHOOSE n \in 1..(Len(store) + 1) : n \notin NamesTaken(store) /\ \A k \in 1..(n - 1) : k \in NamesTaken(store)

\* The store after the placements 1..n, in their order
Stored[n \in Nat] ==
  IF n = 0 THEN secret
  ELSE LET store == Stored[n - 1] IN
    IF n \in ToMove THEN Append(store, [name |-> FreeName(store), value |-> credential[n]])
    ELSE store

\* migrate_template_literal_secrets: one transaction
MoveCredentials ==
  /\ Commits("credentials")
  /\ secret' = Stored[Placements]
  /\ recipe' = [p \in Placed |->
       IF p \in ToMove THEN [recipe[p] EXCEPT !.input = Reference(FreeName(Stored[p - 1]))] ELSE recipe[p]]
  /\ UNCHANGED <<credential, catalog, image, connection, starter>>

--------------------------------------------------------------------------------
\* The process stops, in a start or while it serves.
Halt ==
  /\ step # "down"
  /\ step' = "down"
  /\ UNCHANGED <<catalogs, configured, untouched, catalogEdits>>

EditCatalog(when) ==
  /\ step = when
  /\ catalogEdits < MaxCatalogEdits /\ catalogEdits' = catalogEdits + 1
  /\ untouched' = FALSE
  /\ UNCHANGED <<configured, step, credential>>

\* add_connection, which also gives the starter a location
AddConnection ==
  /\ EditCatalog("up")
  /\ \E c \in NextConnection :
       connection' = WithNetworks([connection EXCEPT ![c] = [@ EXCEPT !.there = TRUE]])
  /\ starter' = Located(connection')
  /\ UNCHANGED <<recipe, catalog, secret, image>>

\* delete_network and delete_connection, refused while a template names the row; a
\* connection's networks go with it, whoever names them
DropNetwork(c) ==
  /\ EditCatalog("up")
  /\ connection[c].network /\ starter.network # c
  /\ connection' = [connection EXCEPT ![c].network = FALSE]
  /\ UNCHANGED <<recipe, catalog, secret, image, starter>>

DropConnection(c) ==
  /\ EditCatalog("up")
  /\ connection[c].there /\ starter.connection # c
  /\ connection' = [connection EXCEPT ![c] = NoConnection]
  /\ UNCHANGED <<recipe, catalog, secret, image, starter>>

\* edit_template_ep: no location, a connection, or one of its networks with it
MoveStarter ==
  /\ EditCatalog("up")
  /\ starter.template
  /\ \E c \in Existing \cup {0}, net \in BOOLEAN :
       /\ net => c # 0 /\ connection[c].network
       /\ starter' = [starter EXCEPT !.connection = c, !.network = IF net THEN c ELSE 0]
  /\ UNCHANGED <<recipe, catalog, secret, image, connection>>

\* delete_template_ep
DropStarter ==
  /\ EditCatalog("up")
  /\ starter.template /\ starter' = NoStarter
  /\ UNCHANGED <<recipe, catalog, secret, image, connection>>

\* edit_image and delete_image
ChangeImage(i) ==
  /\ EditCatalog("up")
  /\ image' \in {[image EXCEPT ![i] = "edited"], [image EXCEPT ![i] = "absent"]}
  /\ UNCHANGED <<recipe, catalog, secret, connection, starter>>

\* An earlier release ran on the data: its blocks are back, and a user wrote a
\* credential into a placement of one of them.
RunFormer(p) ==
  /\ step = "down"
  /\ catalogEdits < MaxCatalogEdits /\ catalogEdits' = catalogEdits + 1
  /\ untouched' = FALSE
  /\ credential' = [credential EXCEPT ![p] = Placements + catalogEdits + 1]
  /\ catalog' = [b \in Blocks |-> IF b = "own" THEN "custom" ELSE "former"]
  /\ recipe' = [recipe EXCEPT ![p] = [ref |-> "b-ssh", input |-> Literal, sound |-> TRUE]]
  /\ UNCHANGED <<secret, image, connection, starter, configured, step>>

SeedsNext ==
  \/ Boot \/ MoveRecipes \/ SyncBlocks \/ AddImages \/ AddEnvConnection \/ AddStarter
  \/ AddNetworks \/ MoveCredentials \/ PlaceStarter \/ Halt
  \/ AddConnection \/ MoveStarter \/ DropStarter
  \/ \E c \in Connections : DropNetwork(c) \/ DropConnection(c)
  \/ \E i \in Curated : ChangeImage(i)
  \/ \E p \in Placed : RunFormer(p)

SeedsSpec == SeedsInit /\ [][SeedsNext]_seeds

--------------------------------------------------------------------------------
SeedsTypeOK ==
  /\ recipe \in [Placed -> [ref : Blocks, sound : BOOLEAN,
                            input : {Blank, Literal} \cup [is : {"reference"}, name : Nat]]]
  /\ credential \in [Placed -> Nat]
  /\ catalog \in [Blocks -> {"absent", "former", "builtin", "custom"}]
  /\ secret \in Seq([name : Nat, value : Nat \cup {OwnValue}])
  /\ image \in [Curated -> {"absent", "curated", "edited"}]
  /\ connection \in [Connections -> [there : BOOLEAN, network : BOOLEAN, env : BOOLEAN]]
  /\ starter \in [template : BOOLEAN, connection : 0..MaxConnections, network : 0..MaxConnections]
  /\ configured \in BOOLEAN /\ untouched \in BOOLEAN
  /\ step \in {"down", "up"} \cup {Steps[n] : n \in DOMAIN Steps}
  /\ catalogEdits \in 0..MaxCatalogEdits

\* _secret_lookup_factory for the template's owner: the first of the name
Resolved(name) ==
  secret[CHOOSE i \in DOMAIN secret :
           /\ secret[i].name = name
           /\ \A k \in 1..(i - 1) : secret[k].name # name].value

\* "Move each literal into the owner's encrypted Secret store and leave a reference"
\* (seed.py 1849-1853): whatever the store held before and wherever a start broke off,
\* each field goes on to give its owner what its author typed.
CredentialsResolve ==
  \A p \in Placed :
    recipe[p].input.is = "reference" =>
      /\ recipe[p].input.name \in NamesTaken(secret)
      /\ Resolved(recipe[p].input.name) = credential[p]

\* The starter names a network that is gone, and no connection: it is left as it is.
Stranded == starter.connection = 0 /\ starter.network # 0 /\ ~connection[starter.network].network

\* Once the program serves, wherever earlier starts broke off: no credential field of a
\* block in the catalog holds a literal, also one that only the block's new schema makes a
\* credential; every sound placement names a block that is there, though blocks are pruned
\* by every start and recipes only moved when they name b-ssh; and "location is assigned
\* after networks exist" (seed.py 1927): connections have networks, and the starter has a
\* place if there is a connection, unless it is stranded.
ServedCatalogSound ==
  step = "up" =>
    /\ \A p \in Placed : recipe[p].input = Literal => catalog[recipe[p].ref] = "absent"
    /\ \A p \in Placed : recipe[p].sound => catalog[recipe[p].ref] # "absent"
    /\ untouched => /\ \A c \in Existing : connection[c].network
                    /\ Existing # {} => starter.connection # 0 \/ Stranded

\* Seeds are idempotent (seed.py 1698-1700, 1852): a start after which nobody else wrote
\* is followed only by starts that change nothing, complete or not.
RestartChangesNothing == [][untouched /\ untouched' => UNCHANGED catalogs]_seeds
================================================================================
