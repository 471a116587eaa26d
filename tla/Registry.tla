------------------------------- MODULE Registry -------------------------------
(***************************************************************************)
(* SQLHandle, the table of open connection handles: the three natives that *)
(* add to it, mysql_close, mysql_option and Unload.                        *)
(*                                                                         *)
(* A handle owns one connection for the main thread, one worker and a pool *)
(* of workers.  A native that finds an open handle for the same server     *)
(* returns it, unless duplicate connections are allowed.                   *)
(*                                                                         *)
(* Host, user, password and database are one value, the server; the six    *)
(* TLS options are a switch and one value.  The numbers a script passes    *)
(* are cells, which become a size_t.  Everything is on the main thread;    *)
(* what the connections do afterwards is in QueryPipeline and Connection.  *)
(***************************************************************************)
EXTENDS Integers, FiniteSetsExt

CONSTANTS
  Servers,      \* what identifies a server
  NoServer,     \* an empty host, user or database
  Cells,        \* numbers scripts pass
  SizeModulus,  \* values of size_t
  MaxPort,      \* 65535
  MaxPool,      \* 64
  DefaultPort,  \* 3306, of a connection file
  DefaultPool,  \* 2
  Authorities,  \* values of the TLS options
  Unset,        \* none given
  Files,        \* the connection files: sequences of <<key, value>>
  MaxId         \* bound: handle ids

ASSUME RegistryAssumption ==
  /\ NoServer \notin Servers /\ Unset \notin Authorities
  /\ Cells \subseteq Int
  /\ MaxPort \in Nat \ {0} /\ MaxPool \in Nat /\ MaxId \in Nat \ {0}
  /\ DefaultPort \in 1 .. MaxPort /\ DefaultPool \in 0 .. MaxPool
  /\ SizeModulus \in Nat /\ MaxPort < SizeModulus /\ MaxPool < SizeModulus

ASSUME FilesAssumption ==
  \A file \in Files :
    /\ DOMAIN file \subseteq Nat /\ IsFiniteSet(DOMAIN file)
    /\ \A n \in DOMAIN file :
         /\ file[n][1] = "server" => file[n][2] \in Servers \cup {NoServer}
         /\ file[n][1] = "ssl_ca_file" => file[n][2] \in Authorities \cup {Unset}

TLS == [enabled : BOOLEAN, authority : Authorities \cup {Unset}]
NoTLS == [enabled |-> FALSE, authority |-> Unset]

Ports == 1 .. MaxPort
Settings == [server : Servers, port : Ports, reconnect : BOOLEAN, pool : 0 .. MaxPool,
             tls : TLS]

VARIABLES
  handles,      \* SQLHandle, an unordered_map: [set of ids -> Settings]
  connections,  \* CMySQLConnection objects that have not been destroyed
  duplicates,   \* MySQLOptions.DuplicateConnections
  unloaded,     \* Unload has run
  allowed       \* history: duplicates have been allowed

tableVars == <<handles, connections, duplicates, unloaded, allowed>>

Open == DOMAIN handles

TableTypeOK ==
  /\ Open \subseteq 1 .. MaxId /\ handles \in [Open -> Settings]
  /\ connections \in Nat
  /\ duplicates \in BOOLEAN /\ unloaded \in BOOLEAN /\ allowed \in BOOLEAN

TableInit ==
  /\ handles = [id \in {} |-> NoServer]
  /\ connections = 0
  /\ duplicates = FALSE /\ unloaded = FALSE /\ allowed = FALSE

---------------------------------------------------------------------------
AsSize(cell) == cell % SizeModulus

PortZero(port, pool) ==              \* faulty variant: no lower limit
  port \in 0 .. MaxPort /\ pool \in 0 .. MaxPool
Accepts(port, pool) == port \in Ports /\ pool \in 0 .. MaxPool

(* operator== of CMySQLConnection; automatic reconnect and the pool do not *)
(* tell handles apart.                                                     *)
SameSettings(a, b) == a = b          \* faulty variant: they do
SameServer(a, b) == a.server = b.server /\ a.port = b.port /\ a.tls = b.tls

Matching(s) == {id \in Open : ~duplicates /\ SameServer(handles[id], s)}

(* The search goes through the map in an order of its own and stops at the *)
(* first id whose successor is not in use.                                 *)
Successor(id) == {id + 1}            \* faulty variant: in use or not
Unused(id) == {id + 1} \ Open
NewIds == IF Open = {} THEN {1} ELSE UNION {Unused(id) : id \in Open}

(* insert does nothing if the id is there.                                 *)
Inserted(id, s) ==
  [i \in Open \cup {id} |-> IF i \in Open THEN handles[i] ELSE s]

Owned(s) == 2 + s.pool

(* The connection made for the comparison.                                 *)
KeptForComparison == 1               \* faulty variant: it is not destroyed
LeftOfComparison == 0

Reuse(s) ==
  /\ Matching(s) # {}
  /\ connections' = connections + LeftOfComparison
  /\ UNCHANGED handles

Add(s) ==
  /\ Matching(s) = {}
  /\ \E id \in NewIds \cap 1 .. MaxId : handles' = Inserted(id, s)
  /\ connections' = connections + Owned(s)

Create(server, port, reconnect, pool, tls) ==
  /\ ~unloaded
  /\ IF Accepts(port, pool)
     THEN LET s == [server |-> server, port |-> port, reconnect |-> reconnect,
                    pool |-> pool, tls |-> tls]
          IN  Reuse(s) \/ Add(s)
     ELSE UNCHANGED <<handles, connections>>
  /\ UNCHANGED <<duplicates, unloaded, allowed>>

---------------------------------------------------------------------------
(* mysql_connect and mysql_connect_ssl.                                    *)

Connect(server, port, reconnect, pool) ==
  server # NoServer /\ Create(server, AsSize(port), reconnect, AsSize(pool), NoTLS)

ConnectSSL(server, authority, port, reconnect, pool) ==
  /\ server # NoServer
  /\ Create(server, AsSize(port), reconnect, AsSize(pool),
            [enabled |-> TRUE, authority |-> authority])

(* mysql_connect_file: LoadConnectionFile.  A number is invalid if it has  *)
(* a sign or a letter, which a negative one stands for; a switch is "on",  *)
(* "off" or neither.                                                       *)

Lines(file, k) == {n \in DOMAIN file : file[n][1] = k}
Said(file, k, default) == IF Lines(file, k) = {} THEN default ELSE file[Max(Lines(file, k))][2]

ParseUnsigned(v) == v \in Nat
ParseBoolean(v) == v \in {"on", "off"}

Valid(line) ==
  CASE line[1] \in {"port", "pool_size"} -> ParseUnsigned(line[2])
    [] line[1] \in {"auto_reconnect", "ssl_enable"} -> ParseBoolean(line[2])
    [] OTHER -> TRUE

ConnectFile(file) ==
  /\ \A n \in DOMAIN file : Valid(file[n])
  /\ Said(file, "server", NoServer) # NoServer
  /\ Create(Said(file, "server", NoServer), Said(file, "port", DefaultPort),
            Said(file, "auto_reconnect", "on") = "on", Said(file, "pool_size", DefaultPool),
            [enabled |-> Said(file, "ssl_enable", "off") = "on",
             authority |-> Said(file, "ssl_ca_file", Unset)])

---------------------------------------------------------------------------
Without(ids) == [i \in Open \ ids |-> handles[i]]
ConnectionsOf(ids) == {c \in ids \X (1 .. MaxPool + 2) : c[2] =< Owned(handles[c[1]])}
OwnedBy(ids) == Cardinality(ConnectionsOf(ids))

(* mysql_close.                                                            *)
Close(id) ==
  /\ handles' = Without({id})
  /\ connections' = connections - OwnedBy({id})
  /\ UNCHANGED <<duplicates, unloaded, allowed>>

(* mysql_option(DUPLICATE_CONNECTIONS, ...).                               *)
Option(value) ==
  /\ ~unloaded
  /\ duplicates' = value
  /\ allowed' = (allowed \/ value)
  /\ UNCHANGED <<handles, connections, unloaded>>

(* ClearAll, called by Unload.                                             *)
ClearAll ==
  /\ ~unloaded
  /\ unloaded' = TRUE
  /\ handles' = Without(Open)
  /\ connections' = connections - OwnedBy(Open)
  /\ UNCHANGED <<duplicates, allowed>>

Unloaded == unloaded /\ UNCHANGED tableVars

TableNext ==
  \/ \E server \in Servers, port, pool \in Cells, reconnect \in BOOLEAN :
       \/ Connect(server, port, reconnect, pool)
       \/ \E authority \in Authorities \cup {Unset} :
            ConnectSSL(server, authority, port, reconnect, pool)
  \/ \E file \in Files : ConnectFile(file)
  \/ \E id \in Open : Close(id)
  \/ \E value \in BOOLEAN : Option(value)
  \/ ClearAll \/ Unloaded

TableSpec == TableInit /\ [][TableNext]_tableVars

---------------------------------------------------------------------------
Target(id) == <<handles[id].server, handles[id].port, handles[id].tls>>

(* Unless duplicates have been allowed, a server has one handle: a script  *)
(* that connects in each of its parts, or is loaded again, gets the same   *)
(* id, whichever native and other options it uses.                         *)
OneHandlePerServer ==
  ~allowed => \A a, b \in Open : Target(a) = Target(b) => a = b

(* Every connection object is owned by a handle that can be closed, so     *)
(* none is left with its threads when all are.                             *)
EveryConnectionOwned == connections = OwnedBy(Open)
=============================================================================
