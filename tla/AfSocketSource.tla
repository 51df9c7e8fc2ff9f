---------------------------- MODULE AfSocketSource ----------------------------
(***************************************************************************)
(* A stream source (afsocket_sd_* and afsocket_sc_*, afsocket.c): the      *)
(* listener, the connections it accepts, their limit, and what keep-alive  *)
(* hands on to the driver of the next configuration.  A reload is an       *)
(* SdDeinit followed by the init of a driver made anew, or by none; if     *)
(* the new configuration fails, the old driver is initialised again.       *)
(*                                                                         *)
(* File descriptors are numbers; descriptor 0 belongs to main.c.           *)
(***************************************************************************)
EXTENDS Integers, FiniteSets, FiniteSetsExt

CONSTANTS
  MaxConnections, \* max_connections()
  MaxFd,          \* the limit of the process
  NoFd, NoDriver,
  MaxSdReloads    \* bound: reloads

Fd == 0..MaxFd

\* AFSocketSourceDriver.
SocketDriver ==
  [fd : Fd, listens : BOOLEAN, conns : SUBSET Fd, num_connections : Int]

ASSUME AfSocketSourceAssumption ==
  /\ MaxConnections \in Nat \ {0} /\ MaxFd \in Nat \ {0}
  /\ NoFd \notin Fd /\ NoDriver \notin SocketDriver

VARIABLES
  keep_alive, sd_optional, \* the options
  fds,      \* what each descriptor is: "free", "std", "listen" or "conn"
  sd,       \* the driver: its fd, whether it listens, connections and their count
  old_sd,   \* during a reload, the driver of the old configuration
  failed,   \* during a reload, the init of the new driver failed
  handed,   \* during a reload, the listener and the connections persisted
  orphans,  \* connections of a driver whose configuration failed
  inherited,\* history: how many connections the driver took up
  unopened, \* history: an init returned without a listener of its own
  sd_reloads

source_vars == <<keep_alive, sd_optional, fds, sd, old_sd, failed, handed,
                 orphans, inherited, unopened, sd_reloads>>

Nothing == [listener |-> NoFd, conns |-> {}]

AfSocketSourceTypeOK ==
  /\ fds \in [Fd -> {"free", "std", "listen", "conn"}]
  /\ sd \in SocketDriver \cup {NoDriver} /\ old_sd \in SocketDriver \cup {NoDriver}
  /\ old_sd # NoDriver => sd = NoDriver
  /\ handed \in [listener : Fd \cup {NoFd}, conns : SUBSET Fd]
  /\ orphans \subseteq Fd
  /\ inherited \in Nat

AfSocketSourceInit ==
  /\ keep_alive \in BOOLEAN /\ sd_optional \in BOOLEAN
  /\ fds = [f \in Fd |-> IF f = 0 THEN "std" ELSE "free"]
  /\ sd = NoDriver /\ old_sd = NoDriver /\ failed = FALSE
  /\ handed = Nothing /\ orphans = {}
  /\ inherited = 0 /\ unopened = FALSE
  /\ sd_reloads = 0

-----------------------------------------------------------------------------
FreeFds(table) == {f \in Fd : table[f] = "free"}

\* A descriptor the system gives is the lowest free one.
Allocated(table, use) == [table EXCEPT ![Min(FreeFds(table))] = use]

Closed(table, set) == [f \in Fd |-> IF f \in set THEN "free" ELSE table[f]]

\* afsocket_sd_init_instance: the memory of a new driver is zero, its fd too.
NewDriver == [fd |-> 0, listens |-> FALSE, conns |-> {}, num_connections |-> 0]

\* afsocket_sd_init up to listen().  What was persisted is taken by any driver,
\* and nothing but keep-alive has anything persisted.  listen() refuses what
\* is no listener's socket.
TookUp(d) == [d EXCEPT !.conns = handed.conns, !.listens = FALSE]

ListenerHanded == handed.listener # NoFd

Listens(d, f) == [TookUp(d) EXCEPT !.fd = f, !.listens = TRUE]

InitListens(d) ==
  IF ListenerHanded
  THEN /\ fds[handed.listener] = "listen"
       /\ sd' = Listens(d, handed.listener)
       /\ UNCHANGED fds
  ELSE /\ FreeFds(fds) # {}
       /\ fds' = Allocated(fds, "listen")
       /\ sd' = Listens(d, Min(FreeFds(fds)))

\* The socket cannot be opened, and the source is optional.
InitWithout(d) ==
  /\ ~ListenerHanded /\ sd_optional
  /\ sd' = TookUp(d)
  /\ UNCHANGED fds

\* afsocket_sd_init returns FALSE: the socket cannot be opened, or not listen;
\* then it is closed.
InitFailsFds ==
  IF ListenerHanded THEN fds' = Closed(fds, {handed.listener})
  ELSE UNCHANGED fds

CountInherited(before) == inherited' = before + Cardinality(handed.conns)

-----------------------------------------------------------------------------
\* The driver of a new configuration.
SdInitNew ==
  /\ sd = NoDriver /\ ~failed
  /\ \/ InitListens(NewDriver) /\ UNCHANGED unopened
     \/ InitWithout(NewDriver) /\ unopened' = TRUE
  /\ CountInherited(0)
  /\ old_sd' = NoDriver /\ handed' = Nothing
  /\ UNCHANGED <<keep_alive, sd_optional, failed, orphans, sd_reloads>>

\* Its init fails, after it took up the connections.
SdInitFails ==
  /\ old_sd # NoDriver /\ ~failed
  /\ failed' = TRUE
  /\ InitFailsFds
  /\ orphans' = orphans \cup handed.conns
  /\ handed' = Nothing
  /\ UNCHANGED <<keep_alive, sd_optional, sd, old_sd, inherited, unopened, sd_reloads>>

\* The old driver again, after that or the failure of a driver before the new
\* one; whether it succeeds is not looked at.  (Had a driver after it failed,
\* the new one would stay, and the first message end the process: Reload.)
SdRevert ==
  /\ old_sd # NoDriver
  /\ \/ InitListens(old_sd) /\ UNCHANGED unopened
     \/ InitFailsFds /\ sd' = TookUp(old_sd) /\ unopened' = TRUE
  /\ CountInherited(inherited)
  /\ old_sd' = NoDriver /\ failed' = FALSE /\ handed' = Nothing
  /\ UNCHANGED <<keep_alive, sd_optional, orphans, sd_reloads>>

\* The new configuration has no such source: the entries are destroyed.
SdRemoved ==
  /\ old_sd # NoDriver /\ ~failed
  /\ fds' = Closed(fds, handed.conns \cup ({handed.listener} \ {NoFd}))
  /\ old_sd' = NoDriver /\ handed' = Nothing
  /\ UNCHANGED <<keep_alive, sd_optional, sd, failed, orphans, inherited, unopened, sd_reloads>>

\* Mutant: the connections are persisted and closed.
HandedAndClosed == fds' = Closed(fds, sd.conns)

\* With keep-alive everything stays open.
HandedOpen == UNCHANGED fds

\* afsocket_sd_deinit, on a reload.
SdDeinit ==
  /\ sd # NoDriver
  /\ sd_reloads < MaxSdReloads
  /\ sd_reloads' = sd_reloads + 1
  /\ IF keep_alive
     THEN /\ handed' = [listener |-> sd.fd, conns |-> sd.conns]
          /\ HandedOpen
     ELSE /\ fds' = Closed(fds, sd.conns \cup {sd.fd})
          /\ UNCHANGED handed
  /\ old_sd' = [sd EXCEPT !.conns = {}, !.listens = FALSE]
  /\ sd' = NoDriver
  /\ UNCHANGED <<keep_alive, sd_optional, failed, orphans, inherited, unopened>>

-----------------------------------------------------------------------------
\* Mutant: the limit is passed by one.
AllowedOneMore == sd.num_connections <= MaxConnections

Allowed == sd.num_connections < MaxConnections

\* afsocket_sd_accept and afsocket_sd_process_connection; a connection that is
\* not allowed is closed at once.
Accept ==
  /\ sd # NoDriver /\ sd.listens
  /\ fds[sd.fd] = "listen"
  /\ FreeFds(fds) # {}
  /\ Allowed
  /\ fds' = Allocated(fds, "conn")
  /\ sd' = [sd EXCEPT !.conns = @ \cup {Min(FreeFds(fds))}, !.num_connections = @ + 1]
  /\ UNCHANGED <<keep_alive, sd_optional, old_sd, failed, handed, orphans, inherited,
                 unopened, sd_reloads>>

\* afsocket_sc_notify and afsocket_sd_close_connection: end of file or an error.
CloseConnection(c) ==
  /\ sd # NoDriver /\ c \in sd.conns
  /\ fds' = Closed(fds, {c})
  /\ sd' = [sd EXCEPT !.conns = @ \ {c}, !.num_connections = @ - 1]
  /\ UNCHANGED <<keep_alive, sd_optional, old_sd, failed, handed, orphans, inherited,
                 unopened, sd_reloads>>

\* The same for the driver that failed.
CloseOrphan(c) ==
  /\ old_sd = NoDriver
  /\ c \in orphans
  /\ fds' = Closed(fds, {c})
  /\ orphans' = orphans \ {c}
  /\ UNCHANGED <<keep_alive, sd_optional, sd, old_sd, failed, handed, inherited,
                 unopened, sd_reloads>>

AfSocketSourceNext ==
  \/ SdInitNew \/ SdInitFails \/ SdRevert \/ SdRemoved \/ SdDeinit
  \/ Accept
  \/ \E c \in Fd : CloseConnection(c) \/ CloseOrphan(c)

AfSocketSourceSpec == AfSocketSourceInit /\ [][AfSocketSourceNext]_source_vars

-----------------------------------------------------------------------------
Listeners ==
  (IF sd # NoDriver /\ sd.listens THEN {sd.fd} ELSE {})
    \cup ({handed.listener} \ {NoFd})

Conns == IF sd = NoDriver THEN {} ELSE sd.conns

\* Over reloads that succeed, fail or drop the source, every open socket is the
\* listener or a connection of one driver, or persisted, and none of theirs was
\* closed under them, unless an init ended without a listener: the driver then
\* has an fd that is not its own, which the next deinit closes or hands on.
SourceSocketsOwned ==
  ~unopened =>
    /\ {f \in Fd : fds[f] = "listen"} = Listeners
    /\ {f \in Fd : fds[f] = "conn"} = Conns \cup handed.conns \cup orphans
    /\ Conns \cap handed.conns = {}
    /\ (Conns \cup handed.conns) \cap orphans = {}
    /\ fds[0] = "std"

\* The limit on the connections of a source holds but for the connections the driver
\* took up, which num_connections does not count though closing them does.
ConnectionsLimited ==
  sd # NoDriver => Cardinality(sd.conns) <= MaxConnections + inherited
=============================================================================
