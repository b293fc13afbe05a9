--------------------------- MODULE GatewayRuntime ---------------------------
(***************************************************************************)
(* The parts of the running gateway that serve machines and users: the     *)
(* collector's server with its stream monitor, the front door and its      *)
(* shutdown, the login limiter, the idle shutdown, the inventory worker    *)
(* and a dashboard's connection; and the collection stages of an agent in  *)
(* a guest.  They run beside each other and share no state of these        *)
(* models; a behaviour therefore exercises one part, the one whose plan    *)
(* has work, and leaves the others alone.                                  *)
(***************************************************************************)
EXTENDS CollectorServer, GatewayFront, LoginLimiter, IdleShutdown, InventoryWorker, DashboardSocket,
        AuditCollection

VARIABLE part   \* "collector", "front", "login", "idle", "inventory", "socket" or "collection"

runtimeVars == <<part, collectorVars, frontVars, loginVars, idleVars, inventoryVars, socketVars, collectionVars>>

Init ==
  /\ part \in {"collector", "front", "login", "idle", "inventory", "socket", "collection"}
  /\ CInit /\ (cplan.dials > 0 <=> part = "collector")
  /\ FInit /\ (fplan.conns # <<>> <=> part = "front")
  /\ LoginInit /\ (lplan.logins # <<>> <=> part = "login")
  /\ IdleInit /\ (DOMAIN iplan.vms # {} <=> part = "idle")
  /\ InventoryInit /\ (DOMAIN wplan.boards # {} <=> part = "inventory")
  /\ SocketInit /\ (splan.version > 0 <=> part = "socket")
  /\ CollectionInit /\ (kplan.emit # <<>> <=> part = "collection")

InCollector(A) == part = "collector" /\ UNCHANGED <<part, frontVars, loginVars, idleVars, inventoryVars, socketVars, collectionVars>> /\ A
InFront(A) == part = "front" /\ UNCHANGED <<part, collectorVars, loginVars, idleVars, inventoryVars, socketVars, collectionVars>> /\ A
InInventory(A) == part = "inventory" /\ UNCHANGED <<part, collectorVars, frontVars, loginVars, idleVars, socketVars, collectionVars>> /\ A
InSocket(A) == part = "socket" /\ UNCHANGED <<part, collectorVars, frontVars, loginVars, idleVars, inventoryVars, collectionVars>> /\ A
InCollection(A) ==
  part = "collection" /\ UNCHANGED <<part, collectorVars, frontVars, loginVars, idleVars, inventoryVars, socketVars>> /\ A

Next ==
  \/ InCollector(CNext) \/ InFront(FNext) \/ InInventory(InventoryNext) \/ InSocket(SocketNext)
  \/ InCollection(CollectionNext)
  \/ part = "login" /\ UNCHANGED <<part, collectorVars, frontVars, idleVars, inventoryVars, socketVars, collectionVars>> /\ LoginNext
  \/ part = "idle" /\ UNCHANGED <<part, collectorVars, frontVars, loginVars, inventoryVars, socketVars, collectionVars>> /\ IdleNext

\* The goroutines run, the timers fire, the agents reconnect; faults, clients and shutdown need not come.
Spec == Init /\ [][Next]_runtimeVars
FairSpec ==
  /\ Spec
  /\ WF_runtimeVars(InCollector(CWork \/ CDial) \/ InFront(FWork) \/ InInventory(InventoryWork) \/ InSocket(SocketWork)
                     \/ InCollection(CollectionWork))
  /\ WF_runtimeVars(InInventory(BoardWork))

(* Every part gets done: health settles, names are recovered, shutdowns end, *)
(* browsers catch up or their connections end, and kernel records come out   *)
(* or their loss is told.                                                    *)
RuntimeProgress ==
    /\ HealthSettles /\ IdentityRecovered /\ RunEnds /\ CloseEnds /\ DashboardsCatchUp
    /\ SocketEnds /\ BrowserCatchesUp /\ CollectionEnds /\ LossTold /\ RecordsComeOut
=============================================================================
