---------------------------- MODULE MCBufferPools ---------------------------
(***************************************************************************)
(* Two instances of BufferPool for model checking: one port with slabs and *)
(* bursts of several buffers, and ports that share a pool.  A behaviour is *)
(* one of either: used says which, and the other one stays as it was       *)
(* initialised.                                                            *)
(***************************************************************************)
EXTENDS BufferPool

CONSTANTS SharedPorts, SharedSlabs, SharedSlabSize

VARIABLES
  used,                                        \* the instance that is used
  sPhase, sInit, sFreed, sSlabs, sAvailable, sBuffers,
  sSlabCons, sCons, sSlabProd, sProd,
  sFq, sRx, sRxPc, sBurst, sInFlight

Shared ==
  INSTANCE BufferPool
    WITH NPorts <- SharedPorts, NSlabs <- SharedSlabs, SlabSize <- SharedSlabSize,
         FillSize <- SharedSlabSize, RxSize <- SharedSlabSize, MaxBurst <- SharedSlabSize,
         phase <- sPhase, nInit <- sInit, nFreed <- sFreed,
         slabs <- sSlabs, nSlabsAvailable <- sAvailable, buffers <- sBuffers,
         slabCons <- sSlabCons, nCons <- sCons, slabProd <- sSlabProd, nProd <- sProd,
         fq <- sFq, rx <- sRx, rxPc <- sRxPc, burst <- sBurst, inFlight <- sInFlight

sharedVars == <<sPhase, sInit, sFreed, sSlabs, sAvailable, sBuffers, sSlabCons, sCons,
                sSlabProd, sProd, sFq, sRx, sRxPc, sBurst, sInFlight>>

PoolsInit == used \in {"one", "shared"} /\ Init /\ Shared!Init

PoolsNext ==
  /\ UNCHANGED used
  /\ \/ used = "one" /\ Next /\ UNCHANGED sharedVars
     \/ used = "shared" /\ Shared!Next /\ UNCHANGED vars

PoolsSpec == PoolsInit /\ [][PoolsNext]_<<used, vars, sharedVars>>

(* Ports that share a pool do what SlabCache says: no call changes what    *)
(* another port's cache holds, whichever port a buffer came from.  (This   *)
(* is Shared!ImplementsCalls: while used is "one" nothing of it changes.)  *)
SharedImplementsCalls ==
  /\ Shared!Calls!Init
  /\ [][used = "shared" => [Shared!Calls!Next]_(Shared!Calls!vars)]_sharedVars
=============================================================================
