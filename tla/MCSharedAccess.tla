---------------------------- MODULE MCSharedAccess --------------------------
(***************************************************************************)
(* Three structures that threads share with few or no atomic operations,   *)
(* each used as it is meant to be and modelled access by access: the ring  *)
(* of opera-v4 with one producer (SpscRing), the cache of v6-multi-pool    *)
(* with a pair of slabs per thread (SlabRace) and the queue of v5-mpsc     *)
(* (MpscQueue).  A behaviour is one of any of them: used says which, and   *)
(* the other two stay as they were initialised.                            *)
(***************************************************************************)
EXTENDS SpscRing

CONSTANTS CacheThreads, rx, PoolSlots, SlabSize, MpscProducers, MpscMax

VARIABLES
  used,                                      \* the structure that is used
  slabs, nSlabsAvailable, buffers,           \* SlabRace
  slabCons, nCons, slabProd, nProd,
  out, pc, buffer, n, slabEmpty,
  mCount, mHead, mTail, mBuffer,             \* MpscQueue
  mProdPc, mClaimed, mObj, mConsPc, mRet

cacheVars == <<slabs, nSlabsAvailable, buffers, slabCons, nCons, slabProd, nProd,
               out, pc, buffer, n, slabEmpty>>
mpscVars == <<mCount, mHead, mTail, mBuffer, mProdPc, mClaimed, mObj, mConsPc, mRet>>

\* v6-multi-pool: a half of the cache for each thread
OwnHalf == [t \in CacheThreads |-> IF t = rx THEN 0 ELSE 1]

Cache == INSTANCE SlabRace
           WITH Threads <- CacheThreads, Takers <- CacheThreads, HalfOf <- OwnHalf

Mpsc == INSTANCE MpscQueue
          WITH Producers <- MpscProducers, Max <- MpscMax, Null <- NoValue,
               count <- mCount, head <- mHead, tail <- mTail, buffer <- mBuffer,
               prodPc <- mProdPc, claimed <- mClaimed, obj <- mObj,
               consPc <- mConsPc, ret <- mRet

\* The receive and the transmit thread of a port
CacheParameters ==
  /\ Cache!RaceParameters
  /\ \E tx \in CacheThreads : tx # rx /\ CacheThreads = {rx, tx}

ASSUME SharedAccessAssumption ==
  RingParameters /\ CacheParameters /\ Mpsc!MpscParameters

SharedAccessInit ==
  /\ used \in {"ring", "cache", "mpsc"}
  /\ Init /\ Cache!Init /\ Mpsc!Init

SharedAccessNext ==
  /\ UNCHANGED used
  /\ \/ used = "ring" /\ Next /\ UNCHANGED <<cacheVars, mpscVars>>
     \/ used = "cache" /\ Cache!Next /\ UNCHANGED <<vars, mpscVars>>
     \/ used = "mpsc" /\ Mpsc!Next /\ UNCHANGED <<vars, cacheVars>>

SharedAccessSpec ==
  SharedAccessInit /\ [][SharedAccessNext]_<<used, vars, cacheVars, mpscVars>>

(* SlabRace: every index stays inside its array and every thread inside     *)
(* bcache_prod or bcache_prod_tx.                                          *)
CacheTypeOK == Cache!TypeOK

(* SlabRace: a trade of a full producer slab finds one nobody works on.    *)
CacheSlabAvailable == Cache!EmptySlabAvailable

(* SlabRace: each buffer is in exactly one place, or out once.             *)
CacheBufferOnce == Cache!EachBufferOnce

(* SlabRace: the calls of the two threads are as good as single steps.     *)
CacheImplementsCalls == Cache!ImplementsCalls

(* MpscQueue: none of the asserts of mpsc.c fails.                         *)
MpscAssertsHold == Mpsc!AssertsHold

(* MpscQueue: the queue is a bounded FIFO for any number of producers.     *)
MpscImplementsFifo == Mpsc!ImplementsFifo
=============================================================================
