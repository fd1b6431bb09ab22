--------------------------- MODULE MCTransitPath ---------------------------
(***************************************************************************)
(* The two sides of the transit path of v6-multi-pool: what happens to the *)
(* buffers of a port (TransitPath), and to the tokens of a destination     *)
(* (TransitTokens).  Neither reads what the other changes, so a behaviour  *)
(* is one of either: used says which, and the other stays as initialised.  *)
(***************************************************************************)
EXTENDS TransitPath

CONSTANTS Sources, Tokens, TokensBurst

VARIABLES
  used,                                      \* the side that is looked at
  tRxPc, tAge, tTransit, tQueued, tTxPc, tCollected

tokenVars == <<tRxPc, tAge, tTransit, tQueued, tTxPc, tCollected>>

Token == INSTANCE TransitTokens
           WITH MaxBurstTx <- TokensBurst,
                rxPc <- tRxPc, age <- tAge, transit <- tTransit, queued <- tQueued,
                txPc <- tTxPc, collected <- tCollected

ASSUME TokenAssumption == Token!TokenParameters

PathInit == used \in {"buffers", "tokens"} /\ Init /\ Token!Init

PathNext ==
  /\ UNCHANGED used
  /\ \/ used = "buffers" /\ Next /\ UNCHANGED tokenVars
     \/ used = "tokens" /\ Token!Next /\ UNCHANGED vars

PathSpec == PathInit /\ [][PathNext]_<<used, vars, tokenVars>>

(* TransitTokens: a destination that loses tokens keeps at least one.      *)
SomeTokenLeft == Token!SomeTokenLeft

(* TransitTokens: a packet that has a token finds room in the queue.       *)
PushFits == Token!PushFits
=============================================================================
