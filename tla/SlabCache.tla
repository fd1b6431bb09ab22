----------------------------- MODULE SlabCache -----------------------------
(***************************************************************************)
(* What the caches of mempool.h promise to those who call them: the pool   *)
(* is a stack of full slabs, a cache hands out the buffers of one slab,    *)
(* last one first, and collects those given back in another, which joins   *)
(* the stack when it is full.  Each call is a single step.  Slabs are      *)
(* sequences here, there are no pointers that two holders could share.     *)
(* BufferPool and, with a pair of slabs per thread, SlabRace implement     *)
(* this module.                                                            *)
(***************************************************************************)
EXTENDS Naturals, Sequences

CONSTANTS
  Caches,     \* the caches that trade with the pool
  Addresses,  \* the buffers
  SlabSize    \* buffers of a full slab

VARIABLES
  full,       \* the full slabs of the pool, the next one to hand out last
  cons,       \* what each cache has left to hand out
  prod,       \* what was given back to each cache since its last trade
  out         \* buffers handed out and neither given back nor forgotten

vars == <<full, cons, prod, out>>

Slabs == [1..SlabSize -> Addresses]

\* All buffers are inside, and all of them differ.
Init ==
  /\ full \in Seq(Slabs)
  /\ cons \in [Caches -> {<< >>} \cup Slabs]
  /\ prod = [c \in Caches |-> << >>]
  /\ out = {}
  /\ \A i, j \in 1..Len(full), k, l \in 1..SlabSize :
       full[i][k] = full[j][l] => i = j /\ k = l
  /\ \A c, d \in Caches : \A k \in 1..Len(cons[c]), l \in 1..Len(cons[d]) :
       cons[c][k] = cons[d][l] => c = d /\ k = l
  /\ \A i \in 1..Len(full), c \in Caches : \A k \in 1..SlabSize, l \in 1..Len(cons[c]) :
       full[i][k] # cons[c][l]

Last(s) == s[Len(s)]
Without(s, n) == SubSeq(s, 1, Len(s) - n)
Ending(s, n) == {s[i] : i \in (Len(s) - n + 1)..Len(s)}

\* A new cache takes two slabs, one to hand out and one to collect in, and
\* hands out the first n buffers.
Open(c, n) ==
  /\ Len(full) >= 2
  /\ full' = Without(full, 2)
  /\ cons' = [cons EXCEPT ![c] = Without(Last(full), n)]
  /\ prod' = [prod EXCEPT ![c] = << >>]
  /\ out' = out \cup Ending(Last(full), n)

\* A cache with nothing left trades its slab for the last full one.
Trade(c) ==
  /\ cons[c] = << >> /\ full # << >>
  /\ cons' = [cons EXCEPT ![c] = Last(full)]
  /\ full' = Without(full, 1)
  /\ UNCHANGED <<prod, out>>

\* n buffers are handed out.
Take(c, n) ==
  /\ cons' = [cons EXCEPT ![c] = Without(@, n)]
  /\ out' = out \cup Ending(cons[c], n)
  /\ UNCHANGED <<full, prod>>

\* A buffer comes back, to this cache or another one.
Give(c, b) ==
  /\ b \in out
  /\ out' = out \ {b}
  /\ \/ /\ Len(prod[c]) < SlabSize
        /\ prod' = [prod EXCEPT ![c] = Append(@, b)]
        /\ UNCHANGED full
     \/ /\ Len(prod[c]) = SlabSize
        /\ prod' = [prod EXCEPT ![c] = <<b>>]
        /\ full' = Append(full, prod[c])
  /\ UNCHANGED cons

\* Whoever has a buffer may lose it.
Forget(b) ==
  /\ b \in out
  /\ out' = out \ {b}
  /\ UNCHANGED <<full, cons, prod>>

Next ==
  \/ \E c \in Caches :
       \/ \E n \in 0..SlabSize : Open(c, n)
       \/ Trade(c)
       \/ \E n \in 1..Len(cons[c]) : Take(c, n)
       \/ \E b \in out : Give(c, b)
  \/ \E b \in out : Forget(b)

Spec == Init /\ [][Next]_vars
=============================================================================
