---------------------------- MODULE AliasService ----------------------------
(***************************************************************************)
(* What the middleware promises to the readers of the alias.  Behind the   *)
(* alias there is one index at a time, and it is only ever replaced, in    *)
(* one step, by a newer one: no reader sees two generations together, nor  *)
(* an older one after a newer one.  A document never goes back to an older *)
(* version of its row, whether its index is written to or replaced; only a *)
(* new generation may lack a document that was there.                      *)
(*                                                                         *)
(* Withdraw is the part of the promise the code does not keep: the delayed *)
(* cleanup may delete the live index (see LiveIndexStays in SyncEngine).   *)
(***************************************************************************)
EXTENDS Naturals

CONSTANTS
    Index,   \* the numbers of the indexes, in the order of their creation
    Docs     \* the primary keys

VARIABLES
    live,    \* the indexes behind the alias
    seen     \* the version readers find of each document; 0: none

Nobody == [d \in Docs |-> 0]

Init == live = {} /\ seen = Nobody

(* A newer generation: what it holds is not older than what was there. *)
Publish ==
    /\ \E i \in Index : /\ \A j \in live : j < i
                        /\ live' = {i}
    /\ seen' \in [Docs -> Nat]
    /\ \A d \in Docs : seen'[d] = 0 \/ seen'[d] >= seen[d]

(* Documents of the live index come or get newer. *)
Deliver ==
    /\ live # {} /\ UNCHANGED live
    /\ seen' \in [Docs -> Nat]
    /\ \A d \in Docs : seen'[d] >= seen[d]

Withdraw == live' = {} /\ seen' = Nobody

Next == Publish \/ Deliver \/ Withdraw

Spec == Init /\ [][Next]_<<live, seen>>
=============================================================================
