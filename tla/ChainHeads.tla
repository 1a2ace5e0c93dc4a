----------------------------- MODULE ChainHeads -----------------------------
(***************************************************************************)
(* What the chain promises to those who follow its head: a tree of known   *)
(* blocks that only grows, a head that is replaced by a block at least as  *)
(* heavy, and head events that name a block which was the head, each at    *)
(* most once, but in any order and not for every head.  A restart may fall *)
(* back to any known block.                                                *)
(*                                                                         *)
(*   known      blocks that are stored with their state                    *)
(*   top        the head of the chain                                      *)
(*   announced  blocks for which a ChainHeadEvent was made                 *)
(*   posts      of these, the ones not delivered yet                       *)
(*   told       the block of the last event delivered                      *)
(***************************************************************************)
EXTENDS Integers

CONSTANTS Block, Genesis, Parent, Number

VARIABLES known, top, announced, posts, told

headVars == <<known, top, announced, posts, told>>

Init ==
    /\ known = {Genesis}
    /\ top = Genesis
    /\ announced = {}
    /\ posts = {}
    /\ told = Genesis

Announce(b) ==
    /\ b \notin announced
    /\ announced' = announced \cup {b}
    /\ posts' = posts \cup {b}
    /\ UNCHANGED told

\* A block is written; it may become the head unless the head is heavier.  The
\* miner's block is announced at once.
NewBlock ==
    \E b \in Block \ known :
        /\ Parent[b] \in known
        /\ known' = known \cup {b}
        /\ \/ /\ Number[b] >= Number[top]
              /\ top' = b
              /\ Announce(b) \/ UNCHANGED <<announced, posts, told>>
           \/ /\ Number[b] <= Number[top]
              /\ UNCHANGED <<top, announced, posts, told>>

\* An import that ends announces the head.
AnnounceTop == Announce(top) /\ UNCHANGED <<known, top>>

Deliver(b) ==
    /\ b \in posts
    /\ posts' = posts \ {b}
    /\ told' = b
    /\ UNCHANGED <<known, top, announced>>

Restart ==
    /\ known' \in SUBSET Block
    /\ known \subseteq known'
    /\ top' \in known'
    /\ posts' = {}
    /\ told' = top'
    /\ UNCHANGED announced

Next == NewBlock \/ AnnounceTop \/ (\E b \in posts : Deliver(b)) \/ Restart

Spec == Init /\ [][Next]_headVars
=============================================================================
