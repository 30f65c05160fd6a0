---------------------------- MODULE BoundedFifo ----------------------------
(***************************************************************************)
(* What a circular buffer of the cbuf library promises its clients: the    *)
(* items come out in the order they went in, none twice and none lost, and *)
(* at most Capacity of them are inside at a time.                          *)
(*                                                                         *)
(* The items are numbered 1, 2, ... in the order they are entered, so the  *)
(* queue holds the numbers Len(removed)+1 .. entered and needs no variable *)
(* of its own.                                                             *)
(*                                                                         *)
(* broken says that the promise has lapsed.  Nothing is promised after     *)
(* that; the detailed module says which steps of the code make it lapse.   *)
(***************************************************************************)
EXTENDS Integers, Sequences

CONSTANT Capacity

VARIABLES entered,   \* how many items have been put in
          removed,   \* the items taken out, in the order they came out
          broken     \* the promise has lapsed

vars == <<entered, removed, broken>>

Init == /\ entered = 0
        /\ removed = <<>>
        /\ broken = FALSE

Put == /\ entered - Len(removed) < Capacity
       /\ entered' = entered + 1
       /\ UNCHANGED <<removed, broken>>

Take == /\ Len(removed) < entered
        /\ removed' = Append(removed, Len(removed) + 1)
        /\ UNCHANGED <<entered, broken>>

Break == /\ broken' = TRUE
         /\ UNCHANGED <<entered, removed>>

Lapsed == broken /\ broken'

Next == \/ ~broken /\ (Put \/ Take \/ Break)
        \/ Lapsed

Spec == Init /\ [][Next]_vars
=============================================================================
