------------------------------ MODULE Mailbox ------------------------------
(***************************************************************************)
(* What asynchronous message passing (libs/user/ipc.c) promises its users: *)
(* between every pair of tasks an unbounded mailbox in the sender, from    *)
(* which the receiver takes every message once, in the order of sending,   *)
(* however often and whenever the sender adds more.  The last part is what *)
(* is promised and not kept: see ImplementsMailbox of AsyncIpc.            *)
(***************************************************************************)
EXTENDS Sequences

CONSTANTS Pairs,    \* the pairs <<sender, receiver>> that use a mailbox
          Payloads  \* what a message can say

VARIABLES box,      \* box[p]: sent and not yet received, oldest first
          got       \* got[p]: the message received last

boxVars == <<box, got>>

Empty == [p \in Pairs |-> <<>>]

Init == box = Empty /\ got \in [Pairs -> Payloads]

\* ipc_send_async: never waits for the receiver.
Send(p) == \E x \in Payloads : box' = [box EXCEPT ![p] = Append(@, x)] /\ UNCHANGED got

\* ipc_recv of a message that was sent asynchronously.
Receive(p) == /\ box[p] # <<>>
              /\ got' = [got EXCEPT ![p] = Head(box[p])]
              /\ box' = [box EXCEPT ![p] = Tail(@)]

Next == \E p \in Pairs : Send(p) \/ Receive(p)

\* The messages of p do not stay in the mailbox.
Emptied(p) == WF_boxVars(Receive(p))

Spec == Init /\ [][Next]_boxVars /\ \A p \in Pairs : Emptied(p)
=============================================================================
