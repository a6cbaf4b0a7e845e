----------------------------- MODULE MCMailbox -----------------------------
(* Small instances of Mailbox for TLC.                                     *)
EXTENDS Mailbox

CONSTANTS p1, p2

MCProcs == {p1, p2}

(* A process sends to one other, or to a group of two in either order.     *)
MCReceiverLists == {<<p1>>, <<p1, p2>>, <<p2, p1>>}

(* Two senders meet in the first mailbox; the second one only exists.      *)
MCGrants == {<<p1, p1>>, <<p1, p2>>}
=============================================================================
