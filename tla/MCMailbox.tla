------------------------------ MODULE MCMailbox ------------------------------
(* TLC instance of Mailbox: three-bit words, Reset_Gate polling three times. *)
EXTENDS Mailbox

MCWordMax == 7
MCSent == 5
MCPollLimit == 1
=============================================================================
