------------------------------ MODULE MCCampaign ------------------------------
(* Instances of Campaign for TLC: pools of two accounts over two addresses. *)
EXTENDS Campaign

CONSTANTS Maybe,   \* the mutations with a probability strictly between 0 and 1
          Shapes   \* which of the pools below

MCConfig == [m \in Mutations |-> IF m \in Maybe THEN BOOLEAN ELSE {FALSE}]

Acc(k, o, l, d, w, s) ==
  [key |-> k, owner |-> o, lamports |-> l, data |-> d,
   is_writable |-> w, is_signer |-> s, seeds |-> "Derives"]

Shape ==
  [readonly  |-> <<Acc("k1", "prog", 100, NoData, TRUE, FALSE), Acc("k2", "sys", 100, "odd", FALSE, FALSE)>>,
   signer    |-> <<Acc("k1", "prog", 100, NoData, TRUE, TRUE), Acc("k2", "sys", 100, "odd", TRUE, FALSE)>>,
   badkey    |-> <<Acc("k1", "prog", 100, NoData, TRUE, FALSE), Acc(BadStr, "sys", 100, "odd", TRUE, FALSE)>>]

\* A sysvar, say: its data must decode.
MCRefused == {"k2"} \X [owner : Owners, lamports : Lamports, data : {NoData}]

MCPools == {Shape[n] : n \in Shapes}
================================================================================
