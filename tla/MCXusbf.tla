------------------------------- MODULE MCXusbf -------------------------------
EXTENDS Xusbf

MCRequests ==
    { [kind |-> "config", value |-> 1], [kind |-> "config", value |-> 0],
      [kind |-> "get"], [kind |-> "sel"], [kind |-> "bad"], [kind |-> "halt", ep |-> "out"] }
=============================================================================
