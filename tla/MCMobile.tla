------------------------------ MODULE MCMobile ------------------------------
EXTENDS MobileReceiver

\* Both directions of X and one of Y, a resolution (the one reported from the
\* start: which one is reported is in no property) and a cancel.
MCFrames ==
  {f \in [intact : {TRUE}, sequence : Sequences, direction : {0, 1, 2, 4},
          deadman : BOOLEAN, rapid : {FALSE}, precision : {FALSE},
          event : {0, 2, 5}, event_sequence : EventSequences] :
     f.event # 0 \/ f.event_sequence = 0}
  \union
  {[intact |-> FALSE, sequence |-> 0, direction |-> 0, deadman |-> FALSE,
    rapid |-> FALSE, precision |-> FALSE, event |-> 0, event_sequence |-> 0]}
=============================================================================
