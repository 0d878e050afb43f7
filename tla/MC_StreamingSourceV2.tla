----------------------- MODULE MC_StreamingSourceV2 -----------------------
EXTENDS StreamingSourceV2

\* A sample with a nested object holding a long, which becomes the
\* timestamp column user_ts.
MCSample ==
    << [key |-> "user", val |-> [fields |->
            << [key |-> "ts", val |-> [kind |-> "long"]] >>]] >>

MCSamples == {MCSample}

MCAutoMeasures == << [name |-> "minute_start", type |-> "timestamp"] >>

MCNameInputs == {<<"t">>}

MCAddInputs ==
    { [name |-> "x", datatype |-> "timestamp", mapping |-> <<"x">>],
      [name |-> "",  datatype |-> "timestamp", mapping |-> <<>>] }
=============================================================================
