----------------------------- MODULE MCStreams ------------------------------
(* Two brokers and the connections between them for TLC.                   *)
EXTENDS Streams

CONSTANTS a, b

OneWay == {<<a, b>>}
BothWays == {<<a, b>>, <<b, a>>}

=============================================================================
